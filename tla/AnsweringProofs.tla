---------------------------- MODULE AnsweringProofs ----------------------------
(***************************************************************************)
(* Proofs about the way of a question: what it reads, what it is answered  *)
(* from and what becomes of an external RAG's answer, for any stores,      *)
(* realms, fragments and templates.                                        *)
(***************************************************************************)
EXTENDS MCAnswering, ListFacts

----------------------------------------------------------------------------
(* An external RAG as a pipeline *)

HttpInv ==
    /\ context \subseteq Fields
    /\ record.template \in Http!Templates
    /\ state = "built" => \A u \in Http!Checked : Http!Allowed(u)
    /\ Http!EgressIsAllowed
    /\ Http!ContextArrives
    /\ Http!ErrorIsNoAnswer
    /\ Http!TopLevelIsRead

\* A payload holds every field of the context.
LEMMA PayloadTellsTheContext ==
  ASSUME HttpInv, NEW f \in context
  PROVE  /\ f \in DOMAIN Http!Payload
         /\ \/ Http!Payload[f] = "value"
            \/ /\ record.template # Http!NoTemplate /\ f \in DOMAIN record.template
               /\ record.template[f] = "text" \/ f \notin Http!Rendered
<1>1. CASE record.template = Http!NoTemplate
  BY <1>1 DEF Http!Payload, Http!Appended
<1>2. CASE record.template # Http!NoTemplate
  <2>1. PICK own \in SUBSET Fields : record.template \in [own -> Http!InTemplate]
    BY <1>2 DEF HttpInv, Http!Templates
  <2>2. DOMAIN record.template = own
    BY <2>1
  <2>3. Http!Payload = [g \in own \cup context |->
                          IF g \in own THEN Http!Render(g, record.template[g]) ELSE "value"]
    BY <1>2, <2>2 DEF Http!Payload, Http!Appended
  <2>4. CASE f \notin own
    BY <2>3, <2>4
  <2>5. CASE f \in own
    <3>1. record.template[f] \in {"its placeholder", "text"}
      BY <2>1, <2>5 DEF Http!InTemplate
    <3>2. Http!Payload[f] = Http!Render(f, record.template[f])
      BY <2>3, <2>5
    <3>3. CASE record.template[f] = "text"
      BY <1>2, <2>2, <2>3, <2>5, <3>3
    <3>4. CASE record.template[f] = "its placeholder" /\ f \in Http!Rendered
      <4>1. Http!Render(f, record.template[f]) = "value"
        BY <3>4 DEF Http!Render
      <4>2. QED
        BY <2>3, <2>5, <3>2, <4>1
    <3>5. CASE f \notin Http!Rendered
      BY <1>2, <2>2, <2>3, <2>5, <3>5
    <3>6. QED
      BY <3>1, <3>3, <3>4, <3>5
  <2>6. QED
    BY <2>4, <2>5
<1>3. QED
  BY <1>1, <1>2

\* A question put to an allowed address leaves what the properties say.
LEMMA PostKeeps ==
  ASSUME HttpInv, NEW u, Http!Allowed(u), Http!Post(u), UNCHANGED <<record, context, allowlist>>
  PROVE  Http!EgressIsAllowed' /\ Http!ContextArrives'
<1>1. PICK payload : payload = Http!Payload
  OBVIOUS
<1>2. called' = [url |-> u, payload |-> payload]
  BY <1>1 DEF Http!Post
<1>3. Http!EgressIsAllowed'
  BY <1>2 DEF Http!EgressIsAllowed, Http!Allowed
<1>4. \A f \in context : /\ f \in DOMAIN payload
                         /\ \/ payload[f] = "value"
                            \/ /\ record.template # Http!NoTemplate /\ f \in DOMAIN record.template
                               /\ record.template[f] = "text" \/ f \notin Http!Rendered
  BY <1>1, PayloadTellsTheContext
<1>5. Http!ContextArrives'
  BY <1>2, <1>4 DEF Http!ContextArrives
<1>6. QED
  BY <1>3, <1>5

\* What a RAG puts at the top level is what either way reads.
LEMMA TopIsTaken ==
  ASSUME NEW got \in Http!Answers, ~Http!Raises(got)
  PROVE  /\ got.status = "ok"
         /\ got.top # "absent" => /\ Http!RunSources(got) = got.top
                                    /\ Http!RetrieveSources(got) = got.top
<1>1. got.status = "ok"
  BY DEF Http!Raises
<1>2. ASSUME got.top # "absent" PROVE Http!Mapped(got).top = got.top
  <2>1. got \in [status : {"ok"}, top : {"absent", "empty", "some"}, trace : {"absent", "some"},
                   text : BOOLEAN]
    BY <1>2 DEF Http!Answers
  <2>2. [got EXCEPT !.trace = "absent", !.top = IF @ = "absent" THEN "empty" ELSE @].top = got.top
    BY <1>2, <2>1
  <2>3. QED
    BY <2>2 DEF Http!Mapped
<1>3. QED
  BY <1>1, <1>2 DEF Http!RunSources, Http!RetrieveSources, Http!OrEmpty

LEMMA ResultKeeps ==
  ASSUME HttpInv, NEW got \in Http!Answers, NEW how, NEW text,
         NEW sources \in {Http!RunSources(got), Http!RetrieveSources(got)},
         result' = IF Http!Raises(got) THEN Http!Failed ELSE Http!Result(got, how, text, sources)
  PROVE  Http!ErrorIsNoAnswer' /\ Http!TopLevelIsRead'
<1>1. CASE Http!Raises(got)
  BY <1>1 DEF Http!Failed, Http!ErrorIsNoAnswer, Http!TopLevelIsRead
<1>2. CASE ~Http!Raises(got)
  <2>1. result'.answer = got /\ result'.sources = sources
    BY <1>2 DEF Http!Result
  <2>2. QED
    BY <1>2, <2>1, TopIsTaken DEF Http!ErrorIsNoAnswer, Http!TopLevelIsRead
<1>3. QED
  BY <1>1, <1>2

LEMMA HttpStepKeeps == ASSUME HttpInv, Http!Next PROVE HttpInv'
<1>1. CASE Http!Build
  <2>1. UNCHANGED <<record, context, allowlist, called, result>>
    BY <1>1 DEF Http!Build
  <2>2. state' = "built" => \A u \in Http!Checked : Http!Allowed(u)
    BY <1>1 DEF Http!Build
  <2>3. QED
    BY <2>1, <2>2 DEF HttpInv, Http!Checked, Http!Allowed, Http!EgressIsAllowed,
                      Http!ContextArrives, Http!ErrorIsNoAnswer, Http!TopLevelIsRead
<1>2. ASSUME UNCHANGED <<record, context, allowlist, state>>,
             Http!EgressIsAllowed', Http!ContextArrives', Http!ErrorIsNoAnswer', Http!TopLevelIsRead'
      PROVE  HttpInv'
  BY <1>2 DEF HttpInv, Http!Checked, Http!Allowed
<1>3. ASSUME NEW how, Http!CallRun(how), state = "built", UNCHANGED <<record, context, allowlist, state>>
      PROVE  HttpInv'
  <2>1. Http!Allowed(record.url)
    BY <1>3 DEF HttpInv, Http!Checked
  <2>2. Http!EgressIsAllowed' /\ Http!ContextArrives'
    BY <1>3, <2>1, PostKeeps DEF Http!CallRun
  <2>3. PICK got \in Http!Answers :
          result' = IF Http!Raises(got) THEN Http!Failed
                    ELSE Http!Result(got, how, got.text, Http!RunSources(got))
    BY <1>3 DEF Http!CallRun
  <2>4. Http!ErrorIsNoAnswer' /\ Http!TopLevelIsRead'
    BY <2>3, ResultKeeps
  <2>5. QED
    BY <1>2, <1>3, <2>2, <2>4
<1>4. CASE Http!Run
  BY <1>3, <1>4 DEF Http!Run
<1>5. CASE Http!Retrieve
  <2>1. CASE record.endpoint = Http!NoUrl
    BY <1>3, <1>5, <2>1 DEF Http!Retrieve
  <2>2. CASE record.endpoint # Http!NoUrl
    <3>1. /\ Http!Post(record.endpoint) /\ state = "built"
          /\ UNCHANGED <<record, context, allowlist, state>>
          /\ \E got \in Http!Answers :
                result' = IF Http!Raises(got) THEN Http!Failed
                          ELSE Http!Result(got, "retrieve", FALSE, Http!RetrieveSources(got))
      BY <1>5, <2>2 DEF Http!Retrieve
    <3>2. Http!Allowed(record.endpoint)
      BY <2>2, <3>1 DEF HttpInv, Http!Checked
    <3>3. Http!EgressIsAllowed' /\ Http!ContextArrives'
      BY <3>1, <3>2, PostKeeps
    <3>4. Http!ErrorIsNoAnswer' /\ Http!TopLevelIsRead'
      BY <3>1, ResultKeeps
    <3>5. QED
      BY <1>2, <3>1, <3>3, <3>4
  <2>3. QED
    BY <2>1, <2>2
<1>6. QED
  BY <1>1, <1>4, <1>5 DEF Http!Next

LEMMA HttpAlways == Spec => [](part = "http" => HttpInv)
<1>1. Init => (part = "http" => HttpInv)
  <2> SUFFICES ASSUME Init, part = "http" PROVE HttpInv
    OBVIOUS
  <2>1. Http!Init
    BY DEF Init
  <2>2. record.template \in Http!Templates /\ context \subseteq Fields
    BY <2>1 DEF Http!Init
  <2>3. called = Http!Nothing /\ result = Http!Nothing /\ state = "new"
    BY <2>1 DEF Http!Init
  <2>4. QED
    BY <2>2, <2>3 DEF HttpInv, Http!EgressIsAllowed, Http!ContextArrives, Http!ErrorIsNoAnswer,
                      Http!TopLevelIsRead
<1>2. (part = "http" => HttpInv) /\ [Next]_vars => (part = "http" => HttpInv)'
  <2> SUFFICES ASSUME part = "http" => HttpInv, [Next]_vars, part' = "http" PROVE HttpInv'
    OBVIOUS
  <2>1. CASE HttpStep
    BY <2>1, HttpStepKeeps DEF HttpStep
  <2>2. CASE UNCHANGED vars
    BY <2>2 DEF vars, httpVars, HttpInv, Http!Checked, Http!Allowed, Http!EgressIsAllowed,
                Http!ContextArrives, Http!ErrorIsNoAnswer, Http!TopLevelIsRead
  <2>3. QED
    BY <2>1, <2>2 DEF Next, HybridStep, BindingStep, QueryStep, ChatStep, GraphStep, PortsStep
<1>3. QED
  BY <1>1, <1>2, PTL DEF Spec

\* However a RAG is registered and whatever it answers: no question leaves for an address that is
\* not allowed, none goes without the context of its run, no error passes for an answer, and the
\* fragments at the top level of an answer are those of the result.
THEOREM ExternalAnswersAreCounted == Spec => []ExternalAnswersCount
<1>1. (part = "http" => HttpInv) => ExternalAnswersCount
  BY DEF ExternalAnswersCount, HttpInv
<1>2. QED
  BY <1>1, HttpAlways, PTL

----------------------------------------------------------------------------
(* The stores a question reaches *)

EnvLeaf(store) == Binding!Leaf(store, "env", "default", Nil)

Analysers == Languages \cup {"unset", "ru_be", "standard"}
AllLoads == [language : Languages, compared : BOOLEAN]
IndexMaps == [Binding!IndexKeys -> [analyser : Analysers, loads : SUBSET AllLoads]]

\* A load that was compared is in an index of its language, and one that was compared and is not
\* written yet finds the index as it was.
Stems(indices) ==
    \A j \in Binding!IndexKeys :
        /\ \A load \in indices[j].loads : load.compared => load.language = indices[j].analyser
        /\ indices[j].loads # {} => indices[j].analyser # "unset"
Awaits(indices, pending) ==
    pending # Binding!Idle =>
        /\ pending = [state |-> "writing", key |-> pending.key, load |-> pending.load]
        /\ pending.load \in AllLoads
        /\ pending.load.compared /\ pending.key \in Binding!IndexKeys =>
              indices[pending.key].analyser = pending.load.language

IndicesInv == index \in IndexMaps /\ Stems(index) /\ Awaits(index, loading)

BindingInv ==
    /\ gateway.dense \in {Binding!Stub, EnvLeaf("qdrant")}
    /\ gateway.sparse \in {Binding!Nothing, EnvLeaf("opensearch")}
    /\ gateway.graph \in {Binding!Stub, EnvLeaf("neo4j")}
    /\ gateway.on \in BOOLEAN
    /\ run.pc \in {"none", "bound", "refused"}
    /\ run.pc # "none" => gateway.on
    /\ IndicesInv
    /\ Binding!RunReadsItsRealm
    /\ Binding!RunFusesAsAsked
    /\ Binding!ChatReadsWhatARunReads

LEMMA BindingInit == Binding!Init => BindingInv
<1> SUFFICES ASSUME Binding!Init PROVE BindingInv
  OBVIOUS
<1>1. gateway = [on |-> FALSE, dense |-> Binding!Stub, sparse |-> Binding!Nothing,
                 graph |-> Binding!Stub] /\ run = [pc |-> "none"]
  BY DEF Binding!Init, Binding!Off, Binding!NoRun
<1>2. index = [k \in Binding!IndexKeys |-> [analyser |-> "unset", loads |-> {}]]
  BY DEF Binding!Init, Binding!NoIndex, Binding!Unset
<1>3. index \in IndexMaps /\ Stems(index)
  BY <1>2 DEF IndexMaps, Analysers, Stems
<1>4. Awaits(index, loading)
  BY DEF Binding!Init, Awaits
<1>5. QED
  BY <1>1, <1>3, <1>4 DEF BindingInv, IndicesInv, Binding!RunReadsItsRealm,
                    Binding!RunFusesAsAsked, Binding!ChatReadsWhatARunReads

\* No run, and indices as they should be: all the properties hold.
LEMMA NoRunKeeps ==
  ASSUME BindingInv, run' = Binding!NoRun, IndicesInv',
         gateway' = gateway \/ gateway' = Binding!Off
  PROVE  BindingInv'
<1>1. run'.pc = "none"
  BY DEF Binding!NoRun
<1>2. /\ gateway'.dense \in {Binding!Stub, EnvLeaf("qdrant")}
      /\ gateway'.sparse \in {Binding!Nothing, EnvLeaf("opensearch")}
      /\ gateway'.graph \in {Binding!Stub, EnvLeaf("neo4j")}
      /\ gateway'.on \in BOOLEAN
  <2>1. CASE gateway' = gateway
    BY <2>1 DEF BindingInv
  <2>2. CASE gateway' = Binding!Off
    BY <2>2 DEF Binding!Off
  <2>3. QED
    BY <2>1, <2>2
<1>3. QED
  BY <1>1, <1>2 DEF BindingInv, Binding!RunReadsItsRealm, Binding!RunFusesAsAsked,
                    Binding!ChatReadsWhatARunReads, EnvLeaf, Binding!Leaf

\* An index that is made where there was none, and one that is there, which stays as it is.
LEMMA IndexIsMade ==
  ASSUME IndicesInv, NEW k, NEW language \in Analysers \ {"unset"},
         NEW now, now = Binding!WithIndex(k, language)
  PROVE  /\ now \in IndexMaps /\ Stems(now) /\ Awaits(now, loading)
         /\ k \in Binding!IndexKeys =>
               /\ now[k].analyser # "unset" /\ now[k].loads = index[k].loads
               /\ now[k].analyser = IF index[k].analyser = "unset" THEN language
                                    ELSE index[k].analyser
<1>1. PICK T : T = Analysers
  OBVIOUS
<1>2. PICK L : L = SUBSET AllLoads
  OBVIOUS
<1>3. index \in [Binding!IndexKeys -> [analyser : T, loads : L]] /\ language \in T
      /\ language # "unset"
  BY <1>1, <1>2 DEF IndicesInv, IndexMaps
<1>4. now = IF index[k].analyser = "unset" THEN [index EXCEPT ![k].analyser = language] ELSE index
  BY DEF Binding!WithIndex, Binding!Unset
<1>5. CASE index[k].analyser # "unset" \/ k \notin Binding!IndexKeys
  <2>1. now = index
    BY <1>3, <1>4, <1>5
  <2>2. QED
    BY <1>5, <2>1 DEF IndicesInv
<1>6. CASE index[k].analyser = "unset" /\ k \in Binding!IndexKeys
  <2>1. index[k].loads = {}
    BY <1>6 DEF IndicesInv, Stems
  <2>2. /\ now \in [Binding!IndexKeys -> [analyser : T, loads : L]]
        /\ now[k].analyser = language /\ now[k].loads = {}
        /\ \A j \in Binding!IndexKeys \ {k} : now[j] = index[j]
    BY <1>3, <1>4, <1>6, <2>1
  <2>3. Stems(now)
    BY <2>2 DEF IndicesInv, Stems
  <2>4. Awaits(now, loading)
    <3>1. SUFFICES ASSUME loading # Binding!Idle, loading.load.compared,
                          loading.key \in Binding!IndexKeys
                   PROVE  now[loading.key].analyser = loading.load.language
      BY DEF Awaits, IndicesInv
    <3>2. index[loading.key].analyser = loading.load.language
          /\ loading.load.language \in Languages
      BY <3>1 DEF IndicesInv, Awaits, AllLoads
    <3>3. loading.key # k
      BY <1>6, <3>2, BindingAssumption DEF Binding!Assumptions, Binding!Unset
    <3>4. QED
      BY <2>2, <3>1, <3>2, <3>3
  <2>5. QED
    BY <1>1, <1>2, <1>3, <1>6, <2>1, <2>2, <2>3, <2>4 DEF IndexMaps
<1>7. QED
  BY <1>5, <1>6

\* What was compared is of the language the index was made for.
LEMMA StartIngestKeeps ==
  ASSUME IndicesInv, NEW c, NEW r, NEW l \in Languages, NEW read \in BOOLEAN,
         Binding!StartIngest(c, r, l, read)
  PROVE  IndicesInv'
<1>1. PICK k : /\ Binding!Ensured(k, l, read) /\ index' = Binding!WithIndex(k, l)
               /\ loading' = [state |-> "writing", key |-> k,
                     load |-> Binding!Load(l, read \/ index[k].analyser = "unset")]
  BY DEF Binding!StartIngest, Binding!Unset
<1>2. l \in Analysers \ {"unset"}
  BY BindingAssumption DEF Binding!Assumptions, Binding!Unset, Analysers
<1>3. /\ index' \in IndexMaps /\ Stems(index')
      /\ k \in Binding!IndexKeys =>
            index'[k].analyser = IF index[k].analyser = "unset" THEN l ELSE index[k].analyser
  BY <1>1, <1>2, IndexIsMade
<1>4. PICK compared : compared = (read \/ index[k].analyser = "unset")
  OBVIOUS
<1>5. /\ loading' = [state |-> "writing", key |-> loading'.key, load |-> loading'.load]
      /\ loading'.key = k /\ loading'.load = [language |-> l, compared |-> compared]
      /\ compared \in BOOLEAN
  BY <1>1, <1>4 DEF Binding!Load
<1>6. compared => index[k].analyser \in {"unset", l}
  BY <1>1, <1>4 DEF Binding!Ensured, Binding!Unset
<1>7. Awaits(index', loading')
  BY <1>3, <1>5, <1>6 DEF Awaits, AllLoads
<1>8. QED
  BY <1>3, <1>7 DEF IndicesInv

LEMMA EndIngestKeeps ==
  ASSUME IndicesInv, Binding!EndIngest PROVE IndicesInv'
<1>1. PICK k, load : k = loading.key /\ load = loading.load
  OBVIOUS
<1>2. PICK now : now = Binding!WithIndex(k, "standard")
  OBVIOUS
<1>3. loading # Binding!Idle /\ loading' = Binding!Idle
      /\ index' = [now EXCEPT ![k].loads = @ \cup {load}]
  BY <1>1, <1>2 DEF Binding!EndIngest
<1>4. "standard" \in Analysers \ {"unset"}
  BY DEF Analysers
<1>5. /\ now \in IndexMaps /\ Stems(now) /\ Awaits(now, loading)
      /\ k \in Binding!IndexKeys => now[k].analyser # "unset"
  BY <1>2, <1>4, IndexIsMade
<1>6. PICK T : T = Analysers
  OBVIOUS
<1>7. PICK L : L = AllLoads
  OBVIOUS
<1>8. now \in [Binding!IndexKeys -> [analyser : T, loads : SUBSET L]] /\ load \in L
  BY <1>1, <1>3, <1>5, <1>6, <1>7 DEF IndexMaps, Awaits
<1>9. /\ index' \in [Binding!IndexKeys -> [analyser : T, loads : SUBSET L]]
      /\ \A j \in Binding!IndexKeys : /\ index'[j].analyser = now[j].analyser
                                      /\ j # k => index'[j].loads = now[j].loads
      /\ k \in Binding!IndexKeys => index'[k].loads = now[k].loads \cup {load}
  BY <1>3, <1>8
<1>10. Stems(index')
  BY <1>1, <1>3, <1>5, <1>9 DEF Stems, Awaits
<1>11. QED
  BY <1>3, <1>6, <1>7, <1>9, <1>10 DEF IndicesInv, IndexMaps, Awaits

\* The ingestion whose index is taken away compared nothing any more.
LEMMA OvertakenAwaits ==
  ASSUME IndicesInv, NEW k, NEW now,
         \A j \in Binding!IndexKeys : j # k => now[j].analyser = index[j].analyser
  PROVE  Awaits(now, Binding!Overtaken(k))
<1>1. CASE loading # Binding!Idle /\ loading.key = k
  <2>1. PICK load : load = loading.load /\ load \in AllLoads
    BY <1>1 DEF IndicesInv, Awaits
  <2>2. loading = [state |-> "writing", key |-> k, load |-> load]
    BY <1>1, <2>1 DEF IndicesInv, Awaits
  <2>3. PICK less : less = [load EXCEPT !.compared = FALSE]
    OBVIOUS
  <2>4. less \in AllLoads /\ ~less.compared
    BY <2>1, <2>3 DEF AllLoads
  <2>5. Binding!Overtaken(k) = [state |-> "writing", key |-> k, load |-> less]
    <3>1. Binding!Overtaken(k) = [loading EXCEPT !.load = less]
      <4>1. less = [loading.load EXCEPT !.compared = FALSE]
        BY <2>1, <2>3
      <4>2. Binding!Overtaken(k) = [loading EXCEPT !.load = [loading.load EXCEPT !.compared = FALSE]]
        BY <1>1 DEF Binding!Overtaken
      <4>3. QED
        BY <4>1, <4>2
    <3>2. QED
      BY <2>2, <3>1
  <2>6. QED
    BY <2>4, <2>5 DEF Awaits
<1>2. CASE ~(loading # Binding!Idle /\ loading.key = k)
  <2>1. Binding!Overtaken(k) = loading
    BY <1>2 DEF Binding!Overtaken
  <2>2. QED
    BY <1>2, <2>1 DEF IndicesInv, Awaits
<1>3. QED
  BY <1>1, <1>2

\* An index that is taken away takes what was compared with it.
LEMMA TakenAwayKeeps ==
  ASSUME IndicesInv, NEW k, NEW entry, entry \in [analyser : Analysers, loads : SUBSET AllLoads],
         \A load \in entry.loads : load.compared => load.language = entry.analyser,
         entry.loads # {} => entry.analyser # "unset",
         index' = [index EXCEPT ![k] = entry],
         loading' = Binding!Overtaken(k) \/ (loading' = loading /\ entry.analyser = index[k].analyser)
  PROVE  IndicesInv'
<1>1. PICK T : T = [analyser : Analysers, loads : SUBSET AllLoads]
  OBVIOUS
<1>2. index \in [Binding!IndexKeys -> T] /\ entry \in T
  BY <1>1 DEF IndicesInv, IndexMaps
<1>3. /\ index' \in [Binding!IndexKeys -> T]
      /\ \A j \in Binding!IndexKeys : index'[j] = IF j = k THEN entry ELSE index[j]
  BY <1>2
<1>4. Stems(index')
  BY <1>3 DEF IndicesInv, Stems
<1>5. CASE loading' = loading /\ entry.analyser = index[k].analyser
  BY <1>1, <1>3, <1>4, <1>5 DEF IndicesInv, IndexMaps, Awaits
<1>6. CASE loading' = Binding!Overtaken(k)
  <2>1. Awaits(index', Binding!Overtaken(k))
    BY <1>3, OvertakenAwaits
  <2>2. QED
    BY <1>1, <1>3, <1>4, <1>6, <2>1 DEF IndicesInv, IndexMaps
<1>7. QED
  BY <1>5, <1>6

LEMMA DumpKeeps ==
  ASSUME IndicesInv, NEW c, NEW r, NEW l \in Languages, NEW replace \in BOOLEAN,
         Binding!LoadDump(c, r, l, replace)
  PROVE  IndicesInv'
<1>1. PICK k, there : /\ k = Binding!IndexOf(c, r)
                      /\ there = (~replace /\ index[k].analyser # "unset")
  OBVIOUS
<1>2. PICK load : load = Binding!Load(l, FALSE)
  OBVIOUS
<1>3. PICK entry : entry = [analyser |-> IF there THEN index[k].analyser ELSE "ru_be",
                            loads |-> (IF there THEN index[k].loads ELSE {}) \cup {load}]
  OBVIOUS
<1>4. /\ index' = [index EXCEPT ![k] = [analyser |-> IF there THEN @.analyser ELSE "ru_be",
                                        loads |-> (IF there THEN @.loads ELSE {}) \cup {load}]]
      /\ loading' = IF there THEN loading ELSE Binding!Overtaken(k)
  BY <1>1, <1>2 DEF Binding!LoadDump, Binding!Unset
<1>5. load \in AllLoads /\ ~load.compared
  BY <1>2 DEF Binding!Load, AllLoads
<1>6. CASE k \in Binding!IndexKeys
  <2>1. index' = [index EXCEPT ![k] = entry]
    BY <1>3, <1>4
  <2>2. index[k] \in [analyser : Analysers, loads : SUBSET AllLoads]
    BY <1>6 DEF IndicesInv, IndexMaps
  <2>3. /\ entry.analyser = (IF there THEN index[k].analyser ELSE "ru_be")
        /\ entry.loads = (IF there THEN index[k].loads ELSE {}) \cup {load}
        /\ entry.analyser \in Analysers /\ entry.loads \in SUBSET AllLoads
    BY <1>3, <1>5, <2>2 DEF Analysers
  <2>4. entry \in [analyser : Analysers, loads : SUBSET AllLoads]
    BY <1>3, <2>3
  <2>5. \A one \in entry.loads : one.compared => one.language = entry.analyser
    BY <1>5, <1>6, <2>3 DEF IndicesInv, Stems
  <2>6. entry.analyser # "unset"
    BY <1>1, <2>3
  <2>7. loading' = Binding!Overtaken(k) \/ (loading' = loading /\ entry.analyser = index[k].analyser)
    BY <1>4, <2>3
  <2>8. QED
    BY <2>1, <2>4, <2>5, <2>6, <2>7, TakenAwayKeeps
<1>7. CASE k \notin Binding!IndexKeys
  <2>1. index' = index
    BY <1>4, <1>7 DEF IndicesInv, IndexMaps
  <2>2. Awaits(index, Binding!Overtaken(k))
    BY OvertakenAwaits
  <2>3. QED
    BY <1>4, <2>1, <2>2 DEF IndicesInv
<1>8. QED
  BY <1>6, <1>7

LEMMA DropKeeps ==
  ASSUME IndicesInv, NEW c, NEW r, Binding!Drop(c, r) PROVE IndicesInv'
<1>1. PICK k : k = Binding!IndexOf(c, r)
  OBVIOUS
<1>2. PICK entry : entry = [analyser |-> "unset", loads |-> {}]
  OBVIOUS
<1>3. index' = [index EXCEPT ![k] = entry] /\ loading' = Binding!Overtaken(k)
  BY <1>1, <1>2 DEF Binding!Drop, Binding!NoIndex, Binding!Unset
<1>4. /\ entry \in [analyser : Analysers, loads : SUBSET AllLoads] /\ entry.loads = {}
  BY <1>2 DEF Analysers
<1>5. QED
  BY <1>3, <1>4, TakenAwayKeeps

LEMMA MadeKeeps ==
  ASSUME IndicesInv, NEW k, index' = Binding!WithIndex(k, "ru_be"), loading' = loading
  PROVE  IndicesInv'
<1>1. "ru_be" \in Analysers \ {"unset"}
  BY DEF Analysers
<1>2. index' \in IndexMaps /\ Stems(index') /\ Awaits(index', loading)
  BY <1>1, IndexIsMade
<1>3. QED
  BY <1>2 DEF IndicesInv

LEMMA IndicesStay == ASSUME IndicesInv, UNCHANGED <<index, loading>> PROVE IndicesInv'
BY DEF IndicesInv, Stems, Awaits

\* A half that is bound to a corpus and a realm is theirs.
LEMMA BoundIsTheirs ==
  ASSUME NEW store, store \notin {"stub", "none"}, NEW c, NEW r
  PROVE  Binding!Bound(EnvLeaf(store), c, r) = Binding!ChatLeaf(store, c, r)
<1>1. EnvLeaf(store) = [store |-> store, host |-> "env", corpus |-> "default", realm |-> Nil]
  BY DEF EnvLeaf, Binding!Leaf
<1>2. PICK base : base = EnvLeaf(store)
  OBVIOUS
<1>3. PICK u : u = Binding!Instance(r, store)
  OBVIOUS
<1>4. base.store = store /\ base.host = "env" /\ base.corpus = "default" /\ base.realm = Nil
  BY <1>1, <1>2
<1>5. Binding!Bound(base, c, r) =
        IF c = "default" /\ r = Nil /\ u = "unset" THEN base
        ELSE Binding!Leaf(store, IF u = "unset" THEN "env" ELSE u, c, r)
  BY <1>3, <1>4 DEF Binding!Bound, Binding!Unset
<1>6. Binding!ChatLeaf(store, c, r) = Binding!Leaf(store, IF u = "unset" THEN "env" ELSE u, c, r)
  BY <1>3 DEF Binding!ChatLeaf, Binding!HostOf, Binding!Unset
<1>7. QED
  BY <1>2, <1>5, <1>6 DEF EnvLeaf

LEMMA StubsStay ==
  ASSUME NEW c, NEW r
  PROVE  /\ Binding!Bound(Binding!Stub, c, r) = Binding!Stub
         /\ Binding!Bound(Binding!Nothing, c, r) = Binding!Nothing
BY DEF Binding!Bound, Binding!Stub, Binding!Nothing

LEMMA BindRunKeeps ==
  ASSUME BindingInv, NEW p, NEW c, NEW r, NEW m, NEW k, NEW read, Binding!BindRun(p, c, r, m, k, read)
  PROVE  BindingInv'
<1>1. PICK dense : dense = Binding!Bound(gateway.dense, c, r)
  OBVIOUS
<1>2. PICK sparse : sparse = IF Binding!IsHybrid(p) THEN Binding!Bound(gateway.sparse, c, r)
                             ELSE Binding!Nothing
  OBVIOUS
<1>3. PICK graph : graph = IF p = "graph" THEN Binding!GraphOf(r) ELSE Binding!Nothing
  OBVIOUS
<1>4. PICK refused : refused = (/\ sparse # Binding!Nothing /\ sparse # gateway.sparse
                                /\ ~Binding!Ensured(Binding!Key(sparse), "ru_be", read))
  OBVIOUS
<1>5. PICK fusing : fusing = IF Binding!IsHybrid(p) THEN Binding!Fusing(p, m, k) ELSE Binding!NoFusing
  OBVIOUS
<1>6. /\ gateway.on
      /\ run' = IF refused THEN [pc |-> "refused", corpus |-> c, realm |-> r, sparse |-> sparse]
                ELSE [pc |-> "bound", corpus |-> c, realm |-> r, pipeline |-> p,
                      dense |-> dense, sparse |-> sparse, graph |-> graph,
                      asked |-> [merge |-> m, rrfK |-> k], fusing |-> fusing]
      /\ index' = IF sparse \in {Binding!Nothing, gateway.sparse} \/ refused THEN index
                  ELSE Binding!WithIndex(Binding!Key(sparse), "ru_be")
      /\ gateway' = gateway /\ resources' = resources /\ loading' = loading
  BY <1>1, <1>2, <1>3, <1>4, <1>5 DEF Binding!BindRun
<1>7. IndicesInv'
  <2>1. CASE index' = index
    BY <1>6, <2>1, IndicesStay DEF BindingInv
  <2>2. CASE index' = Binding!WithIndex(Binding!Key(sparse), "ru_be")
    BY <1>6, <2>2, MadeKeeps DEF BindingInv
  <2>3. QED
    BY <1>6, <2>1, <2>2
<1>8. dense = Binding!Stub \/ dense = Binding!ChatLeaf("qdrant", c, r)
  BY <1>1, BoundIsTheirs, StubsStay DEF BindingInv
<1>9. gateway.dense # Binding!Stub => dense = Binding!ChatLeaf("qdrant", c, r)
  BY <1>1, BoundIsTheirs DEF BindingInv
<1>10. sparse = Binding!Nothing \/ sparse = Binding!ChatLeaf("opensearch", c, r)
  BY <1>2, BoundIsTheirs, StubsStay DEF BindingInv
<1>11. gateway.sparse # Binding!Nothing => sparse = Binding!ChatSparse(p, c, r)
  BY <1>2, BoundIsTheirs DEF BindingInv, Binding!IsHybrid, Binding!ChatSparse
<1>12. graph \in {Binding!Stub, Binding!Nothing} \/ graph = Binding!ChatGraph("graph", r)
  BY <1>3 DEF BindingInv, Binding!GraphOf, Binding!ChatGraph, Binding!HostOf, EnvLeaf
<1>13. gateway.graph # Binding!Stub => graph = Binding!ChatGraph(p, r)
  BY <1>3 DEF BindingInv, Binding!GraphOf, Binding!ChatGraph, Binding!HostOf, EnvLeaf
<1>14. /\ fusing # Binding!NoFusing /\ m \in {"rrf", "weighted", "unset"} =>
            fusing.rrfK = k /\ (m # "unset" => fusing.merge = m)
  BY <1>5 DEF Binding!Fusing, Binding!Unset
<1>15. CASE refused
  <2>1. run'.pc = "refused"
    BY <1>6, <1>15
  <2>2. QED
    BY <1>6, <1>7, <2>1 DEF BindingInv, Binding!RunReadsItsRealm, Binding!RunFusesAsAsked,
                            Binding!ChatReadsWhatARunReads
<1>16. CASE ~refused
  <2>1. /\ run'.pc = "bound" /\ run'.corpus = c /\ run'.realm = r /\ run'.pipeline = p
        /\ run'.dense = dense /\ run'.sparse = sparse /\ run'.graph = graph
        /\ run'.asked.merge = m /\ run'.asked.rrfK = k /\ run'.fusing = fusing
    BY <1>6, <1>16
  <2>2. Binding!HostOf(r, "qdrant")' = Binding!HostOf(r, "qdrant")
        /\ Binding!HostOf(r, "opensearch")' = Binding!HostOf(r, "opensearch")
        /\ Binding!HostOf(r, "neo4j")' = Binding!HostOf(r, "neo4j")
    BY <1>6 DEF Binding!HostOf, Binding!Instance
  <2>3. Binding!RunReadsItsRealm'
    BY <1>8, <1>10, <1>12, <2>1, <2>2 DEF Binding!RunReadsItsRealm, Binding!ChatLeaf,
         Binding!ChatGraph, Binding!Leaf
  <2>4. Binding!RunFusesAsAsked'
    BY <1>14, <2>1 DEF Binding!RunFusesAsAsked, Binding!Unset
  <2>5. Binding!ChatReadsWhatARunReads'
    BY <1>6, <1>9, <1>11, <1>13, <2>1, <2>2 DEF Binding!ChatReadsWhatARunReads, Binding!ChatLeaf,
         Binding!ChatSparse, Binding!ChatGraph
  <2>6. QED
    BY <1>6, <1>7, <2>1, <2>3, <2>4, <2>5 DEF BindingInv
<1>17. QED
  BY <1>15, <1>16

LEMMA StartKeeps == ASSUME BindingInv, NEW up, NEW read, Binding!Start(up, read) PROVE BindingInv'
<1>1. PICK sparse : sparse = ("opensearch" \in up
                              /\ Binding!Ensured(Binding!Key(EnvLeaf("opensearch")), "ru_be", read))
  OBVIOUS
<1>2. /\ ~gateway.on
      /\ gateway' = [on |-> TRUE,
                     dense |-> IF "qdrant" \in up THEN EnvLeaf("qdrant") ELSE Binding!Stub,
                     sparse |-> IF sparse THEN EnvLeaf("opensearch") ELSE Binding!Nothing,
                     graph |-> IF "neo4j" \in up THEN EnvLeaf("neo4j") ELSE Binding!Stub]
      /\ index' = IF sparse THEN Binding!WithIndex(Binding!Key(EnvLeaf("opensearch")), "ru_be")
                  ELSE index
      /\ run' = run /\ loading' = loading
  BY <1>1 DEF Binding!Start, EnvLeaf
<1>3. run'.pc = "none"
  BY <1>2 DEF BindingInv
<1>4. IndicesInv'
  <2>1. CASE index' = index
    BY <1>2, <2>1, IndicesStay DEF BindingInv
  <2>2. CASE index' = Binding!WithIndex(Binding!Key(EnvLeaf("opensearch")), "ru_be")
    BY <1>2, <2>2, MadeKeeps DEF BindingInv
  <2>3. QED
    BY <1>2, <2>1, <2>2
<1>5. PICK d, s, g : /\ gateway' = [on |-> TRUE, dense |-> d, sparse |-> s, graph |-> g]
                     /\ d \in {Binding!Stub, EnvLeaf("qdrant")}
                     /\ s \in {Binding!Nothing, EnvLeaf("opensearch")}
                     /\ g \in {Binding!Stub, EnvLeaf("neo4j")}
  BY <1>2
<1>6. QED
  BY <1>3, <1>4, <1>5 DEF BindingInv, Binding!RunReadsItsRealm, Binding!RunFusesAsAsked,
       Binding!ChatReadsWhatARunReads, EnvLeaf, Binding!Leaf

LEMMA BindingStepKeeps == ASSUME BindingInv, Binding!Next PROVE BindingInv'
<1>1. ASSUME gateway' = gateway \/ gateway' = Binding!Off, IndicesInv', run' = Binding!NoRun
      PROVE  BindingInv'
  BY <1>1, NoRunKeeps
<1>2. ASSUME gateway' = gateway \/ gateway' = Binding!Off, UNCHANGED <<index, loading>>,
             run' = Binding!NoRun
      PROVE  BindingInv'
  BY <1>1, <1>2, IndicesStay DEF BindingInv
<1>3. CASE Binding!Forget
  BY <1>2, <1>3 DEF Binding!Forget
<1>4. CASE run = Binding!NoRun /\ Binding!Step
  <2>1. ASSUME NEW up, NEW read, Binding!Start(up, read) PROVE BindingInv'
    BY <2>1, StartKeeps
  <2>2. CASE Binding!Stop
    BY <1>2, <1>4, <2>2 DEF Binding!Stop
  <2>3. ASSUME NEW r, NEW s, NEW h, Binding!EditResource(r, s, h) PROVE BindingInv'
    BY <1>2, <1>4, <2>3 DEF Binding!EditResource
  <2>4. ASSUME NEW u, Binding!Rotate(u) PROVE BindingInv'
    BY <1>2, <1>4, <2>4 DEF Binding!Rotate
  <2>5. ASSUME NEW c, NEW r, NEW l \in Languages, NEW read \in BOOLEAN,
               Binding!StartIngest(c, r, l, read)
        PROVE  BindingInv'
    <3>1. IndicesInv'
      BY <2>5, StartIngestKeeps DEF BindingInv
    <3>2. QED
      BY <1>1, <1>4, <2>5, <3>1 DEF Binding!StartIngest
  <2>6. CASE Binding!EndIngest
    <3>1. IndicesInv'
      BY <2>6, EndIngestKeeps DEF BindingInv
    <3>2. QED
      BY <1>1, <1>4, <2>6, <3>1 DEF Binding!EndIngest
  <2>7. ASSUME NEW c, NEW r, NEW l \in Languages, NEW replace \in BOOLEAN,
               Binding!LoadDump(c, r, l, replace)
        PROVE  BindingInv'
    <3>1. IndicesInv'
      BY <2>7, DumpKeeps DEF BindingInv
    <3>2. QED
      BY <1>1, <1>4, <2>7, <3>1 DEF Binding!LoadDump
  <2>8. ASSUME NEW c, NEW r, Binding!Drop(c, r) PROVE BindingInv'
    <3>1. IndicesInv'
      BY <2>8, DropKeeps DEF BindingInv
    <3>2. QED
      BY <1>1, <1>4, <2>8, <3>1 DEF Binding!Drop
  <2>9. ASSUME NEW p, NEW c, NEW r, NEW m, NEW k, NEW read, Binding!BindRun(p, c, r, m, k, read)
        PROVE  BindingInv'
    BY <2>9, BindRunKeeps
  <2>10. QED
    BY <1>4, <2>1, <2>2, <2>3, <2>4, <2>5, <2>6, <2>7, <2>8, <2>9 DEF Binding!Step
<1>5. QED
  BY <1>3, <1>4 DEF Binding!Next

LEMMA BindingAlways == Spec => [](part = "binding" => BindingInv)
<1>1. Init => (part = "binding" => BindingInv)
  BY BindingInit DEF Init
<1>2. (part = "binding" => BindingInv) /\ [Next]_vars => (part = "binding" => BindingInv)'
  <2> SUFFICES ASSUME part = "binding" => BindingInv, [Next]_vars, part' = "binding"
               PROVE  BindingInv'
    OBVIOUS
  <2>1. CASE BindingStep
    BY <2>1, BindingStepKeeps DEF BindingStep
  <2>2. CASE UNCHANGED vars
    BY <2>2, IndicesStay DEF vars, bindingVars, BindingInv, Binding!RunReadsItsRealm,
                Binding!RunFusesAsAsked, Binding!ChatReadsWhatARunReads, Binding!HostOf,
                Binding!Instance, EnvLeaf, Binding!ChatLeaf, Binding!ChatSparse, Binding!ChatGraph
  <2>3. QED
    BY <2>1, <2>2 DEF Next, HybridStep, QueryStep, ChatStep, HttpStep, GraphStep, PortsStep
<1>3. QED
  BY <1>1, <1>2, PTL DEF Spec

----------------------------------------------------------------------------
(* The graph of fragments *)

Askers == GraphRealms \cup {Nil}

GraphInv ==
    /\ DOMAIN node = Graph!Instances
    /\ DOMAIN community = Graph!Instances
    /\ \A i \in Graph!Instances : DOMAIN community[i] = Graph!EdgeTypes
    /\ DOMAIN groups = Askers
    /\ \A r \in Askers : DOMAIN groups[r] = Graph!EdgeTypes
    /\ \A i \in GraphOwn : \A c \in Graph!Present(i) : node[i][c].owner = i
    /\ \A r \in GraphRealms \ GraphOwn : \A t \in Graph!EdgeTypes : groups[r][t] = {}
    /\ \A r \in Askers : \A t \in Graph!EdgeTypes :
          \A g \in groups[r][t] : g.nodes \subseteq Graph!Present(Graph!Instance(r))
    /\ Graph!DrillDownMatches

\* An instance of a realm's own is that realm's alone.
LEMMA InstanceIs ==
  /\ GraphOwn \subseteq GraphRealms /\ Nil \notin GraphRealms
  /\ \A r : Graph!Instance(r) \in Graph!Instances
  /\ \A r \in Askers, i \in GraphOwn : Graph!Instance(r) = i => r = i
  /\ \A r \in GraphOwn : Graph!Instance(r) = r
BY GraphAssumption DEF Graph!Assumptions, Graph!Instance, Graph!Instances, Graph!Shared, Askers

LEMMA GraphInit == Graph!Init => GraphInv
<1> SUFFICES ASSUME Graph!Init PROVE GraphInv
  OBVIOUS
<1>1. /\ \A i \in Graph!Instances : node[i] = Graph!Empty
      /\ \A r \in Askers : groups[r] = [t \in Graph!EdgeTypes |-> {}]
      /\ DOMAIN node = Graph!Instances /\ DOMAIN groups = Askers
  BY DEF Graph!Init, Askers
<1>2. /\ DOMAIN community = Graph!Instances
      /\ \A i \in Graph!Instances : DOMAIN community[i] = Graph!EdgeTypes
  BY DEF Graph!Init
<1>3. \A i \in GraphOwn : Graph!Present(i) = {}
  <2>1. GraphOwn \subseteq Graph!Instances
    BY DEF Graph!Instances
  <2>2. QED
    BY <1>1, <2>1 DEF Graph!Present, Graph!Empty, Graph!Nobody
<1>4. \A r \in Askers : \A t \in Graph!EdgeTypes : groups[r][t] = {}
  BY <1>1
<1>5. GraphRealms \ GraphOwn \subseteq Askers
  BY DEF Askers
<1>6. QED
  BY <1>1, <1>2, <1>3, <1>4, <1>5 DEF GraphInv, Graph!DrillDownMatches, Askers

\* What an instance holds after a load of it hides every answer about it, and touches no other.
LEMMA LoadKeeps ==
  ASSUME GraphInv, NEW r \in Askers, NEW i, i = Graph!Instance(r), NEW nodes,
         node' = [node EXCEPT ![i] = nodes],
         \A c \in GraphChunks : i \in GraphOwn /\ nodes[c].present => nodes[c].owner = i,
         groups' = Graph!Hidden(i),
         \/ community' = community
         \/ \E none : /\ DOMAIN none = Graph!EdgeTypes
                      /\ community' = [community EXCEPT ![i] = none]
  PROVE  GraphInv'
<1>1. i \in Graph!Instances
  BY InstanceIs
<1>2. /\ DOMAIN node' = Graph!Instances /\ DOMAIN community' = Graph!Instances
      /\ \A j \in Graph!Instances : DOMAIN community'[j] = Graph!EdgeTypes
  BY DEF GraphInv
<1>3. /\ node'[i] = nodes
      /\ \A j \in Graph!Instances : j # i => node'[j] = node[j] /\ community'[j] = community[j]
  BY <1>1 DEF GraphInv
<1>4. /\ DOMAIN groups' = Askers
      /\ \A q \in Askers : IF Graph!Instance(q) = i
                           THEN groups'[q] = [t \in Graph!EdgeTypes |-> {}]
                           ELSE groups'[q] = groups[q]
  BY DEF Graph!Hidden, Askers
<1>5. \A q \in Askers : DOMAIN groups'[q] = Graph!EdgeTypes
  BY <1>4 DEF GraphInv
<1>6. \A j \in Graph!Instances : j # i => Graph!Present(j)' = Graph!Present(j)
  BY <1>3 DEF Graph!Present
<1>7. \A j \in GraphOwn : \A c \in Graph!Present(j)' : node'[j][c].owner = j
  <2> SUFFICES ASSUME NEW j \in GraphOwn, NEW c \in Graph!Present(j)' PROVE node'[j][c].owner = j
    OBVIOUS
  <2>1. j \in Graph!Instances
    BY DEF Graph!Instances
  <2>2. CASE j = i
    BY <1>3, <2>2 DEF Graph!Present
  <2>3. CASE j # i
    BY <1>3, <1>6, <2>1, <2>3 DEF GraphInv
  <2>4. QED
    BY <2>2, <2>3
<1>8. \A q \in GraphRealms \ GraphOwn : \A t \in Graph!EdgeTypes : groups'[q][t] = {}
  BY <1>4 DEF GraphInv, Askers
<1>9. \A q \in Askers : \A t \in Graph!EdgeTypes : \A g \in groups'[q][t] :
         /\ g.nodes \subseteq Graph!Present(Graph!Instance(q))'
         /\ Graph!Members(q, t, g.id)' = g.nodes
  <2> SUFFICES ASSUME NEW q \in Askers, NEW t \in Graph!EdgeTypes, NEW g \in groups'[q][t]
               PROVE  /\ g.nodes \subseteq Graph!Present(Graph!Instance(q))'
                      /\ Graph!Members(q, t, g.id)' = g.nodes
    OBVIOUS
  <2>1. PICK j : j = Graph!Instance(q)
    OBVIOUS
  <2>2. j # i /\ g \in groups[q][t] /\ j \in Graph!Instances
    BY <1>4, <2>1, InstanceIs
  <2>3. g.nodes \subseteq Graph!Present(j) /\ Graph!Members(q, t, g.id) = g.nodes
    BY <2>1, <2>2 DEF GraphInv, Graph!DrillDownMatches, Askers
  <2>4. Graph!Present(j)' = Graph!Present(j) /\ community'[j] = community[j]
    BY <1>3, <1>6, <2>2
  <2>5. QED
    BY <2>1, <2>3, <2>4 DEF Graph!Members
<1>10. QED
  BY <1>2, <1>4, <1>5, <1>7, <1>8, <1>9 DEF GraphInv, Graph!DrillDownMatches, Askers

\* A load of a realm brings fragments of that realm.
LEMMA AddedIsOwned ==
  ASSUME GraphInv, NEW r \in Askers, NEW i, i = Graph!Instance(r), NEW batch,
         NEW old \in {node[i], Graph!Empty}
  PROVE  \A c \in GraphChunks : i \in GraphOwn /\ Graph!Added(old, r, batch)[c].present
             => Graph!Added(old, r, batch)[c].owner = i
<1> SUFFICES ASSUME NEW c \in GraphChunks, i \in GraphOwn, Graph!Added(old, r, batch)[c].present
             PROVE  Graph!Added(old, r, batch)[c].owner = i
  OBVIOUS
<1>1. r = i
  BY InstanceIs
<1>2. CASE c \in DOMAIN batch
  BY <1>1, <1>2 DEF Graph!Added
<1>3. CASE c \notin DOMAIN batch
  <2>1. Graph!Added(old, r, batch)[c] = old[c]
    BY <1>3 DEF Graph!Added
  <2>2. CASE old = node[i]
    BY <2>1, <2>2 DEF GraphInv, Graph!Present
  <2>3. CASE old = Graph!Empty
    BY <2>1, <2>3 DEF Graph!Empty, Graph!Nobody
  <2>4. QED
    BY <2>2, <2>3
<1>4. QED
  BY <1>2, <1>3

LEMMA ImportKeeps ==
  ASSUME GraphInv, NEW r \in Askers, NEW batch, NEW replace, Graph!ImportChunks(r, batch, replace)
  PROVE  GraphInv'
<1>1. PICK i : i = Graph!Instance(r)
  OBVIOUS
<1>2. PICK old : old = IF replace THEN Graph!Empty ELSE node[i]
  OBVIOUS
<1>3. PICK nodes : nodes = Graph!Added(old, r, batch)
  OBVIOUS
<1>4. i \in Graph!Instances
  BY <1>1, InstanceIs
<1>5. node' = [node EXCEPT ![i] = nodes]
  BY <1>1, <1>2, <1>3, <1>4 DEF Graph!ImportChunks, GraphInv
<1>6. groups' = Graph!Hidden(i)
  BY <1>1 DEF Graph!ImportChunks
<1>7. \/ community' = community
      \/ \E none : /\ DOMAIN none = Graph!EdgeTypes
                   /\ community' = [community EXCEPT ![i] = none]
  BY <1>1 DEF Graph!ImportChunks
<1>8. \A c \in GraphChunks : i \in GraphOwn /\ nodes[c].present => nodes[c].owner = i
  BY <1>1, <1>2, <1>3, AddedIsOwned
<1>9. QED
  BY <1>1, <1>5, <1>6, <1>7, <1>8, LoadKeeps

LEMMA IngestFilesKeeps ==
  ASSUME GraphInv, NEW r \in Askers, NEW batch, Graph!IngestFiles(r, batch) PROVE GraphInv'
<1>1. PICK i : i = Graph!Instance(r)
  OBVIOUS
<1>2. PICK nodes : nodes = Graph!Added(node[i], r, batch)
  OBVIOUS
<1>3. node' = [node EXCEPT ![i] = nodes] /\ groups' = Graph!Hidden(i) /\ community' = community
  BY <1>1, <1>2 DEF Graph!IngestFiles
<1>4. \A c \in GraphChunks : i \in GraphOwn /\ nodes[c].present => nodes[c].owner = i
  BY <1>1, <1>2, AddedIsOwned
<1>5. QED
  BY <1>1, <1>3, <1>4, LoadKeeps

\* The groups of a clustering are its members that are there.
LEMMA GroupsAreMembers ==
  ASSUME NEW i, NEW t, NEW clustering \in Graph!Clusterings(i, t), NEW g \in Graph!Groups(clustering)
  PROVE  /\ g.nodes \subseteq Graph!Present(i)
         /\ {c \in Graph!Present(i) : clustering[c] = g.id} = g.nodes
<1>1. PICK n \in Graph!Numbers(clustering) :
         g = [id |-> n, nodes |-> {c \in GraphChunks : clustering[c] = n}]
  BY DEF Graph!Groups
<1>2. n # 0
  BY DEF Graph!Numbers
<1>3. \A c \in GraphChunks : clustering[c] = 0 <=> c \notin Graph!Present(i)
  BY DEF Graph!Clusterings
<1>4. Graph!Present(i) \subseteq GraphChunks
  BY DEF Graph!Present
<1>5. QED
  BY <1>1, <1>2, <1>3, <1>4

LEMMA DetectKeeps ==
  ASSUME GraphInv, NEW r \in Askers, NEW t \in Graph!EdgeTypes, Graph!Detect(r, t) PROVE GraphInv'
<1>1. PICK i : i = Graph!Instance(r)
  OBVIOUS
<1>2. i \in Graph!Instances /\ node' = node
  BY <1>1, InstanceIs DEF Graph!Detect
<1>3. \A j : Graph!Present(j)' = Graph!Present(j)
  BY <1>2 DEF Graph!Present
<1>4. CASE Graph!NotScoped(r) \/ edges[i][t] = {}
  <2>1. groups' = [groups EXCEPT ![r][t] = {}] /\ community' = community
    BY <1>1, <1>4 DEF Graph!Detect
  <2>2. /\ DOMAIN groups' = Askers
        /\ \A q \in Askers : DOMAIN groups'[q] = Graph!EdgeTypes
        /\ \A q \in Askers : \A u \in Graph!EdgeTypes : groups'[q][u] \in {{}, groups[q][u]}
    BY <2>1 DEF GraphInv
  <2>3. \A q \in Askers : \A u \in Graph!EdgeTypes : \A g \in groups'[q][u] : g \in groups[q][u]
    BY <2>2
  <2>4. \A q, u, n : Graph!Members(q, u, n)' = Graph!Members(q, u, n)
    BY <1>3, <2>1 DEF Graph!Members
  <2>5. \A q \in GraphRealms \ GraphOwn : \A u \in Graph!EdgeTypes : groups'[q][u] = {}
    <3>1. GraphRealms \ GraphOwn \subseteq Askers
      BY DEF Askers
    <3>2. QED
      BY <2>2, <3>1 DEF GraphInv
  <2>6. QED
    BY <1>2, <1>3, <2>1, <2>2, <2>3, <2>4, <2>5 DEF GraphInv, Graph!DrillDownMatches, Askers
<1>5. CASE ~(Graph!NotScoped(r) \/ edges[i][t] = {})
  <2>1. PICK clustering \in Graph!Clusterings(i, t) :
          /\ community' = [community EXCEPT ![i][t] = clustering]
          /\ groups' = [q \in DOMAIN groups |->
                           IF q = r THEN [groups[q] EXCEPT ![t] = Graph!Groups(clustering)]
                           ELSE IF Graph!Instance(q) = i THEN [groups[q] EXCEPT ![t] = {}]
                           ELSE groups[q]]
    BY <1>1, <1>5 DEF Graph!Detect, Graph!WriteCommunity
  <2>2. /\ DOMAIN groups' = Askers
        /\ \A q \in Askers : DOMAIN groups'[q] = Graph!EdgeTypes
    BY <2>1 DEF GraphInv
  <2>3. \A q \in Askers : \A u \in Graph!EdgeTypes :
           \/ q = r /\ u = t /\ groups'[q][u] = Graph!Groups(clustering)
           \/ groups'[q][u] = {}
           \/ (Graph!Instance(q) # i \/ u # t) /\ groups'[q][u] = groups[q][u]
    BY <1>1, <2>1 DEF GraphInv
  <2>4. /\ DOMAIN community' = Graph!Instances
        /\ \A j \in Graph!Instances : DOMAIN community'[j] = Graph!EdgeTypes
        /\ community'[i][t] = clustering
        /\ \A j \in Graph!Instances, u \in Graph!EdgeTypes :
              j # i \/ u # t => community'[j][u] = community[j][u]
    BY <1>2, <2>1 DEF GraphInv
  <2>5. ASSUME NEW q \in Askers, NEW u \in Graph!EdgeTypes, NEW g \in groups'[q][u]
        PROVE  /\ g.nodes \subseteq Graph!Present(Graph!Instance(q))
               /\ Graph!Members(q, u, g.id)' = g.nodes
    <3>1. CASE q = r /\ u = t /\ g \in Graph!Groups(clustering)
      <4>1. Graph!Members(q, u, g.id)' = {c \in Graph!Present(i) : clustering[c] = g.id}
        BY <1>1, <1>3, <2>4, <3>1 DEF Graph!Members
      <4>2. QED
        BY <1>1, <3>1, <4>1, GroupsAreMembers
    <3>2. CASE (Graph!Instance(q) # i \/ u # t) /\ g \in groups[q][u]
      <4>1. PICK j \in Graph!Instances : j = Graph!Instance(q)
        BY InstanceIs
      <4>2. g.nodes \subseteq Graph!Present(j) /\ Graph!Members(q, u, g.id) = g.nodes
        BY <3>2, <4>1 DEF GraphInv, Graph!DrillDownMatches, Askers
      <4>3. community'[j][u] = community[j][u]
        BY <2>4, <3>2, <4>1
      <4>4. QED
        BY <1>3, <4>1, <4>2, <4>3 DEF Graph!Members
    <3>3. QED
      BY <2>3, <2>5, <3>1, <3>2
  <2>6. \A q \in GraphRealms \ GraphOwn : \A u \in Graph!EdgeTypes : groups'[q][u] = {}
    <3>1. r \notin GraphRealms \ GraphOwn
      BY <1>5, InstanceIs DEF Graph!NotScoped
    <3>2. GraphRealms \ GraphOwn \subseteq Askers
      BY DEF Askers
    <3>3. QED
      BY <2>3, <3>1, <3>2 DEF GraphInv
  <2>7. \A j \in GraphOwn : \A c \in Graph!Present(j)' : node'[j][c].owner = j
    BY <1>2, <1>3 DEF GraphInv
  <2>8. QED
    BY <1>2, <1>3, <2>2, <2>4, <2>5, <2>6, <2>7 DEF GraphInv, Graph!DrillDownMatches, Askers
<1>6. QED
  BY <1>4, <1>5

LEMMA GraphStepKeeps == ASSUME GraphInv, Graph!Next PROVE GraphInv'
<1>1. ASSUME UNCHANGED <<node, community, groups>> PROVE GraphInv'
  BY <1>1 DEF GraphInv, Graph!Present, Graph!DrillDownMatches, Graph!Members
<1>2. ASSUME NEW r, NEW t, NEW n, Graph!Detail(r, t, n) PROVE GraphInv'
  BY <1>1, <1>2 DEF Graph!Detail
<1>3. QED
  BY <1>2, ImportKeeps, IngestFilesKeeps, DetectKeeps DEF Graph!Next, Askers

LEMMA GraphAlways == Spec => [](part = "graph" => GraphInv)
<1>1. Init => (part = "graph" => GraphInv)
  BY GraphInit DEF Init
<1>2. (part = "graph" => GraphInv) /\ [Next]_vars => (part = "graph" => GraphInv)'
  <2> SUFFICES ASSUME part = "graph" => GraphInv, [Next]_vars, part' = "graph" PROVE GraphInv'
    OBVIOUS
  <2>1. CASE GraphStep
    BY <2>1, GraphStepKeeps DEF GraphStep
  <2>2. CASE UNCHANGED vars
    BY <2>2 DEF vars, graphVars, GraphInv, Graph!Present, Graph!DrillDownMatches, Graph!Members
  <2>3. QED
    BY <2>1, <2>2 DEF Next, HybridStep, BindingStep, QueryStep, ChatStep, HttpStep, PortsStep
<1>3. QED
  BY <1>1, <1>2, PTL DEF Spec

\* A realm is shown fragments of its own alone.
LEMMA ShownIsOwned == GraphInv => Graph!CommunitiesAreOfTheRealm
<1> SUFFICES ASSUME GraphInv, NEW r \in GraphRealms, NEW t \in Graph!EdgeTypes,
                    NEW g \in groups[r][t], NEW c \in g.nodes
             PROVE  node[Graph!Instance(r)][c].owner = r
  BY DEF Graph!CommunitiesAreOfTheRealm
<1>1. r \in GraphOwn
  BY DEF GraphInv
<1>2. QED
  BY <1>1, InstanceIs DEF GraphInv, Askers

----------------------------------------------------------------------------
(* The generator of graph stores *)

Service == [realm : PortRealms, port : Ports]

Local == [pc : {"idle", "scan", "assign", "health", "start"}, realm : PortRealms \cup {-1},
          seen : Seq(PortRealms), withGraph : SUBSET PortRealms,
          uris : {<<>>} \cup [PortRealms -> Ports \cup {0}], todo : Seq(PortRealms),
          claimed : SUBSET Ports, from : Nat, services : SUBSET Service,
          info : {"none", "already_migrated", "graph_data_in_default_store", "provisioned"}]

\* What one request knows while the generator runs: it has no port to give to the first realm,
\* and what it gave away is neither free to it nor anybody's.
GeneratorKnows(l) ==
    /\ l.pc = "assign" =>
          /\ registry # <<>> /\ l.seen # <<>>
          /\ \A i \in DOMAIN l.todo : l.todo[i] # Head(registry)
          /\ l.uris \in [PortRealms -> Ports \cup {0}]
          /\ \A i \in DOMAIN Tail(l.seen) : l.uris[Tail(l.seen)[i]] \in l.claimed \cup {0}
          /\ \A s \in l.services : \A i \in DOMAIN Tail(l.seen) : l.uris[Tail(l.seen)[i]] # s.port
    /\ l.pc = "scan" => registry # <<>> /\ l.services = {}
    /\ \A s \in l.services : s.port \in l.claimed
    /\ \A s, t \in l.services : s.port = t.port => s.realm = t.realm

PortsInv ==
    /\ registry \in Seq(PortRealms)
    /\ \A i, j \in DOMAIN registry : registry[i] = registry[j] => i = j
    /\ uri \in [PortRealms -> Ports \cup {0}]
    /\ handler \in [Handlers -> Local]
    /\ \A h \in Handlers : GeneratorKnows(handler[h])
    /\ registry # <<>> => uri[Head(registry)] = 0
    /\ registry = <<>> => \A r \in PortRealms : uri[r] = 0

LEMMA PortsGiven ==
  Ports \subseteq Nat \ {0} /\ Provisioning!Default = 0 /\ Provisioning!None = -1
<1>1. Ports = 1..Provisioning!Cardinality(Ports)
  BY PortsAssumption DEF PortsAssumption, Provisioning!Assumptions
<1>2. PICK n : Ports = 1..n
  BY <1>1
<1>3. QED
  BY <1>2 DEF Provisioning!Default, Provisioning!None

LEMMA NextPortIsAhead ==
  ASSUME NEW l, Provisioning!Ahead(l) # {} PROVE Provisioning!NextPort(l) \in Provisioning!Ahead(l)
<1>1. PICK S : S = Provisioning!Ahead(l)
  OBVIOUS
<1>2. S \in SUBSET Nat /\ S # {}
  BY <1>1, PortsGiven DEF Provisioning!Ahead
<1>3. \E m \in S : \A k \in S : m <= k
  BY <1>2, LeastNumberOf
<1>4. QED
  BY <1>1, <1>3 DEF Provisioning!NextPort, Provisioning!Min

LEMMA IdleIsLocal == Provisioning!Idle \in Local /\ GeneratorKnows(Provisioning!Idle)
BY DEF Provisioning!Idle, Local, GeneratorKnows, Provisioning!None

LEMMA PortsInit == Provisioning!Init => PortsInv
<1> SUFFICES ASSUME Provisioning!Init PROVE PortsInv
  OBVIOUS
<1>1. /\ registry = <<>> /\ uri = [r \in PortRealms |-> 0]
      /\ handler = [h \in Handlers |-> Provisioning!Idle]
  BY PortsGiven DEF Provisioning!Init
<1>2. handler \in [Handlers -> Local] /\ \A h \in Handlers : GeneratorKnows(handler[h])
  BY <1>1, IdleIsLocal
<1>3. QED
  BY <1>1, <1>2 DEF PortsInv

\* One request moves and leaves the registry alone.
LEMMA RequestMoves ==
  ASSUME PortsInv, NEW h \in Handlers, NEW l \in Local, handler' = [handler EXCEPT ![h] = l],
         GeneratorKnows(l), registry' = registry, uri' \in [PortRealms -> Ports \cup {0}],
         uri' = uri \/ (registry # <<>> /\ uri'[Head(registry)] = 0)
  PROVE  PortsInv'
<1>1. handler' \in [Handlers -> Local]
  BY DEF PortsInv
<1>2. \A g \in Handlers : GeneratorKnows(handler'[g])
  BY DEF PortsInv
<1>3. \A g \in Handlers : GeneratorKnows(handler[g])'
  BY SMTT(30), <1>2 DEF GeneratorKnows
<1>4. QED
  BY <1>1, <1>3 DEF PortsInv

LEMMA PostKeepsPorts ==
  ASSUME PortsInv, NEW h \in Handlers, NEW r \in PortRealms, Provisioning!Post(h, r)
  PROVE  PortsInv'
<1>1. PICK l : l = [Provisioning!Idle EXCEPT !.pc = "scan", !.realm = r]
  OBVIOUS
<1>2. l \in Local /\ l.pc = "scan" /\ l.services = {}
  BY <1>1, IdleIsLocal DEF Provisioning!Idle, Local
<1>3. PICK i \in DOMAIN registry : registry[i] = r
  BY DEF Provisioning!Post, Provisioning!Range
<1>4. GeneratorKnows(l)
  BY <1>2, <1>3 DEF GeneratorKnows, PortsInv
<1>5. handler' = [handler EXCEPT ![h] = l] /\ registry' = registry /\ uri' = uri
  BY <1>1 DEF Provisioning!Post
<1>6. uri' \in [PortRealms -> Ports \cup {0}]
  BY <1>5 DEF PortsInv
<1>7. QED
  BY <1>2, <1>4, <1>5, <1>6, RequestMoves

LEMMA ScanKeeps ==
  ASSUME PortsInv, NEW h \in Handlers, Provisioning!Scan(h) PROVE PortsInv'
<1> DEFINE l == handler[h]
<1>1. /\ l \in Local /\ l.pc = "scan" /\ registry # <<>> /\ l.services = {}
      /\ registry' = registry /\ uri' = uri
  BY DEF Provisioning!Scan, PortsInv, GeneratorKnows
<1>2. PICK taken : taken = Provisioning!Claimed(Provisioning!Range(Tail(registry)), uri)
  OBVIOUS
<1>3. PICK graphs \in SUBSET PortRealms :
        handler' = [handler EXCEPT ![h] =
          [l EXCEPT !.pc = "assign", !.seen = registry, !.todo = Tail(registry), !.uris = uri,
                    !.withGraph = graphs, !.claimed = taken]]
  BY <1>2 DEF Provisioning!Scan, Provisioning!Others
<1>4. PICK rest : rest = Tail(registry)
  OBVIOUS
<1>5. /\ rest \in Seq(PortRealms)
      /\ \A i \in DOMAIN rest : i + 1 \in DOMAIN registry /\ i + 1 # 1 /\ rest[i] = registry[i + 1]
      /\ 1 \in DOMAIN registry /\ Head(registry) = registry[1]
  BY <1>1, <1>4 DEF PortsInv
<1>6. \A i \in DOMAIN rest : rest[i] # Head(registry)
  BY <1>5 DEF PortsInv
<1>7. /\ \A i \in DOMAIN rest : rest[i] \in PortRealms /\ uri[rest[i]] \in Ports \cup {0}
      /\ taken = {uri[r] : r \in {rest[i] : i \in DOMAIN rest}} \ {0}
  BY <1>2, <1>4, <1>5, PortsGiven DEF PortsInv, Provisioning!Claimed, Provisioning!Range
<1>8. taken \in SUBSET Ports /\ \A i \in DOMAIN rest : uri[rest[i]] \in taken \cup {0}
  BY <1>7
<1>9. PICK new : new = [l EXCEPT !.pc = "assign", !.seen = registry, !.todo = rest, !.uris = uri,
                                 !.withGraph = graphs, !.claimed = taken]
  OBVIOUS
<1>10. new \in Local
  <2>1. uri \in [PortRealms -> Ports \cup {0}] /\ registry \in Seq(PortRealms)
    BY DEF PortsInv
  <2>2. QED
    BY <1>1, <1>5, <1>8, <1>9, <2>1 DEF Local
<1>11. /\ new.pc = "assign" /\ new.seen = registry /\ new.todo = rest /\ new.uris = uri
       /\ new.claimed = taken /\ new.services = {}
  BY <1>1, <1>9 DEF Local
<1>12. GeneratorKnows(new)
  BY <1>1, <1>4, <1>6, <1>8, <1>11 DEF GeneratorKnows, PortsInv
<1>13. handler' = [handler EXCEPT ![h] = new] /\ uri' \in [PortRealms -> Ports \cup {0}]
  BY <1>1, <1>3, <1>4, <1>9 DEF PortsInv
<1>14. QED
  BY <1>1, <1>10, <1>12, <1>13, RequestMoves

LEMMA AssignKeeps ==
  ASSUME PortsInv, NEW h \in Handlers, Provisioning!Assign(h) PROVE PortsInv'
<1> DEFINE l == handler[h]
           r == Head(l.todo)
<1>1. /\ l \in Local /\ GeneratorKnows(l) /\ l.pc = "assign" /\ l.todo # <<>>
      /\ registry' = registry /\ registry # <<>>
      /\ registry \in Seq(PortRealms) /\ uri \in [PortRealms -> Ports \cup {0}]
      /\ uri[Head(registry)] = 0
  BY DEF Provisioning!Assign, PortsInv, GeneratorKnows
<1>2. PICK rest : rest = Tail(l.todo)
  OBVIOUS
<1>3. /\ l.todo \in Seq(PortRealms) /\ rest \in Seq(PortRealms) /\ 1 \in DOMAIN l.todo
      /\ r = l.todo[1] /\ r \in PortRealms
      /\ \A i \in DOMAIN rest : i + 1 \in DOMAIN l.todo /\ rest[i] = l.todo[i + 1]
  <2>1. PICK q : q = l.todo
    OBVIOUS
  <2>2. q \in Seq(PortRealms) /\ q # <<>>
    BY <1>1, <2>1 DEF Local
  <2>3. /\ Tail(q) \in Seq(PortRealms) /\ 1 \in DOMAIN q /\ Head(q) = q[1] /\ q[1] \in PortRealms
        /\ \A i \in DOMAIN Tail(q) : i + 1 \in DOMAIN q /\ Tail(q)[i] = q[i + 1]
    BY <2>2
  <2>4. QED
    BY <1>2, <2>1, <2>2, <2>3
<1>4. r # Head(registry) /\ \A i \in DOMAIN rest : rest[i] # Head(registry)
  BY <1>1, <1>3 DEF GeneratorKnows
<1>5. \A kept : Provisioning!Says(l, r, kept) \in {l.info, kept}
  BY DEF Provisioning!Says
<1>6. CASE Provisioning!Kept(l, r) # "none"
  <2>1. PICK said : said = Provisioning!Says(l, r, Provisioning!Kept(l, r))
    OBVIOUS
  <2>2. said \in {"none", "already_migrated", "graph_data_in_default_store", "provisioned"}
    BY <1>1, <1>5, <1>6, <2>1 DEF Provisioning!Kept, Local
  <2>3. PICK new : new = [l EXCEPT !.todo = rest, !.info = said]
    OBVIOUS
  <2>4. new \in Local
    BY <1>1, <1>3, <2>2, <2>3 DEF Local
  <2>5. GeneratorKnows(new)
    <3>1. /\ new.pc = l.pc /\ new.seen = l.seen /\ new.uris = l.uris /\ new.claimed = l.claimed
          /\ new.services = l.services /\ new.todo = rest
      BY <1>1, <2>3 DEF Local
    <3>2. QED
      BY <1>1, <1>4, <3>1 DEF GeneratorKnows
  <2>6. handler' = [handler EXCEPT ![h] = new] /\ uri' = uri
    BY <1>2, <1>6, <2>1, <2>3 DEF Provisioning!Assign
  <2>7. QED
    BY <1>1, <2>4, <2>5, <2>6, RequestMoves
<1>7. CASE Provisioning!Kept(l, r) = "none"
  <2>1. PICK p : p = Provisioning!NextPort(l)
    OBVIOUS
  <2>2. PICK said : said = Provisioning!Says(l, r, "provisioned")
    OBVIOUS
  <2>3. Provisioning!Ahead(l) # {}
    BY <1>7 DEF Provisioning!Assign
  <2>4. p \in Ports /\ p \notin l.claimed /\ p \in Nat \ {0}
    BY <2>1, <2>3, NextPortIsAhead, PortsGiven DEF Provisioning!Ahead
  <2>5. said \in {"none", "already_migrated", "graph_data_in_default_store", "provisioned"}
    BY <1>1, <1>5, <2>2 DEF Local
  <2>6. PICK new : new = [l EXCEPT !.todo = rest, !.info = said, !.claimed = l.claimed \cup {p},
                                   !.from = p + 1,
                                   !.services = l.services \cup {[realm |-> r, port |-> p]}]
    OBVIOUS
  <2>7. [realm |-> r, port |-> p] \in Service
    BY <1>3, <2>4 DEF Service
  <2>8. new \in Local
    <3>1. PICK services, claimed, from :
            /\ services = l.services \cup {[realm |-> r, port |-> p]}
            /\ claimed = l.claimed \cup {p} /\ from = p + 1
      OBVIOUS
    <3>2. services \in SUBSET Service /\ claimed \in SUBSET Ports /\ from \in Nat
      BY <1>1, <2>4, <2>7, <3>1 DEF Local
    <3>3. new = [l EXCEPT !.todo = rest, !.info = said, !.claimed = claimed, !.from = from,
                          !.services = services]
      BY <2>6, <3>1
    <3>4. QED
      BY <1>1, <1>3, <2>5, <3>2, <3>3 DEF Local
  <2>9. GeneratorKnows(new)
    <3>1. /\ new.pc = l.pc /\ new.seen = l.seen /\ new.uris = l.uris /\ new.todo = rest
          /\ new.claimed = l.claimed \cup {p}
          /\ new.services = l.services \cup {[realm |-> r, port |-> p]}
      BY <1>1, <2>6 DEF Local
    <3>2. \A i \in DOMAIN Tail(l.seen) : l.uris[Tail(l.seen)[i]] # p
      BY <1>1, <2>4 DEF GeneratorKnows
    <3>3. \A s \in l.services : s.port # p
      BY <1>1, <2>4 DEF GeneratorKnows
    <3>4. \A s \in new.services : s \in l.services \/ (s.realm = r /\ s.port = p)
      BY <3>1
    <3>5. \A s, t \in new.services : s.port = t.port => s.realm = t.realm
      BY <1>1, <3>3, <3>4 DEF GeneratorKnows
    <3>6. \A s \in new.services : s.port \in new.claimed
      BY <1>1, <3>1, <3>4 DEF GeneratorKnows
    <3>7. \A i \in DOMAIN Tail(l.seen) : l.uris[Tail(l.seen)[i]] \in new.claimed \cup {0}
      BY <1>1, <3>1 DEF GeneratorKnows
    <3>8. \A s \in new.services : \A i \in DOMAIN Tail(l.seen) : l.uris[Tail(l.seen)[i]] # s.port
      BY <1>1, <3>2, <3>4 DEF GeneratorKnows
    <3>9. QED
      BY <1>1, <1>4, <3>1, <3>5, <3>6, <3>7, <3>8 DEF GeneratorKnows
  <2>10. /\ handler' = [handler EXCEPT ![h] = new]
         /\ uri' = [uri EXCEPT ![r] = p]
    BY <1>2, <1>7, <2>1, <2>2, <2>6 DEF Provisioning!Assign
  <2>11. uri' \in [PortRealms -> Ports \cup {0}] /\ uri'[Head(registry)] = 0
    BY <1>1, <1>3, <1>4, <2>4, <2>10
  <2>12. QED
    BY <1>1, <2>8, <2>9, <2>10, <2>11, RequestMoves
<1>8. QED
  BY <1>6, <1>7

\* A request that ends, or goes on to what comes after the generator.
LEMMA AfterwardsKeeps ==
  ASSUME PortsInv, NEW h \in Handlers, registry' = registry, uri' = uri,
         \/ handler' = [handler EXCEPT ![h] = Provisioning!Idle]
         \/ \E pc \in {"health", "start"} :
               handler' = [handler EXCEPT ![h] = [handler[h] EXCEPT !.pc = pc]]
  PROVE  PortsInv'
<1>1. uri' \in [PortRealms -> Ports \cup {0}]
  BY DEF PortsInv
<1>2. CASE handler' = [handler EXCEPT ![h] = Provisioning!Idle]
  BY <1>1, <1>2, IdleIsLocal, RequestMoves
<1>3. ASSUME NEW pc \in {"health", "start"},
             handler' = [handler EXCEPT ![h] = [handler[h] EXCEPT !.pc = pc]]
      PROVE  PortsInv'
  <2>1. PICK new : new = [handler[h] EXCEPT !.pc = pc]
    OBVIOUS
  <2>2. handler[h] \in Local /\ GeneratorKnows(handler[h])
    BY DEF PortsInv
  <2>3. /\ new \in Local /\ new.pc = pc /\ new.services = handler[h].services
        /\ new.claimed = handler[h].claimed
    BY <2>1, <2>2 DEF Local
  <2>4. GeneratorKnows(new)
    BY <2>2, <2>3 DEF GeneratorKnows
  <2>5. QED
    BY <1>1, <1>3, <2>1, <2>3, <2>4, RequestMoves
<1>4. QED
  BY <1>2, <1>3

LEMMA RegisterKeeps ==
  ASSUME PortsInv, NEW r \in PortRealms, Provisioning!Register(r) PROVE PortsInv'
<1>1. registry' = Append(registry, r) /\ uri' = uri /\ handler' = handler
  BY DEF Provisioning!Register
<1>2. \A i \in DOMAIN registry : registry[i] # r
  BY DEF Provisioning!Register, Provisioning!Range
<1>3. /\ registry' \in Seq(PortRealms) /\ registry' # <<>>
      /\ \A i, j \in DOMAIN registry' : registry'[i] = registry'[j] => i = j
  BY <1>1, <1>2 DEF PortsInv
<1>4. CASE registry = <<>>
  <2>1. Head(registry') = r
    BY <1>1, <1>4
  <2>2. \A h \in Handlers : handler[h].pc # "assign" /\ handler[h].pc # "scan"
    BY <1>4 DEF PortsInv, GeneratorKnows
  <2>3. \A h \in Handlers : GeneratorKnows(handler[h])'
    BY <1>1, <2>2 DEF PortsInv, GeneratorKnows
  <2>4. QED
    BY <1>1, <1>3, <1>4, <2>1, <2>3 DEF PortsInv
<1>5. CASE registry # <<>>
  <2>1. Head(registry') = Head(registry)
    BY <1>1, <1>5 DEF PortsInv
  <2>2. \A h \in Handlers : GeneratorKnows(handler[h])'
    BY <1>1, <1>3, <2>1 DEF PortsInv, GeneratorKnows
  <2>3. QED
    BY <1>1, <1>3, <1>5, <2>1, <2>2 DEF PortsInv
<1>6. QED
  BY <1>4, <1>5

LEMMA PortsStepKeeps == ASSUME PortsInv, Provisioning!Next PROVE PortsInv'
<1>1. ASSUME registry' = registry, uri' = uri, handler' = handler PROVE PortsInv'
  BY <1>1 DEF PortsInv, GeneratorKnows
<1>2. ASSUME NEW r \in PortRealms, Provisioning!IngestGraph(r) \/ Provisioning!ContainerChanges(r)
      PROVE  PortsInv'
  BY <1>1, <1>2 DEF Provisioning!IngestGraph, Provisioning!ContainerChanges
<1>3. ASSUME NEW i \in DOMAIN jobs, Provisioning!RunJob(i) PROVE PortsInv'
  BY <1>1, <1>3 DEF Provisioning!RunJob, Provisioning!Up, Provisioning!Poll
<1>4. ASSUME NEW h \in Handlers, Provisioning!Decide(h) PROVE PortsInv'
  BY <1>4, AfterwardsKeeps DEF Provisioning!Decide
<1>5. ASSUME NEW h \in Handlers, Provisioning!AskHealth(h) PROVE PortsInv'
  BY <1>5, AfterwardsKeeps DEF Provisioning!AskHealth
<1>6. ASSUME NEW h \in Handlers, Provisioning!StartJob(h) PROVE PortsInv'
  BY <1>6, AfterwardsKeeps DEF Provisioning!StartJob
<1>7. QED
  BY <1>2, <1>3, <1>4, <1>5, <1>6, RegisterKeeps, PostKeepsPorts, ScanKeeps, AssignKeeps
     DEF Provisioning!Next, Provisioning!HandlerStep

\* Every step of the provisioning of graph stores keeps PortsInv
\* (generate_realm_neo4j_compose.generate, routers/realms.provision_realm_neo4j).
LEMMA PortsAlways == Spec => [](part = "ports" => PortsInv)
<1> DEFINE Inv == part = "ports" => PortsInv
<1>1. Init => Inv
  BY PortsInit DEF Init
<1>2. Inv /\ [Next]_vars => Inv'
  <2> SUFFICES ASSUME Inv, [Next]_vars PROVE Inv'
    OBVIOUS
  <2>1. CASE PortsStep
    BY <2>1, PortsStepKeeps DEF PortsStep
  <2>2. CASE UNCHANGED vars
    BY <2>2 DEF vars, provisioningVars, PortsInv, GeneratorKnows
  <2>3. QED
    BY <2>1, <2>2 DEF Next, HybridStep, BindingStep, QueryStep, ChatStep, HttpStep, GraphStep,
       provisioningVars, PortsInv, GeneratorKnows
<1>3. QED
  BY <1>1, <1>2, PTL DEF Spec

LEMMA PortsDiffer ==
  PortsInv => Provisioning!PortsOfARunDiffer /\ Provisioning!FirstRealmStays
<1> SUFFICES ASSUME PortsInv
             PROVE  Provisioning!PortsOfARunDiffer /\ Provisioning!FirstRealmStays
  OBVIOUS
<1>1. ASSUME NEW h \in Handlers
      PROVE  /\ \A s, t \in handler[h].services : s.port = t.port => s.realm = t.realm
             /\ handler[h].pc = "assign" =>
                  \A s \in handler[h].services :
                     \A r \in Provisioning!Range(Tail(handler[h].seen)) : handler[h].uris[r] # s.port
  BY DEF PortsInv, GeneratorKnows, Provisioning!Range
<1>2. Provisioning!FirstRealmStays
  BY PortsGiven DEF PortsInv, Provisioning!FirstRealmStays
<1>3. QED
  BY <1>1, <1>2 DEF Provisioning!PortsOfARunDiffer

\* Whatever the realms, the runs, the corpora and the requests are, and in whatever order they
\* come, a question reads what is its realm's: the retriever of a run is bound to the realm's
\* instances, index and fusion (core/experiment/runner.py, _for_the_corpus), what an ingestion
\* wrote to an index it could compare itself with is stemmed as it asked, whatever dumps, deletes
\* and unreadable mappings did there (adapters/opensearch.py, _ensure_index), a graph shows a
\* realm its own communities (adapters/neo4j_graph.py, communities), and one run of the
\* generator gives no two realms a port and leaves the first realm where it is
\* (tools/generate_realm_neo4j_compose.py).
THEOREM RealmsReadTheirOwn == Spec => []EveryRealmReadsItsOwn
<1>1. (part = "binding" => BindingInv) /\ (part = "graph" => GraphInv) /\ (part = "ports" => PortsInv)
      => EveryRealmReadsItsOwn
  <2>1. IndicesInv => Binding!IndexStemsItsText
    BY DEF IndicesInv, Stems, Binding!IndexStemsItsText
  <2>2. QED
    BY <2>1, ShownIsOwned, PortsDiffer DEF EveryRealmReadsItsOwn, BindingInv, GraphInv
<1>2. QED
  BY <1>1, BindingAlways, GraphAlways, PortsAlways, PTL

----------------------------------------------------------------------------
(* Ranked lists and their fusion *)

\* A list of elements of S, none of them twice.
Listing(S) == {l \in Seq(S) : \A i, j \in DOMAIN l : l[i] = l[j] => i = j}

LEMMA InstanceCounts == ASSUME NEW S PROVE Hybrid!Cardinality(S) = Cardinality(S)
BY DEF Hybrid!Cardinality, Cardinality

\* Every element has its place.
LEMMA PlacesOfAListing ==
    ASSUME NEW S, NEW l \in Listing(S)
    PROVE  /\ Len(l) \in Nat /\ DOMAIN l = 1..Len(l)
           /\ Hybrid!In(l) \in SUBSET S
           /\ \A i \in DOMAIN l : l[i] \in Hybrid!In(l) /\ Hybrid!Place(l, l[i]) = i
           /\ \A c \in Hybrid!In(l) : Hybrid!Place(l, c) \in DOMAIN l /\ l[Hybrid!Place(l, c)] = c
           /\ IsFiniteSet(Hybrid!In(l)) /\ Cardinality(Hybrid!In(l)) = Len(l)
<1>1. /\ l \in Seq(S) /\ Len(l) \in Nat /\ DOMAIN l = 1..Len(l) /\ l \in [1..Len(l) -> S]
      /\ \A i, j \in DOMAIN l : l[i] = l[j] => i = j
  BY SequenceIsFunction DEF Listing
<1>2. Hybrid!In(l) = {l[i] : i \in DOMAIN l}
  BY DEF Hybrid!In, Hybrid!Range
<1>3. \A i \in DOMAIN l : Hybrid!Place(l, l[i]) = i
  BY <1>1 DEF Hybrid!Place
<1>4. \A c \in Hybrid!In(l) : Hybrid!Place(l, c) \in DOMAIN l /\ l[Hybrid!Place(l, c)] = c
  BY <1>2 DEF Hybrid!Place
<1>5. IsFiniteSet(Hybrid!In(l)) /\ Cardinality(Hybrid!In(l)) = Len(l)
  <2>1. IsFiniteSet(1..Len(l)) /\ Cardinality(1..Len(l)) = Len(l)
    BY <1>1, FS_Interval
  <2>2. l \in Injection(1..Len(l), Hybrid!In(l)) /\ l \in Surjection(1..Len(l), Hybrid!In(l))
    BY <1>1, <1>2 DEF Injection, IsInjective, Surjection
  <2>3. IsFiniteSet(Hybrid!In(l)) /\ Cardinality(Hybrid!In(l)) <= Len(l)
    BY <2>1, <2>2, FS_Surjection
  <2>4. Cardinality(1..Len(l)) <= Cardinality(Hybrid!In(l))
    BY <2>2, <2>3, FS_Injection
  <2>5. Cardinality(Hybrid!In(l)) \in Nat
    BY <2>3, FS_CardinalityType
  <2>6. QED
    BY <1>1, <2>1, <2>3, <2>4, <2>5
<1>6. Hybrid!In(l) \in SUBSET S
  BY <1>1, <1>2
<1>7. QED
  BY <1>1, <1>2, <1>3, <1>4, <1>5, <1>6

\* The head of a listing is one, and keeps the places.
LEMMA CutIsAListing ==
    ASSUME NEW S, NEW l \in Listing(S), NEW k \in Nat
    PROVE  /\ Hybrid!Cut(l, k) \in Listing(S)
           /\ Len(Hybrid!Cut(l, k)) = IF Len(l) < k THEN Len(l) ELSE k
           /\ \A i \in DOMAIN Hybrid!Cut(l, k) : i \in DOMAIN l /\ Hybrid!Cut(l, k)[i] = l[i]
           /\ Hybrid!In(Hybrid!Cut(l, k)) \in SUBSET Hybrid!In(l)
<1>1. /\ l \in Seq(S) /\ Len(l) \in Nat /\ DOMAIN l = 1..Len(l)
      /\ \A i, j \in DOMAIN l : l[i] = l[j] => i = j
  BY DEF Listing
<1>2. PICK n : n = IF Len(l) < k THEN Len(l) ELSE k
  OBVIOUS
<1>3. n \in Nat /\ n <= Len(l)
  BY <1>1, <1>2
<1>4. PICK c : c = SubSeq(l, 1, n)
  OBVIOUS
<1>5. c \in Seq(S) /\ Len(c) = n /\ \A i \in 1..n : c[i] = l[i]
  BY <1>1, <1>3, <1>4
<1>6. DOMAIN c = 1..n /\ \A i \in 1..n : i \in DOMAIN l
  BY <1>1, <1>3, <1>5
<1>7. c \in Listing(S)
  BY <1>1, <1>5, <1>6 DEF Listing
<1>8. \A x \in Hybrid!In(c) : x \in Hybrid!In(l)
  BY <1>5, <1>6 DEF Hybrid!In, Hybrid!Range
<1>9. Hybrid!Cut(l, k) = c
  BY <1>2, <1>4 DEF Hybrid!Cut
<1>10. QED
  BY <1>2, <1>5, <1>6, <1>7, <1>8, <1>9

\* What two listings are met as: the first, then what only the second has.
LEMMA MetIsAListing ==
    ASSUME NEW S, NEW a \in Listing(S), NEW b \in Listing(S)
    PROVE  /\ Hybrid!Met(a, b) \in Listing(S)
           /\ Hybrid!In(Hybrid!Met(a, b)) = Hybrid!In(a) \cup Hybrid!In(b)
           /\ \A c, d \in Hybrid!In(a) \cup Hybrid!In(b) :
                 Hybrid!Above(a, c, d)
                   => Hybrid!Place(Hybrid!Met(a, b), c) < Hybrid!Place(Hybrid!Met(a, b), d)
<1>1. /\ a \in Seq(S) /\ Len(a) \in Nat /\ DOMAIN a = 1..Len(a)
      /\ \A i, j \in DOMAIN a : a[i] = a[j] => i = j
  BY DEF Listing
<1>2. /\ b \in Seq(S) /\ \A i, j \in DOMAIN b : b[i] = b[j] => i = j
  BY DEF Listing
<1>3. PICK places : places = {i \in DOMAIN b : b[i] \notin Hybrid!In(a)}
  OBVIOUS
<1>4. PICK rest : rest = Only(b, places)
  OBVIOUS
<1>5. /\ rest \in Seq(S) /\ Len(rest) \in Nat /\ DOMAIN rest = 1..Len(rest)
      /\ \A k \in DOMAIN rest : Nth(places, k) \in places /\ rest[k] = b[Nth(places, k)]
      /\ \A k, m \in DOMAIN rest : Nth(places, k) = Nth(places, m) => k = m
      /\ \A i \in places : \E k \in DOMAIN rest : rest[k] = b[i]
  <2>1. places \in SUBSET DOMAIN b
    BY <1>3
  <2>2. QED
    BY <1>2, <1>4, <2>1, OnlyTakesThePlaces, SequenceIsFunction
<1>6. Hybrid!In(a) = {a[i] : i \in DOMAIN a} /\ Hybrid!In(b) = {b[i] : i \in DOMAIN b}
  BY DEF Hybrid!In, Hybrid!Range
<1>7. /\ \A k \in DOMAIN rest : rest[k] \in Hybrid!In(b) /\ rest[k] \notin Hybrid!In(a)
      /\ \A k, m \in DOMAIN rest : rest[k] = rest[m] => k = m
      /\ \A c \in Hybrid!In(b) : c \notin Hybrid!In(a) => \E k \in DOMAIN rest : rest[k] = c
  <2>1. \A k \in DOMAIN rest : rest[k] \in Hybrid!In(b) /\ rest[k] \notin Hybrid!In(a)
    BY <1>3, <1>5, <1>6
  <2>2. ASSUME NEW k \in DOMAIN rest, NEW m \in DOMAIN rest, rest[k] = rest[m] PROVE k = m
    <3>1. PICK i, j \in DOMAIN b : i = Nth(places, k) /\ j = Nth(places, m)
      BY <1>3, <1>5
    <3>2. b[i] = b[j]
      BY <1>5, <2>2, <3>1
    <3>3. QED
      BY <1>2, <1>5, <3>1, <3>2
  <2>3. ASSUME NEW c \in Hybrid!In(b), c \notin Hybrid!In(a)
        PROVE  \E k \in DOMAIN rest : rest[k] = c
    <3>1. PICK i \in DOMAIN b : b[i] = c
      BY <1>6
    <3>2. i \in places
      BY <1>3, <2>3, <3>1
    <3>3. QED
      BY <1>5, <3>1, <3>2
  <2>4. QED
    BY <2>1, <2>2, <2>3
<1>8. PICK met : met = a \o rest
  OBVIOUS
<1>9. Hybrid!Met(a, b) = met
  <2>1. Hybrid!Only(b, places) = Only(b, places)
    BY Zenon DEF Hybrid!Only, Only, Hybrid!Nth, Nth, Hybrid!Cardinality, Cardinality
  <2>2. Hybrid!Met(a, b) = a \o Hybrid!Only(b, places)
    BY <1>3, Zenon DEF Hybrid!Met
  <2>3. QED
    BY <1>4, <1>8, <2>1, <2>2, Zenon
<1>10. /\ met \in Seq(S) /\ DOMAIN met = 1..(Len(a) + Len(rest))
       /\ \A i \in DOMAIN a : i \in DOMAIN met /\ met[i] = a[i]
       /\ \A k \in DOMAIN rest : Len(a) + k \in DOMAIN met /\ met[Len(a) + k] = rest[k]
       /\ \A i \in DOMAIN met : i \in DOMAIN a \/ (i - Len(a) \in DOMAIN rest /\ i > Len(a))
  BY <1>1, <1>5, <1>8
<1>11. \A i \in DOMAIN met : i \notin DOMAIN a => met[i] = rest[i - Len(a)]
  <2>1. \A i \in DOMAIN met : Len(a) + (i - Len(a)) = i
    BY <1>1, <1>10
  <2>2. QED
    BY <1>10, <2>1
<1>12. Hybrid!In(met) = Hybrid!In(a) \cup Hybrid!In(b)
  <2>1. Hybrid!In(met) = {met[i] : i \in DOMAIN met}
    BY DEF Hybrid!In, Hybrid!Range
  <2>2. \A c \in Hybrid!In(met) : c \in Hybrid!In(a) \cup Hybrid!In(b)
    BY <1>6, <1>7, <1>10, <1>11, <2>1
  <2>3. \A c \in Hybrid!In(a) : c \in Hybrid!In(met)
    BY <1>6, <1>10, <2>1
  <2>4. \A c \in Hybrid!In(b) : c \in Hybrid!In(met)
    BY <1>7, <1>10, <2>1, <2>3
  <2>5. QED
    BY <2>2, <2>3, <2>4
<1>13. ASSUME NEW i \in DOMAIN met, NEW j \in DOMAIN met, met[i] = met[j] PROVE i = j
  <2>1. CASE i \in DOMAIN a /\ j \in DOMAIN a
    BY <1>1, <1>10, <1>13, <2>1
  <2>2. CASE i \in DOMAIN a /\ j \notin DOMAIN a
    BY <1>6, <1>7, <1>10, <1>11, <1>13, <2>2
  <2>3. CASE i \notin DOMAIN a /\ j \in DOMAIN a
    BY <1>6, <1>7, <1>10, <1>11, <1>13, <2>3
  <2>4. CASE i \notin DOMAIN a /\ j \notin DOMAIN a
    <3>1. i - Len(a) = j - Len(a)
      BY <1>7, <1>10, <1>11, <1>13, <2>4
    <3>2. QED
      BY <1>1, <1>10, <3>1
  <2>5. QED
    BY <2>1, <2>2, <2>3, <2>4
<1>14. met \in Listing(S)
  BY <1>10, <1>13 DEF Listing
<1>15. ASSUME NEW c \in Hybrid!In(met), NEW d \in Hybrid!In(met), Hybrid!Above(a, c, d)
       PROVE  Hybrid!Place(met, c) < Hybrid!Place(met, d)
  <2>1. \A i \in DOMAIN a : Hybrid!Place(a, a[i]) = i /\ Hybrid!Place(met, a[i]) = i
    BY <1>10, <1>14, PlacesOfAListing
  <2>2. PICK i \in DOMAIN a : a[i] = c
    BY <1>6, <1>15 DEF Hybrid!Above
  <2>3. CASE d \in Hybrid!In(a)
    BY <1>6, <1>15, <2>1, <2>2, <2>3 DEF Hybrid!Above
  <2>4. CASE d \notin Hybrid!In(a)
    <3>1. Hybrid!Place(met, d) \in DOMAIN met /\ met[Hybrid!Place(met, d)] = d
      BY <1>14, <1>15, PlacesOfAListing
    <3>2. Hybrid!Place(met, d) \notin DOMAIN a
      BY <1>6, <1>10, <2>4, <3>1
    <3>3. QED
      BY <1>1, <1>10, <2>1, <2>2, <3>1, <3>2
  <2>5. QED
    BY <2>3, <2>4
<1>16. QED
  BY <1>9, <1>12, <1>14, <1>15

\* Ranking a listing: the same elements, each above those it beats.
LEMMA RankedIsAListing ==
    ASSUME NEW S, NEW met \in Listing(S), NEW score, \A c \in Hybrid!In(met) : score[c] \in Int
    PROVE  /\ Hybrid!Ranked(met, score) \in Listing(S)
           /\ Len(Hybrid!Ranked(met, score)) = Len(met)
           /\ Hybrid!In(Hybrid!Ranked(met, score)) = Hybrid!In(met)
           /\ \A i, j \in DOMAIN met :
                 /\ Hybrid!Ranked(met, score)[i] \in Hybrid!In(met)
                 /\ i < j <=> Hybrid!Beats(met, score, Hybrid!Ranked(met, score)[i],
                                           Hybrid!Ranked(met, score)[j])
<1> DEFINE E == Hybrid!In(met)
           R == {p \in E \X E : Hybrid!Beats(met, score, p[1], p[2])}
           n == Len(met)
<1>1. /\ n \in Nat /\ DOMAIN met = 1..n /\ E \in SUBSET S
      /\ \A c \in E : Hybrid!Place(met, c) \in DOMAIN met /\ met[Hybrid!Place(met, c)] = c
      /\ IsFiniteSet(E) /\ Cardinality(E) = n
  BY PlacesOfAListing
<1>2. \A c, d \in E : <<c, d>> \in R <=> Hybrid!Beats(met, score, c, d)
  OBVIOUS
<1>3. \A c \in E : RankOf(R, E, c) = Hybrid!Cardinality({d \in E : Hybrid!Beats(met, score, d, c)})
  <2> TAKE c \in E
  <2>1. {d \in E : <<d, c>> \in R} = {d \in E : Hybrid!Beats(met, score, d, c)}
    BY <1>2
  <2>2. QED
    BY <2>1, InstanceCounts DEF RankOf
<1>4. IsRanking(R, E)
  <2> HIDE DEF R
  <2>1. \A c \in E : score[c] \in Int /\ Hybrid!Place(met, c) \in Int
    BY <1>1
  <2>2. \A c \in E : ~Hybrid!Beats(met, score, c, c)
    BY <2>1 DEF Hybrid!Beats
  <2>3. ASSUME NEW c \in E, NEW d \in E
        PROVE  c = d \/ Hybrid!Beats(met, score, c, d) \/ Hybrid!Beats(met, score, d, c)
    <3>1. Hybrid!Place(met, c) = Hybrid!Place(met, d) => c = d
      BY <1>1
    <3>2. QED
      BY <2>1, <3>1 DEF Hybrid!Beats
  <2>4. ASSUME NEW c \in E, NEW d \in E, NEW e \in E,
               Hybrid!Beats(met, score, c, d), Hybrid!Beats(met, score, d, e)
        PROVE  Hybrid!Beats(met, score, c, e)
    BY <2>1, <2>4 DEF Hybrid!Beats
  <2> HIDE DEF E
  <2>5. QED
    BY <1>2, <2>2, <2>3, <2>4 DEF IsRanking
<1>5. PICK ranked : ranked = Hybrid!Ranked(met, score)
  OBVIOUS
<1>6. ranked = [r \in 1..n |-> CHOOSE c \in E :
                   Hybrid!Cardinality({d \in E : Hybrid!Beats(met, score, d, c)}) = r - 1]
  BY <1>5 DEF Hybrid!Ranked
<1>7. \A k \in 1..n : ranked[k] = CHOOSE c \in E :
         Hybrid!Cardinality({d \in E : Hybrid!Beats(met, score, d, c)}) = k - 1
  BY <1>6
<1> HIDE DEF R, E, n
<1>8. /\ \A c, d \in E : <<c, d>> \in R <=> RankOf(R, E, c) < RankOf(R, E, d)
      /\ \A c, d \in E : RankOf(R, E, c) = RankOf(R, E, d) => c = d
      /\ \A k \in 1..n : \E c \in E : RankOf(R, E, c) = k - 1
      /\ \A c \in E : RankOf(R, E, c) \in 0..(n - 1)
  <2>1. IsCounted(R, E)
    BY <1>1, <1>4, RanksAreOneEach
  <2>2. QED
    BY <1>1, <2>1 DEF IsCounted
<1>9. \A k \in 1..n : ranked[k] \in E /\ RankOf(R, E, ranked[k]) = k - 1
  <2> SUFFICES ASSUME NEW k \in 1..n PROVE ranked[k] \in E /\ RankOf(R, E, ranked[k]) = k - 1
    OBVIOUS
  <2>1. \E c \in E : Hybrid!Cardinality({d \in E : Hybrid!Beats(met, score, d, c)}) = k - 1
    BY <1>3, <1>8
  <2>2. ranked[k] \in E /\ Hybrid!Cardinality({d \in E : Hybrid!Beats(met, score, d, ranked[k])}) = k - 1
    BY <1>7, <2>1
  <2>3. QED
    BY <1>3, <2>2
<1>10. ranked \in [1..n -> E]
  BY <1>6, <1>9
<1>11. ranked \in Seq(S) /\ Len(ranked) = n /\ DOMAIN ranked = 1..n
  <2>1. ranked \in [1..n -> S]
    BY <1>1, <1>10
  <2>2. QED
    BY <1>1, <2>1, FunctionIsSequence
<1>12. \A i, j \in 1..n : i < j <=> <<ranked[i], ranked[j]>> \in R
  <2> SUFFICES ASSUME NEW i \in 1..n, NEW j \in 1..n PROVE i < j <=> <<ranked[i], ranked[j]>> \in R
    OBVIOUS
  <2>1. /\ ranked[i] \in E /\ RankOf(R, E, ranked[i]) = i - 1
        /\ ranked[j] \in E /\ RankOf(R, E, ranked[j]) = j - 1
    BY <1>9
  <2>2. <<ranked[i], ranked[j]>> \in R <=> i - 1 < j - 1
    BY <1>8, <2>1
  <2>3. QED
    BY <1>1, <2>2
<1>13. \A i, j \in 1..n : ranked[i] = ranked[j] => i = j
  BY <1>1, <1>9
<1>14. \A c \in E : \E k \in 1..n : ranked[k] = c
  <2> SUFFICES ASSUME NEW c \in E PROVE \E k \in 1..n : ranked[k] = c
    OBVIOUS
  <2>1. PICK k \in 1..n : k = RankOf(R, E, c) + 1
    BY <1>1, <1>8
  <2>2. ranked[k] \in E /\ RankOf(R, E, ranked[k]) = RankOf(R, E, c)
    BY <1>8, <1>9, <2>1
  <2>3. QED
    BY <1>8, <2>2
<1>15. ranked \in Listing(S)
  BY <1>11, <1>13 DEF Listing
<1>16. Hybrid!In(ranked) = E
  <2>1. Hybrid!In(ranked) = {ranked[i] : i \in 1..n}
    BY <1>11 DEF Hybrid!In, Hybrid!Range
  <2>2. QED
    BY <1>9, <1>14, <2>1
<1>17. \A i, j \in DOMAIN met :
          /\ ranked[i] \in E
          /\ i < j <=> Hybrid!Beats(met, score, ranked[i], ranked[j])
  BY <1>1, <1>2, <1>9, <1>12
<1>18. QED
  BY <1>5, <1>11, <1>15, <1>16, <1>17 DEF E, n

----------------------------------------------------------------------------
(* The halves of a retrieval and what becomes of them *)

Answer == [chunk : HybridChunks, score : Int]
Fused == [chunk : HybridChunks, score : Int, dense : Int, sparse : Int]

\* Lists of distinct chunks whose scores fall.
Falling(R) == {l \in Seq(R) : /\ Hybrid!Ids(l) \in Listing(HybridChunks)
                             /\ \A i, j \in DOMAIN l : i < j => l[i].score >= l[j].score}

HybridInv ==
    /\ asked \in [k : 1..HybridK, merge : {"rrf", "weighted"}, alpha : Weights,
                  graph : GraphWeights \cup {-1}, filter : HybridFilters]
    /\ halves \in [dense : Falling(Answer), sparse : Falling(Answer), graph : Falling(Answer)]
    /\ \A i \in DOMAIN halves.sparse : halves.sparse[i].score > 0
    /\ \A i \in DOMAIN halves.graph : halves.graph[i].score >= 0
    /\ at = "graph_merge" => asked.graph # -1
    /\ merged \in Falling(Fused)
    /\ Hybrid!BothHalvesDecide
    /\ Hybrid!CutIsExact
    /\ Hybrid!ScalesDoNotDecide

\* What only falls from one place to the next falls over any distance.
LEMMA FallingByStep ==
    ASSUME NEW n \in Nat, NEW t \in [1..n -> Int], \A i \in 1..(n - 1) : t[i] >= t[i + 1]
    PROVE  \A i, j \in 1..n : i < j => t[i] >= t[j]
<1> SUFFICES ASSUME NEW i \in 1..n PROVE \A j \in 1..n : i < j => t[i] >= t[j]
  OBVIOUS
<1> DEFINE T == {m \in Nat : i + m <= n => t[i] >= t[i + m]}
<1>1. 0 \in T
  OBVIOUS
<1>2. ASSUME NEW m \in Nat, m \in T PROVE m + 1 \in T
  <2>1. CASE i + m < n
    <3>1. i + m \in 1..(n - 1) /\ (i + m) + 1 = i + (m + 1)
      BY <2>1
    <3>2. t[i] \in Int /\ t[i + m] \in Int /\ t[i + (m + 1)] \in Int
      BY <3>1
    <3>3. QED
      BY <1>2, <2>1, <3>1, <3>2
  <2>2. CASE ~(i + m < n)
    BY <2>2
  <2>3. QED
    BY <2>1, <2>2
<1> HIDE DEF T
<1>3. Nat \subseteq T
  BY <1>1, <1>2, NumbersByStep
<1>4. ASSUME NEW j \in 1..n, i < j PROVE t[i] >= t[j]
  <2>1. j - i \in Nat /\ i + (j - i) = j
    BY <1>4
  <2>2. j - i \in T
    BY <1>3, <2>1
  <2>3. QED
    BY <2>1, <2>2 DEF T
<1>5. QED
  BY <1>4

\* The chunks of a list of hits, place by place.
LEMMA IdsOf ==
    ASSUME NEW R, NEW l \in Seq(R)
    PROVE  /\ DOMAIN Hybrid!Ids(l) = DOMAIN l /\ DOMAIN l = 1..Len(l) /\ Len(l) \in Nat
           /\ \A i \in DOMAIN l : Hybrid!Ids(l)[i] = l[i].chunk
BY DEF Hybrid!Ids

\* What a store answers falls, whatever it finds.
LEMMA AnswersFall ==
    ASSUME NEW chunks \in SUBSET HybridChunks, NEW scores \in SUBSET Int, NEW most,
           NEW found \in Hybrid!Answers(chunks, scores, most)
    PROVE  found \in Falling(Answer) /\ \A i \in DOMAIN found : found[i].score \in scores
<1>1. PICK n \in Nat : \E f \in [1..n -> chunks], s \in [1..n -> scores] :
        /\ found = [i \in 1..n |-> Hybrid!Hit(f[i], s[i])]
        /\ Hybrid!IsInjective(f)
        /\ \A i \in 1..(n - 1) : s[i] >= s[i + 1]
  <2>1. PICK n \in {m \in 0..HybridHits : m <= most /\ m <= Hybrid!Cardinality(chunks)} :
          found \in Hybrid!Hits(chunks, scores, n)
    BY DEF Hybrid!Answers
  <2>2. n \in Nat
    OBVIOUS
  <2>3. \E f \in {g \in [1..n -> chunks] : Hybrid!IsInjective(g)},
           s \in {t \in [1..n -> scores] : \A i \in 1..(n - 1) : t[i] >= t[i + 1]} :
              found = [i \in 1..n |-> Hybrid!Hit(f[i], s[i])]
    BY <2>1 DEF Hybrid!Hits
  <2>4. \E f \in [1..n -> chunks], s \in [1..n -> scores] :
           /\ found = [i \in 1..n |-> Hybrid!Hit(f[i], s[i])]
           /\ Hybrid!IsInjective(f)
           /\ \A i \in 1..(n - 1) : s[i] >= s[i + 1]
    BY <2>3, Zenon
  <2>5. QED
    BY <2>2, <2>4
<1>2. PICK f \in [1..n -> chunks], s \in [1..n -> scores] :
        /\ found = [i \in 1..n |-> Hybrid!Hit(f[i], s[i])]
        /\ Hybrid!IsInjective(f)
        /\ \A i \in 1..(n - 1) : s[i] >= s[i + 1]
  BY <1>1
<1>3. \A i \in 1..n : found[i].chunk = f[i] /\ found[i].score = s[i] /\ found[i] \in Answer
  BY <1>2 DEF Hybrid!Hit, Answer
<1>4. found \in Seq(Answer) /\ DOMAIN found = 1..n
  <2>1. found \in [1..n -> Answer]
    BY <1>2, <1>3
  <2>2. QED
    BY <2>1, FunctionIsSequence
<1>5. Hybrid!Ids(found) = f
  BY <1>2, <1>3, <1>4 DEF Hybrid!Ids
<1>6. f \in Listing(HybridChunks)
  <2>1. f \in [1..n -> HybridChunks]
    BY <1>2
  <2>2. f \in Seq(HybridChunks)
    BY <2>1, FunctionIsSequence
  <2>3. QED
    BY <1>2, <2>2 DEF Listing, Hybrid!IsInjective
<1>7. \A i, j \in 1..n : i < j => s[i] >= s[j]
  <2>1. s \in [1..n -> Int]
    BY <1>2
  <2>2. QED
    BY <1>2, <2>1, FallingByStep
<1>8. QED
  BY <1>2, <1>3, <1>4, <1>5, <1>6, <1>7 DEF Falling

\* The score of a chunk is that of its place; what is above has no lower one.
LEMMA ScoresOf ==
    ASSUME NEW R, \A h \in R : h.score \in Int, NEW l \in Falling(R)
    PROVE  /\ Hybrid!Ids(l) \in Listing(HybridChunks)
           /\ \A c : c \notin Hybrid!In(Hybrid!Ids(l)) => Hybrid!ScoreIn(l, c, 0) = 0
           /\ \A c \in Hybrid!In(Hybrid!Ids(l)) :
                 /\ Hybrid!Place(Hybrid!Ids(l), c) \in DOMAIN l
                 /\ Hybrid!ScoreIn(l, c, 0) = l[Hybrid!Place(Hybrid!Ids(l), c)].score
           /\ \A c : Hybrid!ScoreIn(l, c, 0) \in Int
           /\ (\A i \in DOMAIN l : l[i].score >= 0)
                 => \A c, d : Hybrid!Above(Hybrid!Ids(l), c, d)
                                 => Hybrid!ScoreIn(l, c, 0) >= Hybrid!ScoreIn(l, d, 0)
           /\ \A c, d \in Hybrid!In(Hybrid!Ids(l)) :
                 Hybrid!Place(Hybrid!Ids(l), c) < Hybrid!Place(Hybrid!Ids(l), d)
                    => Hybrid!ScoreIn(l, c, 0) >= Hybrid!ScoreIn(l, d, 0)
<1>1. /\ l \in Seq(R) /\ Hybrid!Ids(l) \in Listing(HybridChunks)
      /\ \A i, j \in DOMAIN l : i < j => l[i].score >= l[j].score
  BY DEF Falling
<1>2. PICK ids : ids = Hybrid!Ids(l)
  OBVIOUS
<1>3. \A c \in Hybrid!In(ids) : Hybrid!Place(ids, c) \in DOMAIN l
  BY <1>1, <1>2, IdsOf, PlacesOfAListing
<1>4. \A i \in DOMAIN l : l[i].score \in Int
  BY <1>1
<1>5. /\ \A c : c \notin Hybrid!In(ids) => Hybrid!ScoreIn(l, c, 0) = 0
      /\ \A c \in Hybrid!In(ids) : Hybrid!ScoreIn(l, c, 0) = l[Hybrid!Place(ids, c)].score
  BY <1>2 DEF Hybrid!ScoreIn
<1>6. \A c, d \in Hybrid!In(ids) : Hybrid!Place(ids, c) < Hybrid!Place(ids, d)
        => Hybrid!ScoreIn(l, c, 0) >= Hybrid!ScoreIn(l, d, 0)
  BY <1>1, <1>3, <1>5
<1>7. \A c : Hybrid!ScoreIn(l, c, 0) \in Int
  BY <1>3, <1>4, <1>5
<1>8. ASSUME \A i \in DOMAIN l : l[i].score >= 0, NEW c, NEW d, Hybrid!Above(ids, c, d)
      PROVE  Hybrid!ScoreIn(l, c, 0) >= Hybrid!ScoreIn(l, d, 0)
  BY <1>3, <1>5, <1>6, <1>8 DEF Hybrid!Above
<1>9. QED
  BY <1>1, <1>2, <1>3, <1>5, <1>6, <1>7, <1>8

\* What is merged and cut: what beats another fragment comes out above it and is cut last.
LEMMA MergedIs ==
    ASSUME NEW met \in Listing(HybridChunks), NEW score, NEW k \in Nat, NEW ranked, NEW out,
           \A c \in Hybrid!In(met) : score[c] \in Int,
           \A c : Hybrid!ScoreIn(halves.dense, c, 0) \in Int /\ Hybrid!ScoreIn(halves.sparse, c, 0) \in Int,
           ranked = Hybrid!Cut(Hybrid!Ranked(met, score), k),
           out = [i \in DOMAIN ranked |-> Hybrid!Scored(ranked[i], score[ranked[i]])]
    PROVE  /\ out \in Falling(Fused) /\ Hybrid!Ids(out) = ranked
           /\ Hybrid!In(ranked) \in SUBSET Hybrid!In(met)
           /\ Len(ranked) = IF Cardinality(Hybrid!In(met)) < k THEN Cardinality(Hybrid!In(met)) ELSE k
           /\ \A c, d \in Hybrid!In(met) :
                 (Hybrid!Beats(met, score, c, d) /\ d \in Hybrid!In(ranked))
                    => c \in Hybrid!In(ranked) /\ Hybrid!Place(ranked, c) < Hybrid!Place(ranked, d)
           /\ \A c \in Hybrid!In(ranked) : Hybrid!ScoreIn(out, c, 0) = score[c]
<1> DEFINE E == Hybrid!In(met)
           all == Hybrid!Ranked(met, score)
<1>1. /\ Len(met) \in Nat /\ DOMAIN met = 1..Len(met) /\ E \in SUBSET HybridChunks
      /\ Cardinality(E) = Len(met)
      /\ \A c \in E : Hybrid!Place(met, c) \in DOMAIN met
  BY PlacesOfAListing
<1>2. /\ all \in Listing(HybridChunks) /\ Len(all) = Len(met) /\ Hybrid!In(all) = E
      /\ \A i, j \in DOMAIN met :
            /\ all[i] \in E
            /\ i < j <=> Hybrid!Beats(met, score, all[i], all[j])
  BY RankedIsAListing
<1> HIDE DEF all
<1>3. /\ ranked \in Listing(HybridChunks)
      /\ Len(ranked) = IF Len(all) < k THEN Len(all) ELSE k
      /\ \A i \in DOMAIN ranked : i \in DOMAIN all /\ ranked[i] = all[i]
      /\ Hybrid!In(ranked) \in SUBSET E
  BY <1>2, CutIsAListing DEF all
<1> HIDE DEF E
<1>4. /\ DOMAIN ranked = 1..Len(ranked) /\ Len(ranked) \in Nat /\ DOMAIN all = 1..Len(all)
      /\ \A i \in DOMAIN ranked : ranked[i] \in Hybrid!In(ranked) /\ Hybrid!Place(ranked, ranked[i]) = i
      /\ \A c \in Hybrid!In(ranked) :
            Hybrid!Place(ranked, c) \in DOMAIN ranked /\ ranked[Hybrid!Place(ranked, c)] = c
      /\ \A c \in Hybrid!In(all) : Hybrid!Place(all, c) \in DOMAIN all /\ all[Hybrid!Place(all, c)] = c
  BY <1>2, <1>3, PlacesOfAListing
<1>5. \A i \in DOMAIN ranked : out[i] = Hybrid!Scored(ranked[i], score[ranked[i]])
  OBVIOUS
<1>6. \A i \in DOMAIN ranked : out[i] \in Fused /\ out[i].chunk = ranked[i] /\ out[i].score = score[ranked[i]]
  <2> SUFFICES ASSUME NEW i \in DOMAIN ranked
               PROVE  out[i] \in Fused /\ out[i].chunk = ranked[i] /\ out[i].score = score[ranked[i]]
    OBVIOUS
  <2>1. ranked[i] \in HybridChunks /\ score[ranked[i]] \in Int
    BY <1>1, <1>3, <1>4 DEF E
  <2>2. QED
    BY <1>5, <2>1 DEF Hybrid!Scored, Fused
<1>7. out \in Seq(Fused) /\ DOMAIN out = DOMAIN ranked
  <2>1. out \in [1..Len(ranked) -> Fused]
    BY <1>4, <1>6
  <2>2. QED
    BY <1>4, <2>1, FunctionIsSequence
<1>8. Hybrid!Ids(out) = ranked
  <2>1. Hybrid!Ids(out) = [i \in DOMAIN out |-> out[i].chunk]
    BY DEF Hybrid!Ids
  <2>2. ranked = [i \in DOMAIN ranked |-> ranked[i]]
    BY <1>3 DEF Listing
  <2>3. QED
    BY <1>6, <1>7, <2>1, <2>2
<1>9. \A i, j \in DOMAIN ranked : i < j => out[i].score >= out[j].score
  <2> SUFFICES ASSUME NEW i \in DOMAIN ranked, NEW j \in DOMAIN ranked, i < j
               PROVE  out[i].score >= out[j].score
    OBVIOUS
  <2>1. Hybrid!Beats(met, score, ranked[i], ranked[j])
    BY <1>1, <1>2, <1>3, <1>4
  <2>2. score[ranked[i]] \in Int /\ score[ranked[j]] \in Int
    BY <1>3, <1>4 DEF E
  <2>3. QED
    BY <1>6, <2>1, <2>2 DEF Hybrid!Beats
<1>10. out \in Falling(Fused)
  BY <1>3, <1>7, <1>8, <1>9 DEF Falling
<1>11. ASSUME NEW c \in E, NEW d \in E, Hybrid!Beats(met, score, c, d), d \in Hybrid!In(ranked)
       PROVE  c \in Hybrid!In(ranked) /\ Hybrid!Place(ranked, c) < Hybrid!Place(ranked, d)
  <2>1. PICK i, j \in DOMAIN all : all[i] = c /\ all[j] = d /\ j = Hybrid!Place(ranked, d)
    <3>1. Hybrid!Place(ranked, d) \in DOMAIN all /\ all[Hybrid!Place(ranked, d)] = d
      BY <1>3, <1>4, <1>11
    <3>2. QED
      BY <1>2, <1>4, <3>1
  <2>2. i < j
    BY <1>1, <1>2, <1>4, <1>11, <2>1
  <2>3. i \in DOMAIN ranked
    BY <1>4, <1>11, <2>1, <2>2
  <2>4. QED
    BY <1>3, <1>4, <2>1, <2>2, <2>3
<1>12. \A c \in Hybrid!In(ranked) : Hybrid!ScoreIn(out, c, 0) = score[c]
  BY <1>4, <1>6, <1>8 DEF Hybrid!ScoreIn
<1>13. Len(ranked) = IF Cardinality(E) < k THEN Cardinality(E) ELSE k
  BY <1>1, <1>2, <1>3
<1>14. QED
  BY <1>3, <1>8, <1>10, <1>11, <1>12, <1>13 DEF E

\* A list gives a fragment no less than another that it has below, or not at all.
LEMMA SharesFall ==
    ASSUME NEW S, NEW l \in Listing(S)
    PROVE  /\ \A c : Hybrid!Share(l, c) \in Nat
           /\ \A c, d : Hybrid!Above(l, c, d) => Hybrid!Share(l, c) >= Hybrid!Share(l, d)
<1>1. RrfK \in Nat
  BY RetrievalAssumption DEF RetrievalAssumption, Hybrid!Assumptions, Hybrid!RrfKAssumption
<1>2. \A c \in Hybrid!In(l) : Hybrid!Place(l, c) \in Nat \ {0}
  BY PlacesOfAListing
<1>3. \A p \in Nat \ {0} : 1000000 \div (RrfK + p) \in Nat
  BY <1>1
<1>4. ASSUME NEW p \in Nat \ {0}, NEW q \in Nat \ {0}, p < q
      PROVE  1000000 \div (RrfK + p) >= 1000000 \div (RrfK + q)
  <2>1. PICK a, b \in Nat \ {0} : a = RrfK + p /\ b = RrfK + q /\ a < b
    BY <1>1, <1>4
  <2>2. 1000000 \div a >= 1000000 \div b
    BY <2>1
  <2>3. QED
    BY <2>1, <2>2
<1>5. \A c : Hybrid!Share(l, c) = IF c \in Hybrid!In(l) THEN 1000000 \div (RrfK + Hybrid!Place(l, c)) ELSE 0
  BY DEF Hybrid!Share, Hybrid!RankScore, Hybrid!Unit
<1>6. \A c : Hybrid!Share(l, c) \in Nat
  BY <1>2, <1>3, <1>5
<1>7. ASSUME NEW c, NEW d, Hybrid!Above(l, c, d) PROVE Hybrid!Share(l, c) >= Hybrid!Share(l, d)
  <2>1. CASE d \in Hybrid!In(l)
    BY <1>2, <1>4, <1>5, <1>7, <2>1 DEF Hybrid!Above
  <2>2. CASE d \notin Hybrid!In(l)
    BY <1>5, <1>6, <2>2
  <2>3. QED
    BY <2>1, <2>2
<1>8. QED
  BY <1>6, <1>7

LEMMA RetrievalGiven ==
    /\ HybridFilters \subseteq SUBSET HybridChunks
    /\ DenseScores \subseteq Int /\ SparseScores \subseteq Nat \ {0}
    /\ Weights \subseteq Int /\ HybridK \in Nat
    /\ \A w \in GraphWeights : w \in Int /\ w >= 0 /\ w <= 100
<1>1. PICK whole \in Nat : whole = 100
  OBVIOUS
<1>2. Weights \subseteq 0..whole /\ GraphWeights \subseteq 0..whole
  BY <1>1, RetrievalAssumption DEF RetrievalAssumption, Hybrid!Assumptions
<1>3. Weights \subseteq Int /\ \A w \in GraphWeights : w \in Int /\ w >= 0 /\ w <= 100
  BY <1>1, <1>2
<1>4. QED
  BY <1>3, RetrievalAssumption DEF RetrievalAssumption, Hybrid!Assumptions

LEMMA EmptyFalls == <<>> \in Falling(Answer) /\ <<>> \in Falling(Fused) /\ Len(<<>>) = 0
<1>1. Hybrid!Ids(<<>>) = <<>>
  BY DEF Hybrid!Ids
<1>2. <<>> \in Listing(HybridChunks)
  BY DEF Listing
<1>3. <<>> \in Seq(Answer) /\ <<>> \in Seq(Fused) /\ Len(<<>>) = 0 /\ DOMAIN <<>> = {}
  OBVIOUS
<1>4. Hybrid!Ids(<<>>) \in Listing(HybridChunks)
  BY <1>1, <1>2
<1>5. QED
  BY <1>3, <1>4 DEF Falling

\* The halves of an invariant state, as the fusions read them.
LEMMA HalvesAre ==
    ASSUME HybridInv
    PROVE  /\ halves.dense \in Falling(Answer) /\ halves.sparse \in Falling(Answer)
           /\ Hybrid!Ids(halves.dense) \in Listing(HybridChunks)
           /\ Hybrid!Ids(halves.sparse) \in Listing(HybridChunks)
           /\ \A c : /\ Hybrid!ScoreIn(halves.dense, c, 0) \in Int
                     /\ Hybrid!ScoreIn(halves.sparse, c, 0) \in Nat
           /\ asked.k \in Nat
<1>1. \A h \in Answer : h.score \in Int
  BY DEF Answer
<1>2. halves.dense \in Falling(Answer) /\ halves.sparse \in Falling(Answer) /\ asked.k \in Nat
  BY RetrievalGiven DEF HybridInv
<1>3. \A i \in DOMAIN halves.sparse : halves.sparse[i].score > 0
  BY DEF HybridInv
<1>4. \A c : Hybrid!ScoreIn(halves.dense, c, 0) \in Int /\ Hybrid!ScoreIn(halves.sparse, c, 0) \in Int
  BY <1>1, <1>2, ScoresOf
<1>5. ASSUME NEW c PROVE Hybrid!ScoreIn(halves.sparse, c, 0) >= 0
  <2>1. CASE c \in Hybrid!In(Hybrid!Ids(halves.sparse))
    BY <1>1, <1>2, <1>3, <1>4, <2>1, ScoresOf
  <2>2. CASE c \notin Hybrid!In(Hybrid!Ids(halves.sparse))
    BY <1>1, <1>2, <2>2, ScoresOf
  <2>3. QED
    BY <2>1, <2>2
<1>6. QED
  BY <1>2, <1>4, <1>5 DEF Falling

LEMMA HybridInit == Hybrid!Init => HybridInv
<1> SUFFICES ASSUME Hybrid!Init PROVE HybridInv
  OBVIOUS
<1>1. /\ asked \in [k : 1..HybridK, merge : {"rrf", "weighted"}, alpha : Weights,
                    graph : GraphWeights \cup {-1}, filter : HybridFilters]
      /\ at = "dense" /\ merged = <<>>
      /\ halves = [dense |-> <<>>, sparse |-> <<>>, graph |-> <<>>]
  BY DEF Hybrid!Init, Hybrid!NoGraph, Hybrid!NoHalves
<1>2. halves \in [dense : Falling(Answer), sparse : Falling(Answer), graph : Falling(Answer)]
  BY <1>1, EmptyFalls
<1>3. QED
  BY <1>1, <1>2, EmptyFalls DEF HybridInv, Hybrid!BothHalvesDecide, Hybrid!CutIsExact,
                                Hybrid!ScalesDoNotDecide, Hybrid!Hybrid

\* A half answers.
LEMMA HalfKeeps ==
    ASSUME HybridInv, Hybrid!DenseHalf \/ Hybrid!SparseHalf PROVE HybridInv'
<1>1. /\ asked' = asked /\ merged' = merged /\ at' \in {"sparse", "merge"}
  BY DEF Hybrid!DenseHalf, Hybrid!SparseHalf
<1>2. asked.filter \in SUBSET HybridChunks
  BY RetrievalGiven DEF HybridInv
<1>3. CASE Hybrid!DenseHalf
  <2>1. PICK found \in Hybrid!Answers(asked.filter, DenseScores, Hybrid!FetchK(asked.k)) :
          halves' = [halves EXCEPT !.dense = found]
    BY <1>3 DEF Hybrid!DenseHalf
  <2>2. found \in Falling(Answer)
    BY <1>2, <2>1, RetrievalGiven, AnswersFall
  <2>3. /\ halves' \in [dense : Falling(Answer), sparse : Falling(Answer), graph : Falling(Answer)]
        /\ halves'.sparse = halves.sparse /\ halves'.graph = halves.graph
    BY <2>1, <2>2 DEF HybridInv
  <2>4. QED
    BY <1>1, <2>3 DEF HybridInv, Hybrid!BothHalvesDecide, Hybrid!CutIsExact,
                      Hybrid!ScalesDoNotDecide, Hybrid!Hybrid
<1>4. CASE Hybrid!SparseHalf
  <2>1. PICK found \in Hybrid!Answers(asked.filter, SparseScores, Hybrid!FetchK(asked.k)) :
          halves' = [halves EXCEPT !.sparse = found]
    BY <1>4 DEF Hybrid!SparseHalf
  <2>2. SparseScores \in SUBSET Int
    BY RetrievalGiven
  <2>3. found \in Falling(Answer) /\ \A i \in DOMAIN found : found[i].score \in SparseScores
    BY <1>2, <2>1, <2>2, AnswersFall
  <2>4. /\ halves' \in [dense : Falling(Answer), sparse : Falling(Answer), graph : Falling(Answer)]
        /\ halves'.sparse = found /\ halves'.graph = halves.graph
    BY <2>1, <2>3 DEF HybridInv
  <2>5. \A i \in DOMAIN halves'.sparse : halves'.sparse[i].score > 0
    BY <2>3, <2>4, RetrievalGiven
  <2>6. QED
    BY <1>1, <2>4, <2>5 DEF HybridInv, Hybrid!BothHalvesDecide, Hybrid!CutIsExact,
                      Hybrid!ScalesDoNotDecide, Hybrid!Hybrid
<1>5. QED
  BY <1>3, <1>4

LEMMA MergeRrfKeeps == ASSUME HybridInv, Hybrid!MergeRrf PROVE HybridInv'
<1> DEFINE dense == Hybrid!Ids(halves.dense)
           sparse == Hybrid!Ids(halves.sparse)
           score == [c \in Hybrid!In(Hybrid!Met(dense, sparse)) |-> Hybrid!RrfScore(dense, sparse, c)]
<1>1. /\ dense \in Listing(HybridChunks) /\ sparse \in Listing(HybridChunks) /\ asked.k \in Nat
      /\ \A c : Hybrid!ScoreIn(halves.dense, c, 0) \in Int /\ Hybrid!ScoreIn(halves.sparse, c, 0) \in Int
  BY HalvesAre
<1>2. PICK met : met = Hybrid!Met(dense, sparse)
  OBVIOUS
<1>3. /\ met \in Listing(HybridChunks) /\ Hybrid!In(met) = Hybrid!Found
      /\ \A c, d \in Hybrid!Found : Hybrid!Above(dense, c, d) => Hybrid!Place(met, c) < Hybrid!Place(met, d)
  BY <1>1, <1>2, MetIsAListing DEF Hybrid!Found
<1>4. \A c \in Hybrid!In(met) : score[c] = Hybrid!RrfScore(dense, sparse, c)
  BY <1>2
<1>5. \A c : Hybrid!RrfScore(dense, sparse, c) \in Int
  BY <1>1, SharesFall DEF Hybrid!RrfScore
<1>6. PICK ranked : ranked = Hybrid!Cut(Hybrid!Ranked(met, score), asked.k)
  OBVIOUS
<1>7. /\ merged' = [i \in DOMAIN ranked |->
                      Hybrid!Scored(ranked[i], Hybrid!RrfScore(dense, sparse, ranked[i]))]
      /\ at' = "graph" /\ asked' = asked /\ halves' = halves /\ asked.merge = "rrf"
  BY <1>2, <1>6 DEF Hybrid!MergeRrf, Hybrid!RrfMerge
<1> HIDE DEF score, dense, sparse
<1>8. ranked \in Listing(HybridChunks) /\ Hybrid!In(ranked) \in SUBSET Hybrid!In(met)
  BY <1>1, <1>3, <1>4, <1>5, <1>6, RankedIsAListing, CutIsAListing
<1>9. \A i \in DOMAIN ranked : score[ranked[i]] = Hybrid!RrfScore(dense, sparse, ranked[i])
  BY <1>4, <1>8, PlacesOfAListing
<1>10. PICK out : out = [i \in DOMAIN ranked |-> Hybrid!Scored(ranked[i], score[ranked[i]])]
  OBVIOUS
<1>11. merged' = out
  BY <1>7, <1>9, <1>10
<1>12. /\ out \in Falling(Fused) /\ Hybrid!Ids(out) = ranked
       /\ Hybrid!In(ranked) \in SUBSET Hybrid!In(met)
       /\ Len(ranked) = IF Cardinality(Hybrid!In(met)) < asked.k THEN Cardinality(Hybrid!In(met)) ELSE asked.k
       /\ \A c, d \in Hybrid!In(met) :
             (Hybrid!Beats(met, score, c, d) /\ d \in Hybrid!In(ranked))
                => c \in Hybrid!In(ranked) /\ Hybrid!Place(ranked, c) < Hybrid!Place(ranked, d)
  BY <1>1, <1>3, <1>4, <1>5, <1>6, <1>10, MergedIs
<1>13. Hybrid!CutIsExact'
  BY <1>3, <1>7, <1>11, <1>12, InstanceCounts DEF Hybrid!CutIsExact, Hybrid!Outcome, Hybrid!Found
<1>14. Hybrid!BothHalvesDecide'
  <2>1. ASSUME NEW c \in Hybrid!Found, NEW d \in Hybrid!Found,
               Hybrid!Above(dense, c, d), Hybrid!Above(sparse, c, d)
        PROVE  Hybrid!Beats(met, score, c, d)
    <3>1. /\ Hybrid!Share(dense, c) >= Hybrid!Share(dense, d)
          /\ Hybrid!Share(sparse, c) >= Hybrid!Share(sparse, d)
          /\ \A e \in {c, d} : Hybrid!Share(dense, e) \in Nat /\ Hybrid!Share(sparse, e) \in Nat
      BY <1>1, <2>1, SharesFall
    <3>2. score[c] \in Nat /\ score[d] \in Nat /\ score[c] >= score[d]
      BY <1>3, <1>4, <3>1 DEF Hybrid!RrfScore
    <3>3. Hybrid!Place(met, c) < Hybrid!Place(met, d)
      BY <1>3, <2>1
    <3>4. QED
      BY <3>2, <3>3 DEF Hybrid!Beats
  <2>2. QED
    BY <1>3, <1>7, <1>11, <1>12, <2>1
       DEF Hybrid!BothHalvesDecide, Hybrid!NotBelow, Hybrid!Outcome, Hybrid!Found, Hybrid!Above, dense, sparse
<1>15. Hybrid!ScalesDoNotDecide'
  BY <1>7 DEF Hybrid!ScalesDoNotDecide
<1>16. QED
  BY <1>7, <1>11, <1>12, <1>13, <1>14, <1>15 DEF HybridInv

\* A half brought to its own scale: no more than the whole for a half whose best is above zero.
LEMMA NormalisedIs ==
    ASSUME NEW l \in Falling(Answer)
    PROVE  /\ \A c : Hybrid!Normalised(l, c) \in Int
           /\ \A c : c \notin Hybrid!In(Hybrid!Ids(l)) => Hybrid!Normalised(l, c) = 0
           /\ l # <<>> => l[1].chunk \in Hybrid!In(Hybrid!Ids(l))
           /\ l # <<>> /\ l[1].score > 0 =>
                 /\ Hybrid!Normalised(l, l[1].chunk) = 10000
                 /\ \A c : Hybrid!Normalised(l, c) <= 10000
           /\ (\A i \in DOMAIN l : l[i].score > 0)
                 => \A c : Hybrid!Normalised(l, c) >= 0 /\ Hybrid!Normalised(l, c) <= 10000
<1> DEFINE ids == Hybrid!Ids(l)
           s(c) == Hybrid!ScoreIn(l, c, 0)
           best == l[1].score
<1>1. /\ l \in Seq(Answer) /\ ids \in Listing(HybridChunks)
      /\ \A i, j \in DOMAIN l : i < j => l[i].score >= l[j].score
      /\ \A i \in DOMAIN l : l[i].score \in Int
  <2>1. /\ l \in Seq(Answer) /\ ids \in Listing(HybridChunks)
        /\ \A i, j \in DOMAIN l : i < j => l[i].score >= l[j].score
    BY DEF Falling
  <2>2. \A i \in DOMAIN l : l[i] \in Answer
    BY <2>1
  <2>3. QED
    BY <2>1, <2>2 DEF Answer
<1>2. /\ DOMAIN ids = DOMAIN l /\ DOMAIN l = 1..Len(l) /\ Len(l) \in Nat
      /\ \A i \in DOMAIN l : ids[i] = l[i].chunk /\ ids[i] \in Hybrid!In(ids) /\ Hybrid!Place(ids, ids[i]) = i
  BY <1>1, IdsOf, PlacesOfAListing
<1>3. /\ \A c \in Hybrid!In(ids) : Hybrid!Place(ids, c) \in DOMAIN l /\ s(c) = l[Hybrid!Place(ids, c)].score
      /\ \A c : s(c) \in Int
  BY <1>1, ScoresOf DEF Answer
<1>4. \A c : Hybrid!Normalised(l, c) =
         IF c \notin Hybrid!In(ids) THEN 0
         ELSE IF best = 0 THEN 100 * s(c)
         ELSE IF best > 0 THEN (10000 * s(c)) \div best
         ELSE ((-10000) * s(c)) \div (-best)
  BY DEF Hybrid!Normalised
<1> HIDE DEF s, ids
<1>5. ASSUME NEW c \in Hybrid!In(ids) PROVE 1 \in DOMAIN l /\ best \in Int /\ s(c) <= best
  <2>1. PICK p \in 1..Len(l) : p = Hybrid!Place(ids, c)
    BY <1>2, <1>3, <1>5
  <2>2. 1 \in DOMAIN l /\ (p = 1 \/ 1 < p)
    BY <1>2, <2>1
  <2>3. QED
    BY <1>1, <1>3, <1>5, <2>1, <2>2
<1>6. \A x \in Int : \A b \in Nat \ {0} : /\ (10000 * x) \div b \in Int
                                          /\ x <= b => (10000 * x) \div b <= 10000
                                          /\ x >= 0 => (10000 * x) \div b >= 0
                                          /\ (10000 * b) \div b = 10000
  <2> SUFFICES ASSUME NEW x \in Int, NEW b \in Nat \ {0}
               PROVE  /\ (10000 * x) \div b \in Int
                      /\ x <= b => (10000 * x) \div b <= 10000
                      /\ x >= 0 => (10000 * x) \div b >= 0
                      /\ (10000 * b) \div b = 10000
    OBVIOUS
  <2>1. QED
    OBVIOUS
<1>7. \A x \in Int : \A b \in Nat \ {0} : ((-10000) * x) \div b \in Int
  OBVIOUS
<1>8. ASSUME NEW c PROVE Hybrid!Normalised(l, c) \in Int
  <2>1. CASE c \notin Hybrid!In(ids)
    BY <1>4, <2>1
  <2>2. CASE c \in Hybrid!In(ids) /\ best = 0
    BY <1>3, <1>4, <2>2
  <2>3. CASE c \in Hybrid!In(ids) /\ best > 0
    BY <1>3, <1>4, <1>5, <1>6, <2>3
  <2>4. CASE c \in Hybrid!In(ids) /\ best < 0
    <3>1. -best \in Nat \ {0}
      BY <1>5, <2>4
    <3>2. Hybrid!Normalised(l, c) = ((-10000) * s(c)) \div (-best)
      BY <1>4, <1>5, <2>4
    <3>3. QED
      BY <1>3, <1>7, <3>1, <3>2
  <2>5. QED
    BY <1>5, <2>1, <2>2, <2>3, <2>4
<1>9. l # <<>> => 1 \in DOMAIN l /\ l[1].chunk \in Hybrid!In(ids) /\ s(l[1].chunk) = best /\ best \in Int
  <2>1. l # <<>> => 1 \in DOMAIN l
    BY <1>1
  <2>2. QED
    BY <1>1, <1>2, <1>3, <2>1
<1>10. ASSUME best > 0, NEW c \in Hybrid!In(ids)
       PROVE  /\ Hybrid!Normalised(l, c) <= 10000
              /\ s(c) >= 0 => Hybrid!Normalised(l, c) >= 0
              /\ s(c) = best => Hybrid!Normalised(l, c) = 10000
  <2>1. Hybrid!Normalised(l, c) = (10000 * s(c)) \div best
    BY <1>4, <1>5, <1>10
  <2>2. QED
    BY <1>3, <1>5, <1>6, <1>10, <2>1
<1>11. \A c : c \notin Hybrid!In(ids) => Hybrid!Normalised(l, c) = 0
  BY <1>4
<1>12. ASSUME l # <<>>, best > 0
       PROVE  Hybrid!Normalised(l, l[1].chunk) = 10000 /\ \A c : Hybrid!Normalised(l, c) <= 10000
  BY <1>9, <1>10, <1>11, <1>12
<1>13. ASSUME \A i \in DOMAIN l : l[i].score > 0, NEW c
       PROVE  Hybrid!Normalised(l, c) >= 0 /\ Hybrid!Normalised(l, c) <= 10000
  <2>1. CASE c \notin Hybrid!In(ids)
    BY <1>11, <2>1
  <2>2. CASE c \in Hybrid!In(ids)
    <3>1. s(c) \in Int /\ s(c) > 0
      BY <1>3, <1>13, <2>2
    <3>2. best \in Int /\ best > 0
      BY <1>5, <2>2, <3>1
    <3>3. QED
      BY <1>10, <2>2, <3>1, <3>2
  <2>3. QED
    BY <2>1, <2>2
<1>14. QED
  BY <1>8, <1>9, <1>11, <1>12, <1>13 DEF ids

LEMMA MergeWeightedKeeps == ASSUME HybridInv, Hybrid!MergeWeighted PROVE HybridInv'
<1> DEFINE dense == Hybrid!Ids(halves.dense)
           sparse == Hybrid!Ids(halves.sparse)
           score == [c \in Hybrid!Found |-> Hybrid!WeightedScore(c)]
<1>1. /\ dense \in Listing(HybridChunks) /\ sparse \in Listing(HybridChunks) /\ asked.k \in Nat
      /\ halves.dense \in Falling(Answer) /\ halves.sparse \in Falling(Answer)
      /\ \A c : Hybrid!ScoreIn(halves.dense, c, 0) \in Int /\ Hybrid!ScoreIn(halves.sparse, c, 0) \in Int
  BY HalvesAre
<1>2. PICK met \in [1..Hybrid!Cardinality(Hybrid!Found) -> Hybrid!Found] :
        /\ Hybrid!IsInjective(met)
        /\ LET ranked == Hybrid!Cut(Hybrid!Ranked(met, score), asked.k)
           IN merged' = [i \in DOMAIN ranked |-> Hybrid!Scored(ranked[i], score[ranked[i]])]
  <2>1. PICK met \in {l \in [1..Hybrid!Cardinality(Hybrid!Found) -> Hybrid!Found] : Hybrid!IsInjective(l)} :
          \E s \in {score} : \E ranked \in {Hybrid!Cut(Hybrid!Ranked(met, s), asked.k)} :
             merged' = [i \in DOMAIN ranked |-> Hybrid!Scored(ranked[i], s[ranked[i]])]
    BY Zenon DEF Hybrid!MergeWeighted, Hybrid!Found
  <2> HIDE DEF score
  <2> QED BY <2>1
<1>3. at' = "graph" /\ asked' = asked /\ halves' = halves /\ asked.merge = "weighted"
  BY DEF Hybrid!MergeWeighted
<1>4. met \in Listing(HybridChunks) /\ Hybrid!In(met) = Hybrid!Found
  <2>1. /\ IsFiniteSet(Hybrid!Found) /\ Hybrid!Found \in SUBSET HybridChunks
        /\ Cardinality(Hybrid!Found) \in Nat
    <3>1. /\ IsFiniteSet(Hybrid!In(dense)) /\ IsFiniteSet(Hybrid!In(sparse))
          /\ Hybrid!In(dense) \in SUBSET HybridChunks /\ Hybrid!In(sparse) \in SUBSET HybridChunks
      BY <1>1, PlacesOfAListing
    <3>2. IsFiniteSet(Hybrid!Found)
      BY <3>1, FS_Union DEF Hybrid!Found
    <3>3. QED
      BY <3>1, <3>2, FS_CardinalityType DEF Hybrid!Found
  <2>2. PICK n \in Nat : n = Cardinality(Hybrid!Found)
    BY <2>1
  <2>3. met \in [1..n -> Hybrid!Found] /\ \A i, j \in 1..n : met[i] = met[j] => i = j
    BY <1>2, <2>2, InstanceCounts DEF Hybrid!IsInjective
  <2>4. met \in Surjection(1..n, Hybrid!Found)
    <3>1. IsFiniteSet(1..n) /\ Cardinality(1..n) = n
      BY FS_Interval
    <3>2. met \in Injection(1..n, Hybrid!Found)
      BY <2>3 DEF Injection, IsInjective
    <3>3. QED
      BY <2>1, <2>2, <3>1, <3>2, FS_Injection
  <2>5. met \in Seq(HybridChunks) /\ DOMAIN met = 1..n
    <3>1. met \in [1..n -> HybridChunks]
      BY <2>1, <2>3
    <3>2. QED
      BY <3>1, FunctionIsSequence
  <2>6. Hybrid!In(met) = Hybrid!Found
    <3>1. Hybrid!In(met) = {met[i] : i \in 1..n}
      BY <2>5 DEF Hybrid!In, Hybrid!Range
    <3>2. \A c \in Hybrid!Found : \E i \in 1..n : met[i] = c
      BY <2>4 DEF Surjection
    <3>3. \A c \in Hybrid!In(met) : c \in Hybrid!Found
      BY <2>3, <3>1
    <3>4. \A c \in Hybrid!Found : c \in Hybrid!In(met)
      BY <3>1, <3>2
    <3>5. QED
      BY <3>3, <3>4
  <2>7. QED
    BY <2>3, <2>5, <2>6 DEF Listing
<1>5. asked.alpha \in Int
  <2>1. asked.alpha \in Weights
    BY DEF HybridInv
  <2>2. QED
    BY <2>1, RetrievalGiven
<1>6. ASSUME NEW c
      PROVE  /\ Hybrid!Normalised(halves.dense, c) \in Int
             /\ Hybrid!Normalised(halves.sparse, c) \in Int
             /\ Hybrid!Normalised(halves.sparse, c) >= 0 /\ Hybrid!Normalised(halves.sparse, c) <= 10000
             /\ c \notin Hybrid!In(sparse) => Hybrid!Normalised(halves.sparse, c) = 0
             /\ c \notin Hybrid!In(dense) => Hybrid!Normalised(halves.dense, c) = 0
             /\ Hybrid!WeightedScore(c) =
                  asked.alpha * Hybrid!Normalised(halves.dense, c)
                     + (100 - asked.alpha) * Hybrid!Normalised(halves.sparse, c)
  <2>1. \A i \in DOMAIN halves.sparse : halves.sparse[i].score > 0
    BY DEF HybridInv
  <2>2. /\ Hybrid!Normalised(halves.dense, c) \in Int
        /\ c \notin Hybrid!In(dense) => Hybrid!Normalised(halves.dense, c) = 0
    BY <1>1, NormalisedIs
  <2>3. /\ Hybrid!Normalised(halves.sparse, c) \in Int
        /\ Hybrid!Normalised(halves.sparse, c) >= 0 /\ Hybrid!Normalised(halves.sparse, c) <= 10000
        /\ c \notin Hybrid!In(sparse) => Hybrid!Normalised(halves.sparse, c) = 0
    BY <1>1, <2>1, NormalisedIs
  <2>4. QED
    BY <2>2, <2>3 DEF Hybrid!WeightedScore
<1>7. ASSUME NEW c PROVE Hybrid!WeightedScore(c) \in Int
  <2>1. PICK x, y \in Int : x = Hybrid!Normalised(halves.dense, c) /\ y = Hybrid!Normalised(halves.sparse, c)
    BY <1>6
  <2>2. Hybrid!WeightedScore(c) = asked.alpha * x + (100 - asked.alpha) * y
    BY <1>6, <2>1
  <2>3. QED
    BY <1>5, <2>2
<1>8. \A c \in Hybrid!In(met) : score[c] = Hybrid!WeightedScore(c)
  BY <1>4
<1>9. PICK ranked : ranked = Hybrid!Cut(Hybrid!Ranked(met, score), asked.k)
  OBVIOUS
<1>10. merged' = [i \in DOMAIN ranked |-> Hybrid!Scored(ranked[i], score[ranked[i]])]
  BY <1>2, <1>9
<1> HIDE DEF score, dense, sparse
<1>11. /\ merged' \in Falling(Fused) /\ Hybrid!Ids(merged') = ranked
       /\ Hybrid!In(ranked) \in SUBSET Hybrid!In(met)
       /\ Len(ranked) = IF Cardinality(Hybrid!In(met)) < asked.k THEN Cardinality(Hybrid!In(met)) ELSE asked.k
       /\ \A c \in Hybrid!In(ranked) : Hybrid!ScoreIn(merged', c, 0) = score[c]
  BY <1>1, <1>4, <1>7, <1>8, <1>9, <1>10, MergedIs
<1>12. Hybrid!CutIsExact'
  BY <1>3, <1>4, <1>11, InstanceCounts DEF Hybrid!CutIsExact, Hybrid!Outcome, Hybrid!Found
<1>13. Hybrid!BothHalvesDecide'
  BY <1>3 DEF Hybrid!BothHalvesDecide
<1>14. Hybrid!ScalesDoNotDecide'
  <2> DEFINE first == halves.dense[1].chunk
  <2>1. ASSUME asked.alpha = 50, halves.dense # <<>>, halves.dense[1].score > 0,
               NEW d \in Hybrid!In(ranked), d \notin Hybrid!In(dense) \cap Hybrid!In(sparse)
        PROVE  Hybrid!ScoreIn(merged', d, 0) <= Hybrid!WeightedScore(first)
    <3>1. /\ Hybrid!Normalised(halves.dense, first) = 10000
          /\ Hybrid!Normalised(halves.dense, d) <= 10000
      BY <1>1, <2>1, NormalisedIs
    <3>2. PICK x, y, z \in Int : /\ x = Hybrid!Normalised(halves.dense, d)
                                 /\ y = Hybrid!Normalised(halves.sparse, d)
                                 /\ z = Hybrid!Normalised(halves.sparse, first)
                                 /\ 0 <= y /\ y <= 10000 /\ 0 <= z
      BY <1>6
    <3>3. x <= 10000 /\ (x = 0 \/ y = 0)
      BY <1>6, <2>1, <3>1, <3>2
    <3>4. Hybrid!WeightedScore(d) = 50 * x + 50 * y
      BY <1>6, <2>1, <3>2
    <3>5. Hybrid!WeightedScore(first) = 50 * 10000 + 50 * z
      BY <1>6, <2>1, <3>1, <3>2
    <3>6. Hybrid!ScoreIn(merged', d, 0) = Hybrid!WeightedScore(d)
      BY <1>8, <1>11, <2>1
    <3>7. 50 * x + 50 * y <= 50 * 10000 + 50 * z
      BY <3>2, <3>3
    <3>8. QED
      BY <3>4, <3>5, <3>6, <3>7
  <2>2. \A c : Hybrid!WeightedScore(c)' = Hybrid!WeightedScore(c)
    BY <1>3 DEF Hybrid!WeightedScore, Hybrid!Normalised
  <2>3. QED
    BY <1>3, <1>11, <2>1, <2>2 DEF Hybrid!ScalesDoNotDecide, Hybrid!Outcome, Hybrid!ScoreIn, dense, sparse
<1>15. QED
  BY <1>3, <1>11, <1>12, <1>13, <1>14 DEF HybridInv

\* The graph answers: distinct seeds, at most k, whose scores fall in steps of one k-th.
LEMMA GraphHalfKeeps == ASSUME HybridInv, Hybrid!GraphHalf PROVE HybridInv'
<1> DEFINE step(i) == ((i - 1) * Hybrid!Unit) \div asked.k
<1>1. asked.k \in Nat \ {0}
  BY RetrievalGiven DEF HybridInv
<1>2. PICK n \in {m \in 0..asked.k : m <= Hybrid!Cardinality(HybridChunks)} :
      \E seeds \in {f \in [1..n -> HybridChunks] : Hybrid!IsInjective(f)} :
        halves' = [halves EXCEPT !.graph = [i \in DOMAIN seeds |-> Hybrid!Hit(seeds[i], Hybrid!Unit - step(i))]]
  BY Zenon DEF Hybrid!GraphHalf
<1>3. n \in Nat /\ n <= asked.k
  BY <1>1
<1>4. PICK seeds \in [1..n -> HybridChunks] :
        /\ \A i, j \in 1..n : seeds[i] = seeds[j] => i = j
        /\ halves' = [halves EXCEPT !.graph = [i \in DOMAIN seeds |-> Hybrid!Hit(seeds[i], Hybrid!Unit - step(i))]]
  BY <1>2 DEF Hybrid!IsInjective
<1>5. PICK found : found = [i \in DOMAIN seeds |-> Hybrid!Hit(seeds[i], Hybrid!Unit - step(i))]
  OBVIOUS
<1>6. \A i \in 1..n : step(i) \in Int /\ Hybrid!Unit - step(i) >= 0 /\ \A j \in 1..n : i < j => step(i) <= step(j)
  <2> SUFFICES ASSUME NEW i \in 1..n
               PROVE  /\ step(i) \in Int /\ Hybrid!Unit - step(i) >= 0
                      /\ \A j \in 1..n : i < j => step(i) <= step(j)
    OBVIOUS
  <2>1. PICK k \in Nat \ {0} : k = asked.k
    BY <1>1
  <2>2. PICK unit \in Nat : unit = Hybrid!Unit
    BY DEF Hybrid!Unit
  <2>3. \A a \in Int : a <= unit * k => a \div k \in Int /\ a \div k <= unit
    <3> TAKE a \in Int
    <3>1. QED
      BY <2>1
  <2>4. \A a, b \in Int : a <= b => a \div k <= b \div k
    <3> TAKE a, b \in Int
    <3>1. QED
      BY <2>1
  <2>5. (i - 1) * unit \in Int /\ (i - 1) * unit <= unit * k
    BY <1>3, <2>1
  <2>6. \A j \in 1..n : i < j => (j - 1) * unit \in Int /\ (i - 1) * unit <= (j - 1) * unit
    BY <1>3
  <2>7. \A j \in 1..n : step(j) = ((j - 1) * unit) \div k
    BY <2>2, <2>1
  <2> HIDE DEF step
  <2>8. step(i) \in Int /\ step(i) <= unit
    BY <2>3, <2>5, <2>7
  <2>9. \A j \in 1..n : i < j => step(i) <= step(j)
    BY <2>4, <2>5, <2>6, <2>7
  <2>10. QED
    BY <2>2, <2>8, <2>9
<1> HIDE DEF step
<1>7. Hybrid!Unit \in Int
  BY DEF Hybrid!Unit
<1>8. \A i \in 1..n : found[i] = Hybrid!Hit(seeds[i], Hybrid!Unit - step(i))
  BY <1>5
<1>9. \A i \in 1..n : found[i].chunk = seeds[i] /\ found[i].score = Hybrid!Unit - step(i) /\ found[i] \in Answer
  <2> SUFFICES ASSUME NEW i \in 1..n
               PROVE  found[i].chunk = seeds[i] /\ found[i].score = Hybrid!Unit - step(i) /\ found[i] \in Answer
    OBVIOUS
  <2>1. PICK v \in Int : v = Hybrid!Unit - step(i)
    BY <1>7, <1>6
  <2>2. found[i] = [chunk |-> seeds[i], score |-> v]
    BY <1>8, <2>1 DEF Hybrid!Hit
  <2>3. seeds[i] \in HybridChunks
    BY <1>4
  <2>4. QED
    BY <2>1, <2>2, <2>3 DEF Answer
<1>10. found \in Seq(Answer) /\ DOMAIN found = 1..n
  <2>1. found \in [1..n -> Answer]
    BY <1>5, <1>9
  <2>2. QED
    BY <1>3, <2>1, FunctionIsSequence
<1>11. Hybrid!Ids(found) = seeds
  BY <1>9, <1>10 DEF Hybrid!Ids
<1>12. seeds \in Listing(HybridChunks)
  <2>1. seeds \in Seq(HybridChunks) /\ DOMAIN seeds = 1..n
    BY <1>3, FunctionIsSequence
  <2>2. QED
    BY <1>4, <2>1 DEF Listing
<1>13. \A i, j \in DOMAIN found : i < j => found[i].score >= found[j].score
  <2> SUFFICES ASSUME NEW i \in 1..n, NEW j \in 1..n, i < j PROVE found[i].score >= found[j].score
    BY <1>10
  <2>1. step(i) \in Int /\ step(j) \in Int /\ step(i) <= step(j)
    BY <1>6
  <2>2. found[i].score = Hybrid!Unit - step(i) /\ found[j].score = Hybrid!Unit - step(j)
    BY <1>9
  <2>3. QED
    BY <1>7, <2>1, <2>2
<1>14. found \in Falling(Answer) /\ \A i \in DOMAIN found : found[i].score >= 0
  BY <1>6, <1>9, <1>10, <1>11, <1>12, <1>13 DEF Falling
<1>15. /\ halves' \in [dense : Falling(Answer), sparse : Falling(Answer), graph : Falling(Answer)]
       /\ halves'.dense = halves.dense /\ halves'.sparse = halves.sparse /\ halves'.graph = found
  BY <1>4, <1>5, <1>14 DEF HybridInv
<1>16. /\ at = "graph" /\ at' = "graph_merge" /\ asked' = asked /\ merged' = merged
       /\ asked.graph # -1
  BY DEF Hybrid!GraphHalf, Hybrid!NoGraph
<1>17. Hybrid!BothHalvesDecide'
  BY <1>15, <1>16 DEF HybridInv, Hybrid!BothHalvesDecide, Hybrid!Hybrid, Hybrid!Found, Hybrid!NotBelow, Hybrid!Outcome
<1>18. Hybrid!CutIsExact'
  BY <1>15, <1>16 DEF HybridInv, Hybrid!CutIsExact, Hybrid!Hybrid, Hybrid!Found, Hybrid!Outcome
<1>19. Hybrid!ScalesDoNotDecide'
  <2>1. \A c : Hybrid!WeightedScore(c)' = Hybrid!WeightedScore(c)
    BY <1>15, <1>16 DEF Hybrid!WeightedScore
  <2>2. QED
    BY <1>15, <1>16, <2>1 DEF HybridInv, Hybrid!ScalesDoNotDecide, Hybrid!Hybrid, Hybrid!Outcome
<1>20. QED
  BY <1>14, <1>15, <1>16, <1>17, <1>18, <1>19 DEF HybridInv

\* The graph is merged over the base: typed, and in the order that both give.
LEMMA MergeGraphKeeps ==
    ASSUME HybridInv, Hybrid!MergeGraph PROVE HybridInv' /\ Hybrid!GraphKeepsTheOrderBothGive
<1> DEFINE graph == Hybrid!Ids(halves.graph)
           base == Hybrid!Ids(merged)
           score == [c \in Hybrid!In(Hybrid!Met(graph, base)) |-> Hybrid!GraphScore(c)]
<1>1. /\ \A c : Hybrid!ScoreIn(halves.dense, c, 0) \in Int /\ Hybrid!ScoreIn(halves.sparse, c, 0) \in Int
      /\ asked.k \in Nat
  BY HalvesAre
<1>2. /\ halves.graph \in Falling(Answer) /\ merged \in Falling(Fused)
      /\ \A i \in DOMAIN halves.graph : halves.graph[i].score >= 0
      /\ \A h \in Answer : h.score \in Int
      /\ \A h \in Fused : h.score \in Int
  BY DEF HybridInv, Answer, Fused
<1>3. /\ graph \in Listing(HybridChunks)
      /\ \A c : Hybrid!ScoreIn(halves.graph, c, 0) \in Int
      /\ \A c, d : Hybrid!Above(graph, c, d)
                     => Hybrid!ScoreIn(halves.graph, c, 0) >= Hybrid!ScoreIn(halves.graph, d, 0)
  BY <1>2, ScoresOf
<1>4. /\ base \in Listing(HybridChunks)
      /\ \A c : Hybrid!ScoreIn(merged, c, 0) \in Int
      /\ \A c, d \in Hybrid!In(base) : Hybrid!Place(base, c) < Hybrid!Place(base, d)
                     => Hybrid!ScoreIn(merged, c, 0) >= Hybrid!ScoreIn(merged, d, 0)
  BY <1>2, ScoresOf
<1>5. PICK met : met = Hybrid!Met(graph, base)
  OBVIOUS
<1>6. /\ met \in Listing(HybridChunks) /\ Hybrid!In(met) = Hybrid!In(graph) \cup Hybrid!In(base)
      /\ \A c, d \in Hybrid!In(met) : Hybrid!Above(graph, c, d) => Hybrid!Place(met, c) < Hybrid!Place(met, d)
  BY <1>3, <1>4, <1>5, MetIsAListing
<1>7. \A c \in Hybrid!In(met) : score[c] = Hybrid!GraphScore(c)
  BY <1>5
<1>8. PICK ranked : ranked = Hybrid!Cut(Hybrid!Ranked(met, score), asked.k)
  OBVIOUS
<1>9. /\ merged' = [i \in DOMAIN ranked |-> Hybrid!Scored(ranked[i], score[ranked[i]])]
      /\ at = "graph_merge" /\ at' = "done" /\ asked' = asked /\ halves' = halves
  BY <1>5, <1>8 DEF Hybrid!MergeGraph
<1> HIDE DEF score, graph, base
<1>10. /\ asked.graph \in Int /\ asked.graph >= 0 /\ 100 - asked.graph >= 0
  <2>1. asked.graph \in GraphWeights
    BY <1>9 DEF HybridInv
  <2>2. QED
    BY <2>1, RetrievalGiven
<1>11. ASSUME NEW c PROVE Hybrid!GraphScore(c) \in Int
  <2>1. PICK x, y \in Int : x = Hybrid!ScoreIn(halves.graph, c, 0) /\ y = Hybrid!ScoreIn(merged, c, 0)
    BY <1>3, <1>4
  <2>2. Hybrid!GraphScore(c) = asked.graph * (x \div 100) + (100 - asked.graph) * (y \div 100)
    BY <2>1 DEF Hybrid!GraphScore
  <2>3. QED
    BY <1>10, <2>2
<1>12. /\ merged' \in Falling(Fused) /\ Hybrid!Ids(merged') = ranked
       /\ \A c, d \in Hybrid!In(met) :
             (Hybrid!Beats(met, score, c, d) /\ d \in Hybrid!In(ranked))
                => c \in Hybrid!In(ranked) /\ Hybrid!Place(ranked, c) < Hybrid!Place(ranked, d)
  BY <1>1, <1>6, <1>7, <1>8, <1>9, <1>11, MergedIs
<1>13. HybridInv'
  BY <1>9, <1>12 DEF HybridInv, Hybrid!BothHalvesDecide, Hybrid!CutIsExact, Hybrid!ScalesDoNotDecide, Hybrid!Hybrid
<1>14. ASSUME NEW c \in Hybrid!In(base), NEW d \in Hybrid!In(base),
              Hybrid!Place(base, c) < Hybrid!Place(base, d), Hybrid!Above(graph, c, d)
       PROVE  Hybrid!Beats(met, score, c, d)
  <2>1. PICK x, y, u, v \in Int :
          /\ x = Hybrid!ScoreIn(halves.graph, c, 0) /\ y = Hybrid!ScoreIn(merged, c, 0)
          /\ u = Hybrid!ScoreIn(halves.graph, d, 0) /\ v = Hybrid!ScoreIn(merged, d, 0)
    BY <1>3, <1>4
  <2>2. x >= u /\ y >= v
    BY <1>3, <1>4, <1>14, <2>1
  <2>3. /\ Hybrid!GraphScore(c) = asked.graph * (x \div 100) + (100 - asked.graph) * (y \div 100)
        /\ Hybrid!GraphScore(d) = asked.graph * (u \div 100) + (100 - asked.graph) * (v \div 100)
    BY <2>1 DEF Hybrid!GraphScore
  <2>4. PICK xs, ys, us, vs \in Int :
          /\ xs = x \div 100 /\ ys = y \div 100 /\ us = u \div 100 /\ vs = v \div 100
          /\ xs >= us /\ ys >= vs
    BY <2>2
  <2>5. asked.graph * xs >= asked.graph * us
    BY <1>10, <2>4
  <2>6. (100 - asked.graph) * ys >= (100 - asked.graph) * vs
    BY <1>10, <2>4
  <2>7. Hybrid!GraphScore(c) >= Hybrid!GraphScore(d)
    BY <1>10, <2>3, <2>4, <2>5, <2>6
  <2>8. Hybrid!Place(met, c) < Hybrid!Place(met, d)
    BY <1>6, <1>14
  <2>9. Hybrid!GraphScore(c) \in Int /\ Hybrid!GraphScore(d) \in Int
    BY <1>11
  <2>10. score[c] = Hybrid!GraphScore(c) /\ score[d] = Hybrid!GraphScore(d)
    BY <1>6, <1>7
  <2>11. QED
    BY <2>7, <2>8, <2>9, <2>10 DEF Hybrid!Beats
<1>15. Hybrid!GraphKeepsTheOrderBothGive
  BY <1>6, <1>12, <1>14 DEF Hybrid!GraphKeepsTheOrderBothGive, Hybrid!NotBelow, Hybrid!Outcome, base, graph
<1>16. QED
  BY <1>13, <1>15

LEMMA WithoutGraphKeeps == ASSUME HybridInv, Hybrid!WithoutGraph PROVE HybridInv'
<1>1. at' = "done" /\ asked' = asked /\ halves' = halves /\ merged' = merged
  BY DEF Hybrid!WithoutGraph
<1>2. QED
  BY <1>1 DEF HybridInv, Hybrid!BothHalvesDecide, Hybrid!CutIsExact, Hybrid!ScalesDoNotDecide, Hybrid!Hybrid

LEMMA HybridStepKeeps ==
    ASSUME HybridInv, Hybrid!Next PROVE HybridInv' /\ Hybrid!GraphKeepsTheOrderBothGive
<1>1. ASSUME at # "graph_merge" PROVE Hybrid!GraphKeepsTheOrderBothGive
  BY <1>1 DEF Hybrid!GraphKeepsTheOrderBothGive
<1>2. CASE Hybrid!DenseHalf \/ Hybrid!SparseHalf
  <2>1. HybridInv'
    BY <1>2, HalfKeeps
  <2>2. QED
    BY <1>1, <1>2, <2>1 DEF Hybrid!DenseHalf, Hybrid!SparseHalf
<1>3. CASE Hybrid!MergeRrf
  <2>1. HybridInv'
    BY <1>3, MergeRrfKeeps
  <2>2. QED
    BY <1>1, <1>3, <2>1 DEF Hybrid!MergeRrf
<1>4. CASE Hybrid!MergeWeighted
  <2>1. HybridInv'
    BY <1>4, MergeWeightedKeeps
  <2>2. QED
    BY <1>1, <1>4, <2>1 DEF Hybrid!MergeWeighted
<1>5. CASE Hybrid!WithoutGraph
  <2>1. HybridInv'
    BY <1>5, WithoutGraphKeeps
  <2>2. QED
    BY <1>1, <1>5, <2>1 DEF Hybrid!WithoutGraph
<1>6. CASE Hybrid!GraphHalf
  <2>1. HybridInv'
    BY <1>6, GraphHalfKeeps
  <2>2. QED
    BY <1>1, <1>6, <2>1 DEF Hybrid!GraphHalf
<1>7. CASE Hybrid!MergeGraph
  BY <1>7, MergeGraphKeeps
<1>8. QED
  BY <1>2, <1>3, <1>4, <1>5, <1>6, <1>7 DEF Hybrid!Next

LEMMA HybridStays == ASSUME HybridInv, UNCHANGED retrievalVars PROVE HybridInv'
<1>1. at' = at /\ asked' = asked /\ halves' = halves /\ merged' = merged
  BY DEF retrievalVars
<1>2. \A c : Hybrid!WeightedScore(c)' = Hybrid!WeightedScore(c)
  BY <1>1 DEF Hybrid!WeightedScore
<1>3. Hybrid!ScalesDoNotDecide'
  BY <1>1, <1>2 DEF HybridInv, Hybrid!ScalesDoNotDecide, Hybrid!Hybrid, Hybrid!Outcome
<1>4. QED
  BY <1>1, <1>3 DEF HybridInv, Hybrid!BothHalvesDecide, Hybrid!CutIsExact, Hybrid!Hybrid,
                  Hybrid!Found, Hybrid!NotBelow, Hybrid!Outcome

LEMMA HybridAlways == Spec => [](part = "retrieval" => HybridInv)
<1>1. Init => (part = "retrieval" => HybridInv)
  BY HybridInit DEF Init
<1>2. (part = "retrieval" => HybridInv) /\ [Next]_vars => (part = "retrieval" => HybridInv)'
  <2> SUFFICES ASSUME part = "retrieval" => HybridInv, [Next]_vars, part' = "retrieval" PROVE HybridInv'
    OBVIOUS
  <2>1. CASE HybridStep
    BY <2>1, HybridStepKeeps DEF HybridStep
  <2>2. CASE UNCHANGED vars
    BY <2>2, HybridStays DEF vars
  <2>3. QED
    BY <2>1, <2>2 DEF Next, BindingStep, QueryStep, ChatStep, HttpStep, GraphStep, PortsStep
<1>3. QED
  BY <1>1, <1>2, PTL DEF Spec

\* Whatever the stores answer, whatever k, the weights and the filters are: rank fusion puts what
\* both halves put above another fragment above it, nothing is cut while there is room, and with
\* equal weights no scale outweighs the other half's best fragment (core/retrieval/hybrid.py).
THEOREM FusionIsAlwaysFair == Spec => []FusionIsFair
<1>1. (part = "retrieval" => HybridInv) => FusionIsFair
  BY DEF FusionIsFair, HybridInv
<1>2. QED
  BY <1>1, HybridAlways, PTL

LEMMA HybridShape == HybridInv => Hybrid!TypeOK
<1> SUFFICES ASSUME HybridInv PROVE Hybrid!TypeOK
  OBVIOUS
<1>1. /\ merged \in Seq(Fused) /\ Hybrid!Ids(merged) \in Listing(HybridChunks)
      /\ \A i, j \in DOMAIN merged : i < j => merged[i].score >= merged[j].score
  BY DEF HybridInv, Falling
<1>2. Hybrid!In(Hybrid!Ids(merged)) \in SUBSET HybridChunks
  BY <1>1, PlacesOfAListing
<1>3. Hybrid!IsInjective(Hybrid!Ids(merged))
  BY <1>1 DEF Listing, Hybrid!IsInjective
<1>4. ASSUME NEW i \in 1..(Len(merged) - 1) PROVE merged[i].score >= merged[i + 1].score
  <2>1. i \in DOMAIN merged /\ i + 1 \in DOMAIN merged /\ i < i + 1
    BY <1>1
  <2>2. QED
    BY <1>1, <2>1
<1>5. QED
  BY <1>2, <1>3, <1>4 DEF Hybrid!TypeOK, Hybrid!Outcome

----------------------------------------------------------------------------
(* The ranked lists of a question *)

\* The fusion a question's rewrites go through is the fusion of its halves.
LEMMA OneFusion ==
    ASSUME NEW a, NEW b, NEW c
    PROVE  /\ Query!In(a) = Hybrid!In(a)
           /\ Query!Cut(a, b) = Hybrid!Cut(a, b)
           /\ Query!Met(a, b) = Hybrid!Met(a, b)
           /\ Query!RrfScore(a, b, c) = Hybrid!RrfScore(a, b, c)
           /\ Query!Ranked(a, b) = Hybrid!Ranked(a, b)
<1>1. \A x : Query!In(x) = Hybrid!In(x)
  BY DEF Query!In, Hybrid!In, Query!Range, Hybrid!Range
<1>2. \A x, y : Query!Only(x, y) = Hybrid!Only(x, y)
  BY DEF Query!Only, Hybrid!Only, Query!Nth, Hybrid!Nth, Query!Cardinality, Hybrid!Cardinality
<1>3. \A x, y : Query!Place(x, y) = Hybrid!Place(x, y)
  BY DEF Query!Place, Hybrid!Place
<1>4. Query!Cut(a, b) = Hybrid!Cut(a, b)
  BY DEF Query!Cut, Hybrid!Cut
<1>5. Query!Met(a, b) = Hybrid!Met(a, b)
  BY <1>1, <1>2 DEF Query!Met, Hybrid!Met
<1>6. \A x, y : Query!Share(x, y) = Hybrid!Share(x, y)
  BY <1>1, <1>3 DEF Query!Share, Hybrid!Share, Query!RankScore, Hybrid!RankScore, Query!Unit, Hybrid!Unit
<1>7. Query!RrfScore(a, b, c) = Hybrid!RrfScore(a, b, c)
  BY <1>6 DEF Query!RrfScore, Hybrid!RrfScore
<1>8. Query!Ranked(a, b) = Hybrid!Ranked(a, b)
  BY DEF Query!Ranked, Hybrid!Ranked, Query!In, Hybrid!In, Query!Range, Hybrid!Range,
         Query!Cardinality, Hybrid!Cardinality, Query!Beats, Hybrid!Beats, Query!Place, Hybrid!Place
<1>9. QED
  BY <1>1, <1>4, <1>5, <1>7, <1>8

\* Fusing two listings is one, of all that is in either.
LEMMA FusedIsAListing ==
    ASSUME NEW S, NEW a \in Listing(S), NEW b \in Listing(S)
    PROVE  /\ Query!RrfMerge(a, b) \in Listing(S)
           /\ Hybrid!In(Query!RrfMerge(a, b)) = Hybrid!In(a) \cup Hybrid!In(b)
<1> DEFINE score == [c \in Hybrid!In(Hybrid!Met(a, b)) |-> Hybrid!RrfScore(a, b, c)]
<1>1. Query!RrfMerge(a, b) = Hybrid!Ranked(Hybrid!Met(a, b), score)
  BY OneFusion DEF Query!RrfMerge
<1>2. /\ Hybrid!Met(a, b) \in Listing(S)
      /\ Hybrid!In(Hybrid!Met(a, b)) = Hybrid!In(a) \cup Hybrid!In(b)
  BY MetIsAListing
<1>3. \A c \in Hybrid!In(Hybrid!Met(a, b)) : score[c] \in Int
  BY SharesFall DEF Hybrid!RrfScore
<1> HIDE DEF score
<1>4. QED
  BY <1>1, <1>2, <1>3, RankedIsAListing

LEMMA SameSelection == ASSUME NEW s, NEW places PROVE Query!Only(s, places) = Only(s, places)
BY DEF Query!Only, Only, Query!Nth, Nth, Query!Cardinality, Cardinality

\* What is at different places of a sequence where different things are is a listing.
LEMMA SelectedIsAListing ==
    ASSUME NEW T, NEW s \in Seq(T), NEW places \in SUBSET DOMAIN s,
           \A i, j \in places : s[i] = s[j] => i = j
    PROVE  /\ Query!Only(s, places) \in Listing(T)
           /\ \A x : x \in Hybrid!In(Query!Only(s, places)) <=> \E i \in places : s[i] = x
<1>1. PICK o : o = Only(s, places)
  OBVIOUS
<1>2. /\ o \in Seq(T)
      /\ \A k \in DOMAIN o : Nth(places, k) \in places /\ o[k] = s[Nth(places, k)]
      /\ \A k, l \in DOMAIN o : Nth(places, k) = Nth(places, l) => k = l
      /\ \A i \in places : \E k \in DOMAIN o : o[k] = s[i]
  BY <1>1, OnlyTakesThePlaces
<1>3. \A k, l \in DOMAIN o : o[k] = o[l] => k = l
  BY <1>2
<1>4. o \in Listing(T)
  BY <1>2, <1>3 DEF Listing
<1>5. \A x : x \in Hybrid!In(o) <=> \E k \in DOMAIN o : o[k] = x
  BY DEF Hybrid!In, Hybrid!Range
<1>6. \A x : x \in Hybrid!In(o) <=> \E i \in places : s[i] = x
  BY <1>2, <1>5
<1>7. QED
  BY <1>1, <1>4, <1>6, SameSelection

\* A cut takes nothing from a listing that is no longer than it.
LEMMA AllOfAShortOne ==
    ASSUME NEW S, NEW l \in Listing(S), NEW k \in Nat, Len(l) <= k
    PROVE  Hybrid!In(Hybrid!Cut(l, k)) = Hybrid!In(l)
<1>1. PICK c : c = Hybrid!Cut(l, k)
  OBVIOUS
<1>2. /\ c \in Listing(S) /\ Len(c) = Len(l) /\ \A i \in DOMAIN c : c[i] = l[i]
  <2>1. Len(l) \in Nat
    BY PlacesOfAListing
  <2>2. QED
    BY <1>1, <2>1, CutIsAListing
<1>3. DOMAIN c = DOMAIN l
  BY <1>2, PlacesOfAListing
<1>4. QED
  BY <1>1, <1>2, <1>3 DEF Hybrid!In, Hybrid!Range

\* A list without repetition in another order, as many of them as there are.
LEMMA OrdersAreListings ==
    ASSUME NEW S, NEW list \in Listing(S), NEW l \in Query!Orders(list)
    PROVE  /\ l \in Listing(S) /\ Hybrid!In(l) \in SUBSET Hybrid!In(list)
           /\ Hybrid!In(l) = Hybrid!In(list) /\ Len(l) = Len(list)
<1>1. /\ Len(list) \in Nat /\ DOMAIN list = 1..Len(list) /\ Hybrid!In(list) \in SUBSET S
  BY PlacesOfAListing
<1>2. l \in [1..Len(list) -> Hybrid!In(list)] /\ \A i, j \in DOMAIN l : l[i] = l[j] => i = j
  BY <1>1, OneFusion DEF Query!Orders, Query!IsInjective
<1>3. l \in [1..Len(list) -> S]
  BY <1>1, <1>2
<1>4. l \in Seq(S) /\ l \in Seq(Hybrid!In(list))
  BY <1>1, <1>2, <1>3, FunctionIsSequence
<1>5. l \in Listing(S) /\ l \in Listing(Hybrid!In(list))
  BY <1>2, <1>4 DEF Listing
<1>6. Len(l) = Len(list)
  BY <1>1, <1>2, <1>4
<1>7. /\ Hybrid!In(l) \in SUBSET Hybrid!In(list) /\ IsFiniteSet(Hybrid!In(list))
      /\ Cardinality(Hybrid!In(l)) = Len(l) /\ Cardinality(Hybrid!In(list)) = Len(list)
  BY <1>5, PlacesOfAListing
<1>8. Hybrid!In(l) = Hybrid!In(list)
  BY <1>6, <1>7, FS_Subset
<1>9. QED
  BY <1>5, <1>6, <1>8

LEMMA ListsAreListings ==
    ASSUME NEW n, NEW l \in Query!Lists(n) PROVE l \in Listing(Fragments)
<1>1. PICK m \in 0..n : l \in [1..m -> Fragments] /\ Query!IsInjective(l)
  BY DEF Query!Lists
<1>2. m \in Nat
  OBVIOUS
<1>3. l \in Seq(Fragments)
  BY <1>1, <1>2, FunctionIsSequence
<1>4. QED
  BY <1>1, <1>3 DEF Listing, Query!IsInjective

\* A listing is one of what is in it, and of anything more.
LEMMA ListingsWiden ==
    ASSUME NEW S, NEW l \in Listing(S), NEW T, Hybrid!In(l) \in SUBSET T
    PROVE  l \in Listing(T)
<1>1. /\ Len(l) \in Nat /\ DOMAIN l = 1..Len(l) /\ \A i \in DOMAIN l : l[i] \in Hybrid!In(l)
  BY PlacesOfAListing
<1>2. l \in Seq(S) /\ \A i, j \in DOMAIN l : l[i] = l[j] => i = j
  BY DEF Listing
<1>3. l = [i \in 1..Len(l) |-> l[i]]
  BY <1>1, <1>2
<1>4. l \in [1..Len(l) -> T]
  BY <1>1, <1>3
<1>5. QED
  BY <1>1, <1>2, <1>4, FunctionIsSequence DEF Listing

PinRecord == [chunks : Seq(Fragments), demotes : SUBSET Fragments, rewrite : BOOLEAN]

LEMMA SameMax == \A s : Query!Max(s) = Max(s)
BY DEF Query!Max, Max


LEMMA WantedIsASequence ==
    ASSUME NEW pins \in Seq(PinRecord)
    PROVE  Query!Wanted(pins) \in Seq(Fragments) /\ (pins = <<>> => Query!Wanted(pins) = <<>>)
<1>1. Len(pins) \in Nat /\ DOMAIN pins = 1..Len(pins)
  OBVIOUS
<1>2. PICK n \in Nat : n = Len(pins) /\ DOMAIN pins = 1..n
  BY <1>1
<1>3. PICK step : step = [x \in 1..n |-> [a \in Seq(Fragments) |-> a \o pins[x].chunks]]
  OBVIOUS
<1>4. \A x \in 1..n : pins[x].chunks \in Seq(Fragments)
  <2> TAKE x \in 1..n
  <2>1. pins[x] \in PinRecord
    BY <1>2
  <2>2. QED
    BY <2>1 DEF PinRecord
<1>5. step \in [1..n -> [Seq(Fragments) -> Seq(Fragments)]]
  BY <1>3, <1>4
<1>6. PICK f \in [SUBSET (1..n) -> Seq(Fragments)] : FoldsPlaces(f, n, <<>>, step)
  <2>1. PICK A : A = Seq(Fragments)
    OBVIOUS
  <2>2. <<>> \in A /\ step \in [1..n -> [A -> A]]
    BY <1>5, <2>1
  <2>3. QED
    BY <2>1, <2>2, FoldsByPlaces
<1>7. \A s \in SUBSET (1..n) :
        f[s] = IF s = {} THEN <<>> ELSE f[s \ {Query!Max(s)}] \o pins[Query!Max(s)].chunks
  <2> SUFFICES ASSUME NEW s \in SUBSET (1..n)
               PROVE  f[s] = IF s = {} THEN <<>> ELSE f[s \ {Max(s)}] \o pins[Max(s)].chunks
    BY SameMax
  <2>1. CASE s = {}
    BY <1>6, <2>1 DEF FoldsPlaces
  <2>2. CASE s # {}
    <3>1. f[s \ {Max(s)}] \in Seq(Fragments) /\ Max(s) \in 1..n
      BY <2>2, LastPlaces
    <3>2. f[s] = step[Max(s)][f[s \ {Max(s)}]]
      BY <1>6, <2>2 DEF FoldsPlaces
    <3>3. QED
      BY <1>3, <2>2, <3>1, <3>2
  <2>3. QED
    BY <2>1, <2>2
<1> DEFINE iter[s \in SUBSET DOMAIN pins] ==
             IF s = {} THEN <<>> ELSE LET x == Query!Max(s) IN iter[s \ {x}] \o pins[x].chunks
<1>8. Query!Wanted(pins) = iter[DOMAIN pins]
  BY DEF Query!Wanted, Query!FoldLeft, Query!MapThenFoldSet
<1>9. f = [s \in SUBSET DOMAIN pins |->
             IF s = {} THEN <<>> ELSE LET x == Query!Max(s) IN f[s \ {x}] \o pins[x].chunks]
  BY <1>2, <1>7
<1>10. iter = [s \in SUBSET DOMAIN pins |->
             IF s = {} THEN <<>> ELSE LET x == Query!Max(s) IN iter[s \ {x}] \o pins[x].chunks]
  BY <1>9, Zenon
<1> HIDE DEF iter
<1>11. \A s \in SUBSET (1..n) : iter[s] = IF s = {} THEN <<>> ELSE iter[s \ {Max(s)}] \o pins[Max(s)].chunks
  BY <1>2, <1>10, SameMax
<1>12. iter[1..n] \in Seq(Fragments)
  <2>1. iter[{}] \in Seq(Fragments)
    <3>1. {} \in SUBSET (1..n)
      OBVIOUS
    <3>2. iter[{}] = <<>>
      BY <1>11, <3>1
    <3>3. QED
      BY <3>2
  <2>2. ASSUME NEW i \in 1..n, iter[1..(i - 1)] \in Seq(Fragments) PROVE iter[1..i] \in Seq(Fragments)
    <3>1. 1..i \in SUBSET (1..n) /\ 1..i # {} /\ Max(1..i) = i /\ (1..i) \ {i} = 1..(i - 1)
      BY PlacesUpTo
    <3>2. iter[1..i] = iter[1..(i - 1)] \o pins[i].chunks
      BY <1>11, <3>1
    <3>3. QED
      BY <1>4, <2>2, <3>2
  <2>3. QED
    BY <2>1, <2>2, FoldStays
<1>13. Query!Wanted(pins) \in Seq(Fragments)
  BY <1>2, <1>8, <1>12
<1>14. ASSUME pins = <<>> PROVE Query!Wanted(pins) = <<>>
  <2>1. n = 0 /\ 1..n = {}
    BY <1>2, <1>14
  <2>2. iter[DOMAIN pins] = <<>>
    BY <1>2, <1>11, <2>1
  <2>3. QED
    BY <1>8, <2>2
<1>15. QED
  BY <1>13, <1>14

\* Fusing listings one after the other into a listing.
LEMMA FusedOneByOne ==
    ASSUME NEW S, NEW base \in Listing(S), NEW extras \in Seq(Listing(S))
    PROVE  /\ Query!FoldLeft(Query!RrfMerge, base, extras) \in Listing(S)
           /\ Hybrid!In(base) \in SUBSET Hybrid!In(Query!FoldLeft(Query!RrfMerge, base, extras))
<1>1. PICK n \in Nat : n = Len(extras) /\ DOMAIN extras = 1..n
  OBVIOUS
<1>2. PICK A : A = {l \in Listing(S) : Hybrid!In(base) \in SUBSET Hybrid!In(l)}
  OBVIOUS
<1>3. PICK step : step = [x \in 1..n |-> [a \in A |-> Query!RrfMerge(a, extras[x])]]
  OBVIOUS
<1>4. base \in A /\ \A x \in 1..n : extras[x] \in Listing(S)
  BY <1>1, <1>2
<1>5. \A a \in A : \A b \in Listing(S) : Query!RrfMerge(a, b) \in A
  BY <1>2, FusedIsAListing
<1>6. step \in [1..n -> [A -> A]]
  BY <1>3, <1>4, <1>5
<1>7. PICK f \in [SUBSET (1..n) -> A] : FoldsPlaces(f, n, base, step)
  BY <1>4, <1>6, FoldsByPlaces
<1>8. \A s \in SUBSET (1..n) :
        f[s] = IF s = {} THEN base ELSE Query!RrfMerge(f[s \ {Query!Max(s)}], extras[Query!Max(s)])
  <2> SUFFICES ASSUME NEW s \in SUBSET (1..n)
               PROVE  f[s] = IF s = {} THEN base ELSE Query!RrfMerge(f[s \ {Max(s)}], extras[Max(s)])
    BY SameMax
  <2>1. CASE s = {}
    BY <1>7, <2>1 DEF FoldsPlaces
  <2>2. CASE s # {}
    <3>1. f[s \ {Max(s)}] \in A /\ Max(s) \in 1..n
      BY <2>2, LastPlaces
    <3>2. f[s] = step[Max(s)][f[s \ {Max(s)}]]
      BY <1>7, <2>2 DEF FoldsPlaces
    <3>3. QED
      BY <1>3, <2>2, <3>1, <3>2
  <2>3. QED
    BY <2>1, <2>2
<1> DEFINE iter[s \in SUBSET DOMAIN extras] ==
             IF s = {} THEN base ELSE LET x == Query!Max(s) IN Query!RrfMerge(iter[s \ {x}], extras[x])
<1>9. Query!FoldLeft(Query!RrfMerge, base, extras) = iter[DOMAIN extras]
  BY DEF Query!FoldLeft, Query!MapThenFoldSet
<1>10. f = [s \in SUBSET DOMAIN extras |->
             IF s = {} THEN base ELSE LET x == Query!Max(s) IN Query!RrfMerge(f[s \ {x}], extras[x])]
  BY <1>1, <1>8
<1>11. iter = [s \in SUBSET DOMAIN extras |->
             IF s = {} THEN base ELSE LET x == Query!Max(s) IN Query!RrfMerge(iter[s \ {x}], extras[x])]
  BY <1>10, Zenon
<1> HIDE DEF iter
<1>12. \A s \in SUBSET (1..n) :
         iter[s] = IF s = {} THEN base ELSE Query!RrfMerge(iter[s \ {Max(s)}], extras[Max(s)])
  BY <1>1, <1>11, SameMax
<1>13. iter[1..n] \in A
  <2>1. iter[{}] \in A
    <3>1. {} \in SUBSET (1..n)
      OBVIOUS
    <3>2. iter[{}] = base
      BY <1>12, <3>1
    <3>3. QED
      BY <1>4, <3>2
  <2>2. ASSUME NEW i \in 1..n, iter[1..(i - 1)] \in A PROVE iter[1..i] \in A
    <3>1. 1..i \in SUBSET (1..n) /\ 1..i # {} /\ Max(1..i) = i /\ (1..i) \ {i} = 1..(i - 1)
      BY PlacesUpTo
    <3>2. iter[1..i] = Query!RrfMerge(iter[1..(i - 1)], extras[i])
      BY <1>12, <3>1
    <3>3. QED
      BY <1>4, <1>5, <2>2, <3>2
  <2>3. QED
    BY <2>1, <2>2, FoldStays
<1>14. QED
  BY <1>1, <1>2, <1>9, <1>13

\* What the pins put in and what is left of the list beside them.
LEMMA PinsPart ==
    ASSUME NEW pins \in Seq(PinRecord), NEW list \in Listing(Fragments)
    PROVE  /\ Query!Natural(list, pins) \in Listing(Fragments)
           /\ Hybrid!In(Query!Natural(list, pins)) = Hybrid!In(list) \ Query!Demoted(pins)
           /\ Query!Injected(list, pins) \in Listing(Fragments)
           /\ Hybrid!In(Query!Injected(list, pins))
                = Query!Range(Query!Wanted(pins)) \ Hybrid!In(Query!Natural(list, pins))
<1>1. PICK places : places = {i \in DOMAIN list : list[i] \notin Query!Demoted(pins)}
  OBVIOUS
<1>2. list \in Seq(Fragments) /\ \A i, j \in DOMAIN list : list[i] = list[j] => i = j
  BY DEF Listing
<1>3. PICK natural : natural = Query!Only(list, places) /\ Query!Natural(list, pins) = natural
  BY <1>1 DEF Query!Natural
<1>4. places \in SUBSET DOMAIN list
  BY <1>1
<1>5. /\ natural \in Listing(Fragments)
      /\ \A x : x \in Hybrid!In(natural) <=> \E i \in places : list[i] = x
  BY <1>2, <1>3, <1>4, SelectedIsAListing
<1>6. Hybrid!In(natural) = Hybrid!In(list) \ Query!Demoted(pins)
  BY <1>1, <1>5 DEF Hybrid!In, Hybrid!Range
<1>7. PICK wanted \in Seq(Fragments) : wanted = Query!Wanted(pins)
  BY WantedIsASequence
<1>8. PICK first : first = {i \in DOMAIN wanted : /\ wanted[i] \notin Hybrid!In(natural)
                                                  /\ \A j \in 1..(i - 1) : wanted[j] # wanted[i]}
  OBVIOUS
<1>9. Query!Injected(list, pins) = Query!Only(wanted, first)
  BY <1>3, <1>7, <1>8, OneFusion DEF Query!Injected
<1>10. \A i, j \in first : wanted[i] = wanted[j] => i = j
  <2> SUFFICES ASSUME NEW i \in first, NEW j \in first, wanted[i] = wanted[j], i < j PROVE FALSE
    BY <1>8
  <2>1. i \in 1..(j - 1)
    BY <1>8
  <2>2. QED
    BY <1>8, <2>1
<1>11. first \in SUBSET DOMAIN wanted
  BY <1>8
<1>12. /\ Query!Only(wanted, first) \in Listing(Fragments)
       /\ \A x : x \in Hybrid!In(Query!Only(wanted, first)) <=> \E i \in first : wanted[i] = x
  BY <1>7, <1>10, <1>11, SelectedIsAListing
<1>13. \A x \in Query!Range(wanted) \ Hybrid!In(natural) : \E i \in first : wanted[i] = x
  <2> SUFFICES ASSUME NEW x \in Query!Range(wanted) \ Hybrid!In(natural)
               PROVE  \E i \in first : wanted[i] = x
    OBVIOUS
  <2>1. PICK T : T = {i \in DOMAIN wanted : wanted[i] = x}
    OBVIOUS
  <2>2. T # {} /\ T \in SUBSET Nat
    BY <2>1 DEF Query!Range
  <2>3. PICK i \in T : \A j \in T : i <= j
    BY <2>2, LeastNumberOf
  <2>4. \A j \in 1..(i - 1) : j \notin T /\ j \in DOMAIN wanted
    BY <2>1, <2>3
  <2>5. i \in first
    BY <1>8, <2>1, <2>4
  <2>6. QED
    BY <2>1, <2>5
<1>14. \A x : (\E i \in first : wanted[i] = x) => x \in Query!Range(wanted) \ Hybrid!In(natural)
  BY <1>8 DEF Query!Range
<1>15. Hybrid!In(Query!Only(wanted, first)) = Query!Range(wanted) \ Hybrid!In(natural)
  BY <1>12, <1>13, <1>14
<1>16. QED
  BY <1>3, <1>5, <1>6, <1>7, <1>9, <1>12, <1>15

\* Two listings that have nothing in common, one after the other.
LEMMA JoinIsAListing ==
    ASSUME NEW S, NEW a \in Listing(S), NEW b \in Listing(S), Hybrid!In(a) \cap Hybrid!In(b) = {}
    PROVE  /\ a \o b \in Listing(S) /\ Hybrid!In(a \o b) = Hybrid!In(a) \cup Hybrid!In(b)
           /\ Len(a \o b) = Len(a) + Len(b)
           /\ \A i \in DOMAIN a : (a \o b)[i] = a[i]
<1>1. /\ a \in Seq(S) /\ b \in Seq(S)
      /\ \A i, j \in DOMAIN a : a[i] = a[j] => i = j
      /\ \A i, j \in DOMAIN b : b[i] = b[j] => i = j
  BY DEF Listing
<1>2. /\ Len(a) \in Nat /\ DOMAIN a = 1..Len(a) /\ Len(b) \in Nat /\ DOMAIN b = 1..Len(b)
  BY <1>1
<1>3. PICK l : l = a \o b
  OBVIOUS
<1>4. /\ l \in Seq(S) /\ Len(l) = Len(a) + Len(b) /\ DOMAIN l = 1..(Len(a) + Len(b))
      /\ \A i \in 1..Len(a) : l[i] = a[i]
      /\ \A i \in 1..(Len(a) + Len(b)) : i > Len(a) => l[i] = b[i - Len(a)]
  BY <1>1, <1>2, <1>3
<1>5. \A i \in 1..Len(a), j \in 1..Len(b) : a[i] # b[j]
  BY <1>2 DEF Hybrid!In, Hybrid!Range
<1>6. ASSUME NEW i \in DOMAIN l, NEW j \in DOMAIN l, l[i] = l[j], i < j PROVE FALSE
  <2>1. CASE j <= Len(a)
    BY <1>1, <1>2, <1>4, <1>6, <2>1
  <2>2. CASE i > Len(a)
    <3>1. i - Len(a) \in DOMAIN b /\ j - Len(a) \in DOMAIN b /\ i - Len(a) # j - Len(a)
      BY <1>2, <1>4, <1>6, <2>2
    <3>2. l[i] = b[i - Len(a)] /\ l[j] = b[j - Len(a)]
      BY <1>2, <1>4, <1>6, <2>2
    <3>3. QED
      BY <1>1, <1>6, <3>1, <3>2
  <2>3. CASE i <= Len(a) /\ j > Len(a)
    <3>1. i \in 1..Len(a) /\ j - Len(a) \in 1..Len(b) /\ l[i] = a[i] /\ l[j] = b[j - Len(a)]
      BY <1>2, <1>4, <2>3
    <3>2. QED
      BY <1>5, <1>6, <3>1
  <2>4. QED
    BY <1>2, <1>4, <1>6, <2>1, <2>2, <2>3
<1>7. \A i, j \in DOMAIN l : l[i] = l[j] => i = j
  BY <1>4, <1>6
<1>8. l \in Listing(S)
  BY <1>4, <1>7 DEF Listing
<1>9. ASSUME NEW x \in Hybrid!In(l) PROVE x \in Hybrid!In(a) \cup Hybrid!In(b)
  <2>1. PICK i \in 1..(Len(a) + Len(b)) : l[i] = x
    BY <1>4 DEF Hybrid!In, Hybrid!Range
  <2>2. CASE i <= Len(a)
    BY <1>2, <1>4, <2>1, <2>2 DEF Hybrid!In, Hybrid!Range
  <2>3. CASE i > Len(a)
    <3>1. i - Len(a) \in DOMAIN b /\ b[i - Len(a)] = x
      BY <1>2, <1>4, <2>1, <2>3
    <3>2. QED
      BY <3>1 DEF Hybrid!In, Hybrid!Range
  <2>4. QED
    BY <1>2, <2>1, <2>2, <2>3
<1>10. ASSUME NEW x \in Hybrid!In(a) PROVE x \in Hybrid!In(l)
  BY <1>2, <1>4 DEF Hybrid!In, Hybrid!Range
<1>11. ASSUME NEW x \in Hybrid!In(b) PROVE x \in Hybrid!In(l)
  <2>1. PICK i \in 1..Len(b) : b[i] = x
    BY <1>2 DEF Hybrid!In, Hybrid!Range
  <2>2. i + Len(a) \in 1..(Len(a) + Len(b)) /\ (i + Len(a)) - Len(a) = i /\ i + Len(a) > Len(a)
    BY <1>2
  <2>3. l[i + Len(a)] = x /\ i + Len(a) \in DOMAIN l
    BY <1>4, <2>1, <2>2
  <2>4. QED
    BY <2>3 DEF Hybrid!In, Hybrid!Range
<1>12. Hybrid!In(l) = Hybrid!In(a) \cup Hybrid!In(b)
  BY <1>9, <1>10, <1>11
<1>13. QED
  BY <1>2, <1>3, <1>4, <1>8, <1>12

LEMMA ReverseIsAListing ==
    ASSUME NEW S, NEW a \in Listing(S)
    PROVE  /\ Query!Reverse(a) \in Listing(S) /\ Hybrid!In(Query!Reverse(a)) = Hybrid!In(a)
           /\ Len(Query!Reverse(a)) = Len(a)
<1>1. /\ a \in Seq(S) /\ Len(a) \in Nat /\ DOMAIN a = 1..Len(a) /\ a \in [1..Len(a) -> S]
      /\ \A i, j \in DOMAIN a : a[i] = a[j] => i = j
  BY SequenceIsFunction DEF Listing
<1>2. PICK n \in Nat : n = Len(a)
  BY <1>1
<1>3. PICK r : r = Query!Reverse(a)
  OBVIOUS
<1>4. r = [i \in 1..n |-> a[(n - i) + 1]]
  BY <1>2, <1>3 DEF Query!Reverse
<1>5. \A i \in 1..n : (n - i) + 1 \in 1..n /\ (n - ((n - i) + 1)) + 1 = i
  OBVIOUS
<1>6. r \in [1..n -> S]
  BY <1>1, <1>2, <1>4, <1>5
<1>7. r \in Seq(S) /\ Len(r) = n /\ DOMAIN r = 1..n
  BY <1>6, FunctionIsSequence
<1>8. \A i, j \in 1..n : r[i] = r[j] => i = j
  BY <1>1, <1>2, <1>4, <1>5
<1>9. r \in Listing(S)
  BY <1>7, <1>8 DEF Listing
<1>10. \A x : (\E i \in 1..n : r[i] = x) <=> (\E i \in 1..n : a[i] = x)
  BY <1>4, <1>5
<1>11. Hybrid!In(r) = Hybrid!In(a)
  <2>1. \A x : x \in Hybrid!In(r) <=> \E i \in 1..n : r[i] = x
    BY <1>7 DEF Hybrid!In, Hybrid!Range
  <2>2. \A x : x \in Hybrid!In(a) <=> \E i \in 1..n : a[i] = x
    BY <1>1, <1>2 DEF Hybrid!In, Hybrid!Range
  <2>3. QED
    BY <1>10, <2>1, <2>2
<1>12. QED
  BY <1>2, <1>3, <1>7, <1>9, <1>11

LEMMA ExtrasAre ==
    ASSUME NEW S, NEW extra \in Seq(Listing(S))
    PROVE  /\ Query!Extras(extra) \in Seq(Listing(S))
           /\ (\A i \in DOMAIN extra : extra[i] = <<>>) => Query!Extras(extra) = <<>>
<1>1. PICK L : L = Listing(S)
  OBVIOUS
<1>2. PICK places : places = {i \in DOMAIN extra : extra[i] # <<>>}
  OBVIOUS
<1>3. Query!Extras(extra) = Only(extra, places)
  BY <1>2, SameSelection DEF Query!Extras
<1>4. extra \in Seq(L) /\ places \in SUBSET DOMAIN extra
  BY <1>1, <1>2
<1>5. Only(extra, places) \in Seq(L)
  BY <1>4, OnlyTakesThePlaces
<1>6. ASSUME places = {} PROVE Only(extra, places) = <<>>
  <2>1. Cardinality(places) = 0
    BY <1>6, FS_EmptySet
  <2>2. Only(extra, places) = [k \in 1..0 |-> extra[Nth(places, k)]]
    BY <2>1 DEF Only
  <2>3. QED
    BY <2>2
<1>7. QED
  BY <1>1, <1>2, <1>3, <1>5, <1>6

\* What the pins and their rewrites do to a list.
Rewritten(extra) == UNION {Query!In(extra[i]) : i \in DOMAIN extra}
Overlaid(out, list, pins, rewrites, pinned) ==
    /\ out \in Listing(Fragments)
    /\ Hybrid!In(out) \in SUBSET (Hybrid!In(list) \cup pinned \cup rewrites)
    /\ Hybrid!In(list) \in SUBSET (Hybrid!In(out) \cup Query!Demoted(pins))
    /\ rewrites = {} =>
         /\ Hybrid!In(out) \cap Query!Demoted(pins) \in SUBSET pinned
         /\ \A k \in Nat : Cardinality(pinned) <= k =>
               pinned \ Hybrid!In(list) \in SUBSET Hybrid!In(Hybrid!Cut(out, k))

LEMMA OverlayIs ==
    ASSUME NEW pins \in Seq(PinRecord), NEW list \in Listing(Fragments),
           NEW m \in Nat, NEW extra \in [1..m -> Listing(Fragments)]
    PROVE  Overlaid(Query!Overlay(list, pins, extra), list, pins, Rewritten(extra),
                    Query!Range(Query!Wanted(pins)))
<1>1. PICK rewrites : rewrites = UNION {Query!In(extra[i]) : i \in DOMAIN extra} /\ rewrites = Rewritten(extra)
  BY DEF Rewritten
<1>2. PICK out : out = Query!Overlay(list, pins, extra)
  OBVIOUS
<1>3. PICK pinned : pinned = Query!Range(Query!Wanted(pins))
  OBVIOUS
<1>4. PICK natural \in Listing(Fragments) : natural = Query!Natural(list, pins)
  BY PinsPart
<1>5. PICK injected \in Listing(Fragments) : injected = Query!Injected(list, pins)
  BY PinsPart
<1>6. /\ Hybrid!In(natural) = Hybrid!In(list) \ Query!Demoted(pins)
      /\ Hybrid!In(injected) = pinned \ Hybrid!In(natural)
  BY <1>3, <1>4, <1>5, PinsPart
<1>7. PICK S : S = Hybrid!In(natural) \cup Hybrid!In(injected) \cup rewrites
  OBVIOUS
<1>8. S \in SUBSET Fragments
  <2>1. \A i \in DOMAIN extra : Query!In(extra[i]) \in SUBSET Fragments
    <3> TAKE i \in DOMAIN extra
    <3>1. PICK l \in Listing(Fragments) : l = extra[i]
      OBVIOUS
    <3>2. Hybrid!In(l) \in SUBSET Fragments
      BY PlacesOfAListing
    <3>3. QED
      BY <3>1, <3>2, OneFusion
  <2>2. rewrites \in SUBSET Fragments
    BY <1>1, <2>1
  <2>3. QED
    BY <1>7, <2>2, PlacesOfAListing
<1>9. natural \in Listing(S) /\ injected \in Listing(S)
  BY <1>7, ListingsWiden
<1>10. ASSUME NEW l \in Listing(S) PROVE l \in Listing(Fragments) /\ Hybrid!In(l) \in SUBSET S
  <2>1. Hybrid!In(l) \in SUBSET S
    BY PlacesOfAListing
  <2>2. Hybrid!In(l) \in SUBSET Fragments
    BY <1>8, <2>1
  <2>3. QED
    BY <2>1, <2>2, ListingsWiden
<1>11. extra \in Seq(Listing(S)) /\ DOMAIN extra = 1..m
  <2>1. \A i \in 1..m : extra[i] \in Listing(Fragments) /\ Hybrid!In(extra[i]) \in SUBSET S
    BY <1>1, <1>7, OneFusion
  <2>2. \A i \in 1..m : extra[i] \in Listing(S)
    BY <2>1, ListingsWiden
  <2>3. PICK L : L = Listing(S)
    OBVIOUS
  <2>4. extra \in [1..m -> L]
    BY <2>2, <2>3
  <2>5. QED
    BY <2>3, <2>4, FunctionIsSequence
<1>12. S \in SUBSET (Hybrid!In(list) \cup pinned \cup rewrites)
  BY <1>6, <1>7
<1>13. PICK extras \in Seq(Listing(S)) : extras = Query!Extras(extra)
  BY <1>11, ExtrasAre
<1>14. out = IF extras = <<>> THEN Query!Reverse(injected) \o natural
             ELSE Query!FoldLeft(Query!RrfMerge, natural \o injected, extras)
  BY <1>2, <1>4, <1>5, <1>13 DEF Query!Overlay
<1>15. Hybrid!In(natural) \cap Hybrid!In(injected) = {}
  BY <1>6
<1>16. ASSUME extras # <<>> PROVE Overlaid(out, list, pins, rewrites, pinned)
  <2>1. natural \o injected \in Listing(S)
    BY <1>9, <1>15, JoinIsAListing
  <2>2. /\ out \in Listing(S)
        /\ Hybrid!In(natural) \in SUBSET Hybrid!In(out)
    <3>1. Hybrid!In(natural \o injected) = Hybrid!In(natural) \cup Hybrid!In(injected)
      BY <1>9, <1>15, JoinIsAListing
    <3>2. PICK base \in Listing(S) : base = natural \o injected
      BY <2>1
    <3>3. out = Query!FoldLeft(Query!RrfMerge, base, extras)
      BY <1>14, <1>16, <3>2
    <3>4. out \in Listing(S) /\ Hybrid!In(base) \in SUBSET Hybrid!In(out)
      BY <3>3, FusedOneByOne
    <3>5. QED
      BY <3>1, <3>2, <3>4
  <2>3. rewrites # {}
    <3> SUFFICES ASSUME rewrites = {} PROVE FALSE
      OBVIOUS
    <3>1. \A i \in DOMAIN extra : Hybrid!In(extra[i]) = {}
      BY <1>1, OneFusion
    <3>2. ASSUME NEW i \in DOMAIN extra PROVE extra[i] = <<>>
      <4>1. extra[i] \in Listing(Fragments)
        BY <1>11
      <4>2. extra[i] \in Seq(Fragments)
        BY <4>1 DEF Listing
      <4>3. PICK l : l = extra[i]
        OBVIOUS
      <4>4. Hybrid!In(l) = {}
        BY <3>1, <4>3
      <4>5. DOMAIN l = 1..Len(l) /\ \A j \in DOMAIN l : l[j] \in Hybrid!In(l)
        BY <4>1, <4>3, PlacesOfAListing
      <4>6. l \in Seq(Fragments) /\ DOMAIN l = {}
        BY <4>2, <4>3, <4>4, <4>5
      <4>7. l = <<>>
        BY <4>6
      <4>8. QED
        BY <4>3, <4>7
    <3>3. QED
      BY <1>11, <1>13, <1>16, <3>2, ExtrasAre
  <2>4. Hybrid!In(list) \in SUBSET (Hybrid!In(out) \cup Query!Demoted(pins))
    BY <1>6, <2>2
  <2>5. QED
    BY <1>10, <1>12, <2>2, <2>3, <2>4 DEF Overlaid
<1>17. ASSUME extras = <<>> PROVE Overlaid(out, list, pins, rewrites, pinned)
  <2>1. PICK r : r = Query!Reverse(injected)
    OBVIOUS
  <2>2. r \in Listing(S) /\ Hybrid!In(r) = Hybrid!In(injected) /\ Len(r) = Len(injected)
    BY <1>9, <2>1, ReverseIsAListing
  <2>3. out = r \o natural
    BY <1>14, <1>17, <2>1
  <2>4. /\ out \in Listing(S) /\ Hybrid!In(out) = Hybrid!In(injected) \cup Hybrid!In(natural)
        /\ Len(out) = Len(r) + Len(natural)
        /\ \A i \in DOMAIN r : out[i] = r[i]
    <3>1. Hybrid!In(r) \cap Hybrid!In(natural) = {}
      BY <1>15, <2>2
    <3>2. /\ r \o natural \in Listing(S)
          /\ Hybrid!In(r \o natural) = Hybrid!In(r) \cup Hybrid!In(natural)
          /\ Len(r \o natural) = Len(r) + Len(natural)
          /\ \A i \in DOMAIN r : (r \o natural)[i] = r[i]
      <4>1. PICK a \in Listing(S), b \in Listing(S) : a = r /\ b = natural
        BY <1>9, <2>2
      <4>2. Hybrid!In(a) \cap Hybrid!In(b) = {}
        BY <3>1, <4>1
      <4>3. /\ a \o b \in Listing(S) /\ Hybrid!In(a \o b) = Hybrid!In(a) \cup Hybrid!In(b)
            /\ Len(a \o b) = Len(a) + Len(b)
            /\ \A i \in DOMAIN a : (a \o b)[i] = a[i]
        BY <4>2, JoinIsAListing
      <4>4. QED
        BY <4>1, <4>3
    <3>3. QED
      BY <2>2, <2>3, <3>2
  <2>5. Hybrid!In(out) \cap Query!Demoted(pins) \in SUBSET pinned
    BY <1>6, <2>4
  <2>6. ASSUME NEW k \in Nat, Cardinality(pinned) <= k
        PROVE  pinned \ Hybrid!In(list) \in SUBSET Hybrid!In(Hybrid!Cut(out, k))
    <3>1. pinned \ Hybrid!In(list) \in SUBSET Hybrid!In(injected)
      BY <1>6
    <3>2. IsFiniteSet(pinned)
      <4>1. PICK wanted \in Seq(Fragments) : wanted = Query!Wanted(pins)
        BY WantedIsASequence
      <4>2. IsFiniteSet(1..Len(wanted))
        BY FS_Interval
      <4>3. PICK places : places = DOMAIN wanted
        OBVIOUS
      <4>4. IsFiniteSet(places)
        BY <4>2, <4>3
      <4>5. pinned = {wanted[i] : i \in places}
        BY <1>3, <4>1, <4>3 DEF Query!Range
      <4>6. wanted \in Surjection(places, pinned)
        BY <4>1, <4>3, <4>5 DEF Surjection
      <4>7. QED
        BY <4>4, <4>6, FS_Surjection
    <3>3. Cardinality(Hybrid!In(injected)) <= Cardinality(pinned) /\ Cardinality(pinned) \in Nat
      <4>1. Hybrid!In(injected) \in SUBSET pinned
        BY <1>6
      <4>2. QED
        BY <3>2, <4>1, FS_Subset, FS_CardinalityType
    <3>4. Cardinality(Hybrid!In(injected)) = Len(injected) /\ Len(injected) \in Nat /\ Len(r) <= k
      BY <2>2, <2>6, <3>3, PlacesOfAListing
    <3>5. /\ DOMAIN r = 1..Len(r) /\ Len(natural) \in Nat /\ Len(out) \in Nat /\ Len(r) <= Len(out)
      BY <2>2, <2>4, <3>4, PlacesOfAListing
    <3>6. PICK cut : cut = Hybrid!Cut(out, k)
      OBVIOUS
    <3>7. /\ cut \in Listing(S) /\ Len(cut) = IF Len(out) < k THEN Len(out) ELSE k
          /\ \A i \in DOMAIN cut : cut[i] = out[i]
      BY <2>4, <3>6, CutIsAListing
    <3>8. ASSUME NEW x \in Hybrid!In(injected) PROVE x \in Hybrid!In(cut)
      <4>1. PICK i \in DOMAIN r : r[i] = x
        BY <2>2 DEF Hybrid!In, Hybrid!Range
      <4>2. i \in DOMAIN cut
        BY <3>4, <3>5, <3>7, <4>1, PlacesOfAListing
      <4>3. cut[i] = x
        BY <2>4, <3>7, <4>1, <4>2
      <4>4. QED
        BY <4>2, <4>3 DEF Hybrid!In, Hybrid!Range
    <3>9. QED
      BY <3>1, <3>6, <3>8
  <2>7. Hybrid!In(list) \in SUBSET (Hybrid!In(out) \cup Query!Demoted(pins))
    BY <1>6, <2>4
  <2>8. QED
    BY <1>10, <1>12, <2>4, <2>5, <2>6, <2>7 DEF Overlaid
<1>18. QED
  BY <1>1, <1>2, <1>3, <1>16, <1>17

Missing == Query!Pinned \ (Hybrid!In(seen.candidates) \cup Hybrid!In(seen.merged))

\* What is in hand before the pins, after them, and once it is cut.
BeforePins ==
    /\ stage \in {"asked", "retrieved", "scored", "reranked"} =>
         Hybrid!In(scored) \in SUBSET Hybrid!In(seen.merged)
    /\ stage \in {"scored", "reranked"} /\ seen.candidates # <<>> =>
         Hybrid!In(scored) \in SUBSET Hybrid!In(seen.candidates)
AfterPins ==
    stage \in {"pinned", "generated", "grounded", "answered"} =>
        /\ seen.candidates # <<>> =>
             Hybrid!In(scored) \in SUBSET (Hybrid!In(seen.candidates) \cup Query!Pinned \cup seen.rewrites)
        /\ seen.rewrites = {} =>
             Hybrid!In(scored) \cap Query!Demoted(ask.pins) \in SUBSET Query!Pinned
Found ==
    /\ stage \in {"retrieved", "scored"} =>
         Hybrid!In(seen.merged) \in SUBSET (Hybrid!In(scored) \cup Query!Repeated)
    /\ stage = "scored" /\ "reranker" \in ask.steps => Len(seen.reranked) = Len(scored)
    /\ stage = "reranked" =>
         \/ Hybrid!In(seen.merged) \in SUBSET (Hybrid!In(scored) \cup Query!Repeated)
         \/ Len(seen.reranked) > ask.k
    /\ stage = "pinned" =>
         \/ Hybrid!In(seen.merged) \in
              SUBSET (Hybrid!In(scored) \cup Query!Repeated \cup Query!Demoted(ask.pins))
         \/ Len(seen.reranked) > ask.k
    /\ Query!HasContext =>
         \/ Hybrid!In(seen.merged) \in
              SUBSET (Hybrid!In(scored) \cup Query!Repeated \cup Query!Demoted(ask.pins))
         \/ Len(scored) = ask.k
         \/ Len(seen.reranked) > ask.k
OnceCut ==
    /\ stage = "pinned" /\ seen.rewrites = {} /\ Cardinality(Query!Pinned) <= ask.k =>
         Missing \in SUBSET Hybrid!In(Hybrid!Cut(scored, ask.k))
    /\ Query!HasContext => Len(scored) <= ask.k
Answered ==
    /\ stage \in {"grounded", "answered"} /\ "grounder" \in ask.steps => grounding # Query!None
    /\ Query!NothingFoundIsRefused

QueryInv ==
    /\ ask.k \in Nat \ {0} /\ ask.pins \in Seq(PinRecord)
    /\ scored \in Listing(Fragments)
    /\ seen \in [merged : Listing(Fragments), reranked : Listing(Fragments),
                 candidates : Listing(Fragments), rewrites : SUBSET Fragments]
    /\ BeforePins /\ AfterPins /\ Found /\ OnceCut /\ Answered

\* Where nothing moves, what repeats a text and what was found stay the same.
LEMMA RepeatedStays == ASSUME seen'.merged = seen.merged PROVE Query!Repeated' = Query!Repeated
BY DEF Query!Repeated, Query!In, Query!Range

LEMMA NothingIsAListing == ASSUME NEW S PROVE <<>> \in Listing(S) /\ Hybrid!In(<<>>) = {}
BY DEF Listing, Hybrid!In, Hybrid!Range

LEMMA QueryInit == Query!Init => QueryInv
<1> SUFFICES ASSUME Query!Init PROVE QueryInv
  OBVIOUS
<1>1. /\ stage = "asked" /\ scored = <<>>
      /\ seen = [merged |-> <<>>, reranked |-> <<>>, candidates |-> <<>>, rewrites |-> {}]
      /\ \E w \in Windows, pins \in Pinnings, steps \in Configured :
            ask = [k |-> w.k, fetch |-> w.fetch, pins |-> pins, steps |-> steps]
  BY DEF Query!Init
<1>2. ask.k \in Nat \ {0} /\ ask.pins \in Seq(PinRecord)
  <2>1. PICK w \in Windows, pins \in Pinnings, steps \in Configured :
          ask = [k |-> w.k, fetch |-> w.fetch, pins |-> pins, steps |-> steps]
    BY <1>1
  <2>2. pins \in Seq(PinRecord)
    BY QueryAssumption DEF Query!Assumptions, PinRecord
  <2>3. w.k \in Nat \ {0}
    <3>1. w \in {v \in [k : Nat \ {0}, fetch : Nat] : v.k <= v.fetch}
      BY QueryAssumption DEF Query!Assumptions
    <3>2. QED
      BY <3>1
  <2>4. ask.k = w.k /\ ask.pins = pins
    BY <2>1
  <2>5. QED
    BY <2>2, <2>3, <2>4
<1>3. seen \in [merged : Listing(Fragments), reranked : Listing(Fragments),
                candidates : Listing(Fragments), rewrites : SUBSET Fragments]
  BY <1>1, NothingIsAListing
<1>4. BeforePins
  BY <1>1, NothingIsAListing DEF BeforePins
<1>5. AfterPins /\ Found /\ OnceCut /\ Answered
  BY <1>1 DEF AfterPins, Found, OnceCut, Answered, Query!HasContext, Query!NothingFoundIsRefused
<1>6. QED
  BY <1>1, <1>2, <1>3, <1>4, <1>5, NothingIsAListing DEF QueryInv

LEMMA RetrieveKeeps == ASSUME QueryInv, Query!Retrieve PROVE QueryInv'
<1>1. /\ stage = "asked" /\ stage' = "retrieved"
      /\ UNCHANGED <<ask, reply, grounding, counted, answer>>
  BY DEF Query!Retrieve
<1>2. PICK list \in Query!Lists(ask.fetch) :
        scored' = Query!Deduped(list) /\ seen' = [seen EXCEPT !.merged = list]
  BY DEF Query!Retrieve
<1>3. list \in Listing(Fragments)
  BY <1>2, ListsAreListings
<1>4. list \in Seq(Fragments) /\ \A i, j \in DOMAIN list : list[i] = list[j] => i = j
  BY <1>3 DEF Listing
<1>5. PICK places : /\ places = {i \in DOMAIN list : \A j \in 1..(i - 1) : Text[list[j]] # Text[list[i]]}
                    /\ scored' = Query!Only(list, places)
  BY <1>2 DEF Query!Deduped
<1>6. places \in SUBSET DOMAIN list
  BY <1>5
<1>7. /\ scored' \in Listing(Fragments)
      /\ \A x : x \in Hybrid!In(scored') <=> \E i \in places : list[i] = x
  BY <1>4, <1>5, <1>6, SelectedIsAListing
<1>8. Hybrid!In(scored') \in SUBSET Hybrid!In(list)
  BY <1>6, <1>7 DEF Hybrid!In, Hybrid!Range
<1>9. /\ seen' \in [merged : Listing(Fragments), reranked : Listing(Fragments),
                    candidates : Listing(Fragments), rewrites : SUBSET Fragments]
      /\ seen'.merged = list
  BY <1>2, <1>3 DEF QueryInv
<1>10. BeforePins'
  BY <1>1, <1>8, <1>9 DEF BeforePins, Hybrid!In, Hybrid!Range
<1>11. (AfterPins /\ OnceCut /\ Answered)'
  BY <1>1 DEF AfterPins, OnceCut, Answered, Query!HasContext, Query!NothingFoundIsRefused
<1>12. Hybrid!In(list) \in SUBSET (Hybrid!In(scored') \cup Query!Repeated')
  <2> SUFFICES ASSUME NEW i \in DOMAIN list, i \notin places PROVE list[i] \in Query!Repeated'
    BY <1>7 DEF Hybrid!In, Hybrid!Range
  <2>1. PICK j \in 1..(i - 1) : Text[list[j]] = Text[list[i]]
    BY <1>5
  <2>2. i \in 1..Len(list) /\ Len(list) \in Nat
    BY <1>4
  <2>3. j \in DOMAIN list /\ j < i
    BY <1>4, <2>1, <2>2
  <2>4. QED
    BY <1>9, <2>1, <2>3 DEF Query!Repeated, Query!In, Query!Range
<1>13. Found'
  BY <1>1, <1>9, <1>12 DEF Found, Query!HasContext, Hybrid!In, Hybrid!Range
<1>14. QED
  BY <1>1, <1>7, <1>9, <1>10, <1>11, <1>13 DEF QueryInv

LEMMA ScoreKeeps == ASSUME QueryInv, Query!Score PROVE QueryInv'
<1>1. /\ stage = "retrieved" /\ stage' = "scored"
      /\ UNCHANGED <<ask, reply, grounding, counted, answer>>
      /\ scored' = scored \/ scored' \in Query!Orders(scored)
  BY DEF Query!Score
<1>2. scored' \in Listing(Fragments) /\ Hybrid!In(scored') \in SUBSET Hybrid!In(scored)
  BY <1>1, OrdersAreListings DEF QueryInv
<1>3. PICK reranked, window :
        /\ seen' = [seen EXCEPT !.reranked = reranked, !.candidates = window]
        /\ reranked \in {scored', <<>>} /\ window \in {scored', <<>>}
  BY DEF Query!Score, Query!Window
<1>4. /\ seen' \in [merged : Listing(Fragments), reranked : Listing(Fragments),
                    candidates : Listing(Fragments), rewrites : SUBSET Fragments]
      /\ seen'.merged = seen.merged /\ seen'.candidates = window
  BY <1>2, <1>3, NothingIsAListing DEF QueryInv
<1>5. Hybrid!In(scored') \in SUBSET Hybrid!In(seen.merged)
  BY <1>1, <1>2 DEF QueryInv, BeforePins
<1>6. BeforePins'
  BY <1>1, <1>3, <1>4, <1>5 DEF BeforePins, Hybrid!In, Hybrid!Range
<1>7. (AfterPins /\ OnceCut /\ Answered)'
  BY <1>1 DEF AfterPins, OnceCut, Answered, Query!HasContext, Query!NothingFoundIsRefused
<1>8. Hybrid!In(scored') = Hybrid!In(scored)
  BY <1>1, OrdersAreListings DEF QueryInv
<1>9. "reranker" \in ask.steps => seen'.reranked = scored'
  BY DEF Query!Score, Query!Has, QueryInv
<1>10. Found'
  BY <1>1, <1>4, <1>8, <1>9, RepeatedStays DEF QueryInv, Found, Query!HasContext, Hybrid!In, Hybrid!Range
<1>11. QED
  BY <1>1, <1>2, <1>4, <1>6, <1>7, <1>10 DEF QueryInv

LEMMA RerankKeeps == ASSUME QueryInv, Query!Rerank PROVE QueryInv'
<1>1. /\ stage = "scored" /\ stage' = "reranked"
      /\ UNCHANGED <<ask, seen, reply, grounding, counted, answer>>
      /\ scored' = scored \/ \E l \in Query!Orders(scored) : scored' = Query!Cut(l, ask.k)
  BY DEF Query!Rerank
<1>2. scored' \in Listing(Fragments) /\ Hybrid!In(scored') \in SUBSET Hybrid!In(scored)
  <2>1. CASE scored' = scored
    BY <2>1 DEF QueryInv
  <2>2. CASE \E l \in Query!Orders(scored) : scored' = Query!Cut(l, ask.k)
    <3>1. PICK l \in Query!Orders(scored) : scored' = Hybrid!Cut(l, ask.k)
      BY <2>2, OneFusion
    <3>2. l \in Listing(Fragments) /\ Hybrid!In(l) \in SUBSET Hybrid!In(scored) /\ ask.k \in Nat
      BY <3>1, OrdersAreListings DEF QueryInv
    <3>3. scored' \in Listing(Fragments) /\ Hybrid!In(scored') \in SUBSET Hybrid!In(l)
      BY <3>1, <3>2, CutIsAListing
    <3>4. QED
      BY <3>2, <3>3
  <2>3. QED
    BY <1>1, <2>1, <2>2
<1>3. PICK now : now = Hybrid!In(scored')
  OBVIOUS
<1>4. /\ now \in SUBSET Hybrid!In(seen.merged)
      /\ seen.candidates # <<>> => now \in SUBSET Hybrid!In(seen.candidates)
  BY <1>1, <1>2, <1>3 DEF QueryInv, BeforePins
<1>5. BeforePins'
  BY <1>1, <1>3, <1>4 DEF BeforePins, Hybrid!In, Hybrid!Range
<1>6. (AfterPins /\ OnceCut /\ Answered)'
  BY <1>1 DEF AfterPins, OnceCut, Answered, Query!HasContext, Query!NothingFoundIsRefused
<1>7. Hybrid!In(scored') = Hybrid!In(scored) \/ Len(seen.reranked) > ask.k
  <2>1. CASE scored' = scored
    BY <2>1
  <2>2. CASE scored' # scored
    <3>1. PICK l \in Query!Orders(scored) : scored' = Hybrid!Cut(l, ask.k)
      BY <1>1, <2>2, OneFusion
    <3>2. /\ l \in Listing(Fragments) /\ Hybrid!In(l) = Hybrid!In(scored) /\ Len(l) = Len(scored)
          /\ ask.k \in Nat
      BY <3>1, OrdersAreListings DEF QueryInv
    <3>3. "reranker" \in ask.steps
      BY <2>2 DEF Query!Rerank, Query!Has
    <3>4. Len(seen.reranked) = Len(l)
      BY <1>1, <3>2, <3>3 DEF QueryInv, Found
    <3>5. Len(l) <= ask.k => Hybrid!In(Hybrid!Cut(l, ask.k)) = Hybrid!In(l)
      BY <3>2, AllOfAShortOne
    <3>6. Len(l) \in Nat
      BY <3>2, PlacesOfAListing
    <3>7. QED
      BY <3>1, <3>2, <3>4, <3>5, <3>6
  <2>3. QED
    BY <2>1, <2>2
<1>8. Found'
  BY <1>1, <1>7, RepeatedStays DEF QueryInv, Found, Query!HasContext, Hybrid!In, Hybrid!Range
<1>9. QED
  BY <1>1, <1>2, <1>5, <1>6, <1>8 DEF QueryInv

LEMMA PinKeeps == ASSUME QueryInv, Query!Pin PROVE QueryInv'
<1> DEFINE places == {i \in DOMAIN ask.pins : ask.pins[i].rewrite}
<1>1. /\ stage = "reranked" /\ stage' = "pinned"
      /\ UNCHANGED <<ask, reply, grounding, counted, answer>>
  BY DEF Query!Pin
<1>2. ask.pins \in Seq(PinRecord) /\ ask.k \in Nat /\ scored \in Listing(Fragments)
  BY DEF QueryInv
<1>3. PICK m : m = Query!Cardinality(places)
  OBVIOUS
<1>4. m \in Nat
  <2>1. IsFiniteSet(1..Len(ask.pins))
    BY <1>2, FS_Interval
  <2>2. PICK D : D = DOMAIN ask.pins
    OBVIOUS
  <2>3. IsFiniteSet(D)
    BY <1>2, <2>1, <2>2
  <2>4. PICK P : P = places
    OBVIOUS
  <2>5. P \in SUBSET D
    BY <2>2, <2>4
  <2>6. IsFiniteSet(P)
    BY <2>3, <2>5, FS_Subset
  <2>7. Cardinality(P) \in Nat
    BY <2>6, FS_CardinalityType
  <2>8. m = Cardinality(P)
    BY <1>3, <2>4 DEF Query!Cardinality, Cardinality
  <2>9. QED
    BY <2>7, <2>8
<1>5. PICK extra \in [1..m -> Query!Lists(ask.k)] :
        /\ scored' = IF ask.pins = <<>> THEN scored ELSE Query!Overlay(scored, ask.pins, extra)
        /\ seen' = [seen EXCEPT !.rewrites = UNION {Query!In(extra[i]) : i \in DOMAIN extra}]
  BY <1>3 DEF Query!Pin
<1>6. extra \in [1..m -> Listing(Fragments)]
  BY <1>5, ListsAreListings
<1>7. PICK rewrites : rewrites = UNION {Query!In(extra[i]) : i \in DOMAIN extra}
  OBVIOUS
<1>8. rewrites \in SUBSET Fragments
  <2>1. ASSUME NEW i \in DOMAIN extra PROVE Query!In(extra[i]) \in SUBSET Fragments
    <3>1. PICK l \in Listing(Fragments) : l = extra[i]
      BY <1>6
    <3>2. Hybrid!In(l) \in SUBSET Fragments
      BY PlacesOfAListing
    <3>3. QED
      BY <3>1, <3>2, OneFusion
  <2>2. QED
    BY <1>7, <2>1
<1>9. /\ seen' \in [merged : Listing(Fragments), reranked : Listing(Fragments),
                    candidates : Listing(Fragments), rewrites : SUBSET Fragments]
      /\ seen'.merged = seen.merged /\ seen'.candidates = seen.candidates /\ seen'.rewrites = rewrites
  BY <1>5, <1>7, <1>8 DEF QueryInv
<1>10. PICK pinned : pinned = Query!Range(Query!Wanted(ask.pins))
  OBVIOUS
<1>11. /\ scored' \in Listing(Fragments)
       /\ Hybrid!In(scored') \in SUBSET (Hybrid!In(scored) \cup pinned \cup rewrites)
       /\ Hybrid!In(scored) \in SUBSET (Hybrid!In(scored') \cup Query!Demoted(ask.pins))
       /\ rewrites = {} => Hybrid!In(scored') \cap Query!Demoted(ask.pins) \in SUBSET pinned
       /\ rewrites = {} /\ Cardinality(pinned) <= ask.k =>
            pinned \ Hybrid!In(scored) \in SUBSET Hybrid!In(Hybrid!Cut(scored', ask.k))
  <2>1. CASE ask.pins # <<>>
    <3>1. scored' = Query!Overlay(scored, ask.pins, extra)
      BY <1>5, <2>1
    <3>2. PICK list \in Listing(Fragments), pins \in Seq(PinRecord) : list = scored /\ pins = ask.pins
      BY <1>2
    <3> PICK out : out = scored'
      OBVIOUS
    <3>3. out = Query!Overlay(list, pins, extra) /\ pinned = Query!Range(Query!Wanted(pins))
      BY <1>10, <3>1, <3>2
    <3>4. Overlaid(out, list, pins, rewrites, pinned)
      BY <1>4, <1>6, <1>7, <3>3, OverlayIs DEF Rewritten
    <3>5. QED
      BY <1>2, <3>2, <3>4 DEF Overlaid
  <2>2. CASE ask.pins = <<>>
    <3>1. scored' = scored
      BY <1>5, <2>2
    <3>2. pinned = {}
      <4>1. Query!Wanted(ask.pins) = <<>>
        BY <1>2, <2>2, WantedIsASequence
      <4>2. QED
        BY <1>10, <4>1 DEF Query!Range
    <3>3. Query!Demoted(ask.pins) = {}
      BY <2>2 DEF Query!Demoted, Query!Range
    <3>4. QED
      BY <1>2, <3>1, <3>2, <3>3
  <2>3. QED
    BY <2>1, <2>2
<1>12. Query!Pinned' = pinned /\ Query!Pinned = pinned
  BY <1>1, <1>10 DEF Query!Pinned
<1>13. /\ Hybrid!In(scored) \in SUBSET Hybrid!In(seen.merged)
       /\ seen.candidates # <<>> => Hybrid!In(scored) \in SUBSET Hybrid!In(seen.candidates)
  BY <1>1 DEF QueryInv, BeforePins
<1>14. PICK now : now = Hybrid!In(scored') /\ now = Hybrid!In(scored)'
  BY DEF Hybrid!In, Hybrid!Range
<1>15. AfterPins'
  <2>1. Query!Demoted(ask.pins)' = Query!Demoted(ask.pins)
    BY <1>1 DEF Query!Demoted, Query!Range
  <2>2. Hybrid!In(seen.candidates)' = Hybrid!In(seen.candidates)
    BY <1>9 DEF Hybrid!In, Hybrid!Range
  <2>3. QED
    BY <1>9, <1>11, <1>12, <1>13, <1>14, <2>1, <2>2 DEF AfterPins
<1>16. BeforePins'
  BY <1>1 DEF BeforePins
<1>17. OnceCut'
  <2>1. Missing' \in SUBSET (pinned \ Hybrid!In(scored))
    BY <1>9, <1>12, <1>13 DEF Missing, Hybrid!In, Hybrid!Range
  <2>2. Hybrid!Cut(scored, ask.k)' = Hybrid!Cut(scored', ask.k)
    BY <1>1 DEF Hybrid!Cut
  <2>3. Hybrid!In(Hybrid!Cut(scored, ask.k))' = Hybrid!In(Hybrid!Cut(scored', ask.k))
    BY <1>1 DEF Hybrid!Cut, Hybrid!In, Hybrid!Range
  <2>4. ~Query!HasContext'
    BY <1>1 DEF Query!HasContext
  <2>5. QED
    BY <1>1, <1>9, <1>11, <1>12, <2>1, <2>3, <2>4 DEF OnceCut
<1>18. Answered'
  BY <1>1 DEF Answered, Query!NothingFoundIsRefused
<1>19. Found'
  <2>1. Query!Demoted(ask.pins)' = Query!Demoted(ask.pins)
    BY <1>1 DEF Query!Demoted, Query!Range
  <2>2. Hybrid!In(seen.merged)' = Hybrid!In(seen.merged) /\ seen'.reranked = seen.reranked
    BY <1>5, <1>9 DEF QueryInv, Hybrid!In, Hybrid!Range
  <2>3. Query!Repeated' = Query!Repeated
    BY <1>9, RepeatedStays
  <2>4. QED
    BY <1>1, <1>11, <1>14, <2>1, <2>2, <2>3 DEF QueryInv, Found, Query!HasContext
<1>20. QED
  BY <1>1, <1>9, <1>11, <1>15, <1>16, <1>17, <1>18, <1>19 DEF QueryInv

\* What is pinned and missing, and what the questions have seen, stay as they are.
LEMMA GenerateKeeps == ASSUME QueryInv, Query!Generate PROVE QueryInv' /\ Query!InjectedIsKept
<1>1. /\ stage = "pinned" /\ stage' = "generated" /\ counted' = "this"
      /\ UNCHANGED <<ask, seen, grounding, answer>>
      /\ scored' = Hybrid!Cut(scored, ask.k)
  BY OneFusion DEF Query!Generate, Query!Context
<1>2. ask.k \in Nat /\ scored \in Listing(Fragments)
  BY DEF QueryInv
<1>3. PICK cut : cut = Hybrid!Cut(scored, ask.k) /\ cut = scored'
  BY <1>1
<1>4. cut \in Listing(Fragments) /\ Hybrid!In(cut) \in SUBSET Hybrid!In(scored) /\ Len(cut) <= ask.k
  <2>1. PICK k \in Nat, list \in Listing(Fragments) : k = ask.k /\ list = scored
    BY <1>2
  <2>2. cut = Hybrid!Cut(list, k)
    BY <1>3, <2>1
  <2>3. /\ cut \in Listing(Fragments) /\ Hybrid!In(cut) \in SUBSET Hybrid!In(list)
        /\ Len(cut) = IF Len(list) < k THEN Len(list) ELSE k
    BY <2>2, CutIsAListing
  <2>4. Len(list) \in Nat
    BY PlacesOfAListing
  <2>5. QED
    BY <2>1, <2>3, <2>4
<1>5. Hybrid!In(scored)' = Hybrid!In(cut)
  BY <1>3 DEF Hybrid!In, Hybrid!Range
<1>6. Query!Pinned' = Query!Pinned /\ Query!Demoted(ask.pins)' = Query!Demoted(ask.pins)
  BY <1>1 DEF Query!Pinned, Query!Demoted, Query!Range
<1>7. Hybrid!In(seen.candidates)' = Hybrid!In(seen.candidates)
  BY <1>1 DEF Hybrid!In, Hybrid!Range
<1>8. AfterPins'
  BY <1>1, <1>4, <1>5, <1>6, <1>7 DEF AfterPins, QueryInv
<1>9. BeforePins' /\ Answered'
  BY <1>1 DEF BeforePins, Answered, Query!NothingFoundIsRefused
<1>10. OnceCut'
  BY <1>1, <1>3, <1>4 DEF OnceCut
<1>11. Found'
  <2>1. Hybrid!In(seen.merged)' = Hybrid!In(seen.merged) /\ Query!Repeated' = Query!Repeated
    BY <1>1, RepeatedStays DEF Hybrid!In, Hybrid!Range
  <2>2. Hybrid!In(cut) = Hybrid!In(scored) \/ Len(cut) = ask.k
    <3>1. PICK k \in Nat, list \in Listing(Fragments) : k = ask.k /\ list = scored
      BY <1>2
    <3>2. cut = Hybrid!Cut(list, k) /\ Len(list) \in Nat
      BY <1>3, <3>1, PlacesOfAListing
    <3>3. Len(list) <= k => Hybrid!In(cut) = Hybrid!In(list)
      BY <3>2, AllOfAShortOne
    <3>4. Len(list) > k => Len(cut) = k
      BY <3>2, CutIsAListing
    <3>5. QED
      BY <3>1, <3>2, <3>3, <3>4
  <2>3. Len(scored') = Len(cut)
    BY <1>3
  <2>4. QED
    BY <1>1, <1>5, <1>6, <2>1, <2>2, <2>3 DEF QueryInv, Found, Query!HasContext
<1>12. QueryInv'
  BY <1>1, <1>3, <1>4, <1>8, <1>9, <1>10, <1>11 DEF QueryInv
<1>13. Query!InjectedIsKept
  <2> SUFFICES ASSUME seen.rewrites = {}, Query!Cardinality(Query!Pinned) <= ask.k
               PROVE  {f \in Query!Pinned : f \notin Query!In(seen.candidates) \cup Query!In(seen.merged)}
                        \subseteq Query!In(scored')
    BY DEF Query!InjectedIsKept
  <2>1. Cardinality(Query!Pinned) <= ask.k
    BY DEF Query!Cardinality, Cardinality
  <2>2. Missing \in SUBSET Hybrid!In(cut)
    BY <1>1, <1>3, <2>1 DEF QueryInv, OnceCut
  <2>3. Missing = {f \in Query!Pinned : f \notin Query!In(seen.candidates) \cup Query!In(seen.merged)}
    BY OneFusion DEF Missing
  <2>4. Query!In(scored') = Hybrid!In(cut)
    BY <1>3, OneFusion
  <2>5. QED
    BY <2>2, <2>3, <2>4
<1>14. QED
  BY <1>12, <1>13

\* Another question's answer changes what the generator has counted, and nothing else.
LEMMA QueryStays ==
    ASSUME QueryInv, UNCHANGED <<ask, stage, scored, seen, grounding, answer>> PROVE QueryInv'
<1>1. BeforePins'
  BY DEF QueryInv, BeforePins, Hybrid!In, Hybrid!Range
<1>2. Query!Pinned' = Query!Pinned /\ Query!Demoted(ask.pins)' = Query!Demoted(ask.pins)
  BY DEF Query!Pinned, Query!Demoted, Query!Range
<1>3. /\ Hybrid!In(scored)' = Hybrid!In(scored)
      /\ Hybrid!In(seen.candidates)' = Hybrid!In(seen.candidates)
      /\ Hybrid!In(seen.merged)' = Hybrid!In(seen.merged)
      /\ Hybrid!In(Hybrid!Cut(scored, ask.k))' = Hybrid!In(Hybrid!Cut(scored, ask.k))
  BY DEF Hybrid!In, Hybrid!Range, Hybrid!Cut
<1>4. AfterPins'
  BY <1>2, <1>3 DEF QueryInv, AfterPins
<1>5. Missing' = Missing
  BY <1>2, <1>3 DEF Missing
<1>6. OnceCut'
  BY <1>2, <1>3, <1>5 DEF QueryInv, OnceCut, Query!HasContext
<1>7. Answered'
  BY DEF QueryInv, Answered, Query!NothingFoundIsRefused
<1>8. Found'
  BY <1>2, <1>3, RepeatedStays DEF QueryInv, Found, Query!HasContext
<1>9. QED
  BY <1>1, <1>4, <1>6, <1>7, <1>8 DEF QueryInv

\* What becomes of the answer does not touch the context.
LEMMA ContextStays ==
    ASSUME QueryInv, UNCHANGED <<ask, scored, seen>>,
           stage \in {"generated", "grounded"}, stage' \in {"grounded", "answered"}
    PROVE  (BeforePins /\ AfterPins /\ Found /\ OnceCut)'
<1>1. Query!Pinned' = Query!Pinned /\ Query!Demoted(ask.pins)' = Query!Demoted(ask.pins)
  BY DEF Query!Pinned, Query!Demoted, Query!Range
<1>2. /\ Hybrid!In(scored)' = Hybrid!In(scored)
      /\ Hybrid!In(seen.candidates)' = Hybrid!In(seen.candidates)
      /\ Hybrid!In(seen.merged)' = Hybrid!In(seen.merged)
  BY DEF Hybrid!In, Hybrid!Range
<1>3. AfterPins'
  BY <1>1, <1>2 DEF QueryInv, AfterPins
<1>4. BeforePins'
  BY DEF BeforePins
<1>5. OnceCut'
  BY DEF QueryInv, OnceCut, Query!HasContext
<1>6. Found'
  BY <1>1, <1>2, RepeatedStays DEF QueryInv, Found, Query!HasContext
<1>7. QED
  BY <1>3, <1>4, <1>5, <1>6

LEMMA GroundKeeps == ASSUME QueryInv, Query!Ground PROVE QueryInv'
<1>1. /\ stage = "generated" /\ stage' = "grounded"
      /\ UNCHANGED <<ask, scored, seen, reply, counted, answer>>
      /\ "grounder" \in ask.steps => grounding' \in Query!Groundings(scored)
  BY DEF Query!Ground, Query!Has
<1>2. \A g \in Query!Groundings(scored) : g # Query!None
  <2> SUFFICES ASSUME Query!None \in Query!Groundings(scored) PROVE FALSE
    OBVIOUS
  <2>1. [none |-> TRUE] \in [claims : 0..2, unsupported : 0..2]
    BY DEF Query!Groundings, Query!None
  <2>2. QED
    BY <2>1
<1>3. Answered'
  BY <1>1, <1>2 DEF Answered, Query!NothingFoundIsRefused, Query!None
<1>4. QED
  BY <1>1, <1>3, ContextStays DEF QueryInv

LEMMA FinishKeeps == ASSUME QueryInv, Query!Finish PROVE QueryInv'
<1>1. /\ stage = "grounded" /\ stage' = "answered"
      /\ UNCHANGED <<ask, scored, seen, reply, grounding, counted>>
  BY DEF Query!Finish
<1>2. PICK refused \in BOOLEAN : refused = Query!Refuses
  BY DEF Query!Refuses
<1>3. PICK cited : cited = Query!Citations(refused, reply, scored)
  OBVIOUS
<1>4. PICK visible : visible = IF refused THEN {} ELSE Query!Shown(reply, scored)
  OBVIOUS
<1>5. PICK masked : masked = (Query!Has("mask") /\ ~refused)
  OBVIOUS
<1>6. /\ answer'.refused = refused /\ answer'.masked = masked /\ answer'.cited = cited
      /\ answer'.shown = visible
  <2>1. answer' = [refused |-> refused, masked |-> masked, cited |-> cited, shown |-> visible,
                   raw |-> IF refused THEN {} ELSE Query!Untouched(reply), counts |-> counted]
    BY <1>2, <1>3, <1>4, <1>5, Zenon DEF Query!Finish
  <2>2. QED
    BY <2>1
<1>7. scored \in Seq(Fragments)
  BY DEF QueryInv, Listing
<1>8. cited \in SUBSET DOMAIN scored
  <2>1. CASE refused
    BY <1>3, <2>1 DEF Query!Citations
  <2>2. CASE ~refused /\ scored = <<>>
    BY <1>3, <2>2 DEF Query!Citations, Query!Cited
  <2>3. CASE ~refused /\ scored # <<>>
    <3>1. 1 \in DOMAIN scored
      BY <1>7, <2>3
    <3>2. QED
      BY <1>3, <2>3, <3>1 DEF Query!Citations, Query!Cited, Query!InRange
  <2>4. QED
    BY <1>2, <2>1, <2>2, <2>3
<1>9. visible \in SUBSET DOMAIN scored
  BY <1>4 DEF Query!Shown, Query!InRange
<1>10. {"grounder", "refusal"} \subseteq ask.steps /\ scored = <<>> => refused
  BY <1>1, <1>2 DEF QueryInv, Answered, Query!Refuses, Query!Has, Query!IsGrounded
<1>11. refused => cited = {} /\ ~masked
  BY <1>3, <1>5 DEF Query!Citations
<1>12. Answered'
  <2>1. /\ scored' = scored /\ ask' = ask /\ grounding' = grounding
    BY <1>1
  <2>2. Query!NothingFoundIsRefused'
    BY <1>6, <1>8, <1>9, <1>10, <1>11, <2>1 DEF Query!NothingFoundIsRefused
  <2>3. QED
    BY <1>1, <2>1, <2>2 DEF QueryInv, Answered, Query!None
<1>13. QED
  BY <1>1, <1>12, ContextStays DEF QueryInv

LEMMA QueryStepKeeps == ASSUME QueryInv, Query!Next PROVE QueryInv' /\ Query!InjectedIsKept
<1>1. ASSUME stage # "pinned" \/ stage' # "generated" PROVE Query!InjectedIsKept
  BY <1>1 DEF Query!InjectedIsKept
<1>2. CASE Query!Retrieve
  BY <1>1, <1>2, RetrieveKeeps DEF Query!Retrieve
<1>3. CASE Query!Score
  BY <1>1, <1>3, ScoreKeeps DEF Query!Score
<1>4. CASE Query!Rerank
  BY <1>1, <1>4, RerankKeeps DEF Query!Rerank
<1>5. CASE Query!Pin
  BY <1>1, <1>5, PinKeeps DEF Query!Pin
<1>6. CASE Query!Generate
  BY <1>6, GenerateKeeps
<1>7. CASE Query!Elsewhere \/ Query!Done
  <2>1. UNCHANGED <<ask, stage, scored, seen, grounding, answer>>
    BY <1>7 DEF Query!Elsewhere, Query!Done, Query!vars
  <2>2. QED
    BY <1>1, <2>1, QueryStays
<1>8. CASE Query!Ground
  BY <1>1, <1>8, GroundKeeps DEF Query!Ground
<1>9. CASE Query!Finish
  BY <1>1, <1>9, FinishKeeps DEF Query!Finish
<1>10. QED
  BY <1>2, <1>3, <1>4, <1>5, <1>6, <1>7, <1>8, <1>9 DEF Query!Next

LEMMA QueryAlways == Spec => [](part = "query" => QueryInv)
<1>1. Init => (part = "query" => QueryInv)
  BY QueryInit DEF Init
<1>2. (part = "query" => QueryInv) /\ [Next]_vars => (part = "query" => QueryInv)'
  <2> SUFFICES ASSUME part = "query" => QueryInv, [Next]_vars, part' = "query" PROVE QueryInv'
    OBVIOUS
  <2>1. CASE QueryStep
    BY <2>1, QueryStepKeeps DEF QueryStep
  <2>2. CASE UNCHANGED vars
    BY <2>2, QueryStays DEF vars, queryVars
  <2>3. QED
    BY <2>1, <2>2 DEF Next, HybridStep, BindingStep, ChatStep, HttpStep, GraphStep, PortsStep
<1>3. QED
  BY <1>1, <1>2, PTL DEF Spec

\* Whatever the retriever finds and however the pins, the scorer and the reranker are set: what was
\* found and is not read by the model repeats a text or was demoted, unless the context or the
\* reranker's was full; where a wider window was recorded, what is read was in it, pinned or found by
\* a rewrite; what was demoted is gone where nothing was rewritten, unless a pin asks for it; and with
\* a grounder and a refusal policy nothing found is a refusal
\* (core/pipeline.py, core/pins/overlay.py).
THEOREM ContextIsAlwaysAccountedFor == Spec => []ContextIsAccountedFor
<1>1. (part = "query" => QueryInv) => ContextIsAccountedFor
  <2> SUFFICES ASSUME QueryInv, part = "query" PROVE ContextIsAccountedFor
    BY DEF ContextIsAccountedFor
  <2>1. Query!ContextWasLookedAt /\ Query!DemotedLeavesTheList
    BY OneFusion DEF QueryInv, AfterPins, Query!ContextWasLookedAt, Query!DemotedLeavesTheList,
                     Query!HasContext
  <2>2. Query!FoundIsAccountedFor
    BY OneFusion DEF QueryInv, Found, Query!FoundIsAccountedFor, Query!HasContext
  <2>3. QED
    BY <2>1, <2>2 DEF QueryInv, Answered, ContextIsAccountedFor
<1>2. QED
  BY <1>1, QueryAlways, PTL

LEMMA QueryShape == QueryInv => Query!TypeOK
<1> SUFFICES ASSUME QueryInv PROVE Query!TypeOK
  OBVIOUS
<1>1. Query!In(scored) \in SUBSET Fragments
  <2>1. PICK list \in Listing(Fragments) : list = scored
    BY DEF QueryInv
  <2>2. Hybrid!In(list) \in SUBSET Fragments
    BY PlacesOfAListing
  <2>3. QED
    BY <2>1, <2>2, OneFusion
<1>2. Query!IsInjective(scored)
  BY DEF QueryInv, Listing, Query!IsInjective
<1>3. QED
  BY <1>1, <1>2 DEF QueryInv, OnceCut, Query!TypeOK

----------------------------------------------------------------------------
(* The chat around a question *)

TraceIds == {<<"sent", i>> : i \in HeaderIds}
              \cup {<<"drawn", n, by>> : n \in Nat, by \in {"handler", "middleware"}}
Trace == [id : TraceIds, question : Nat]

\* The questions answered under an id end with this one.
LastUnder(t, list) ==
    \E j \in DOMAIN list : list[j] = t /\ \A l \in (j + 1)..Len(list) : list[l].id # t.id

ChatInv ==
    /\ DOMAIN call = ChatClients /\ chats \in Nat
    /\ \A c \in ChatClients : call[c].op = "asked" => call[c].id \in TraceIds /\ call[c].question \in Nat
    /\ cache \in Seq(Trace) /\ finished \in Seq(Trace)
    /\ Len(cache) <= CacheMax
    /\ \A i, j \in DOMAIN cache : cache[i].id = cache[j].id => i = j
    /\ \A i \in DOMAIN cache : LastUnder(cache[i], finished)

LEMMA ChatInit == Chat!Init => ChatInv
<1> SUFFICES ASSUME Chat!Init PROVE ChatInv
  OBVIOUS
<1>1. /\ call = [c \in ChatClients |-> [op |-> "idle"]] /\ chats = 0
      /\ cache = <<>> /\ finished = <<>>
  BY DEF Chat!Init, Chat!Idle
<1>2. CacheMax \in Nat \ {0}
  BY ChatAssumption DEF Chat!Assumptions
<1>3. \A c \in ChatClients : call[c].op # "asked"
  BY <1>1
<1>4. cache \in Seq(Trace) /\ finished \in Seq(Trace) /\ Len(cache) = 0 /\ DOMAIN cache = {}
  BY <1>1
<1>5. QED
  BY <1>1, <1>2, <1>3, <1>4 DEF ChatInv

\* One question more at the end: it is the last under its id, and no other is disturbed.
LEMMA OneMoreIsAnswered ==
    ASSUME NEW done \in Seq(Trace), NEW t \in Trace, NEW more, more = Append(done, t)
    PROVE  /\ more \in Seq(Trace) /\ LastUnder(t, more)
           /\ \A u \in Trace : LastUnder(u, done) /\ u.id # t.id => LastUnder(u, more)
<1>1. /\ more \in Seq(Trace) /\ Len(done) \in Nat /\ DOMAIN done = 1..Len(done)
      /\ Len(more) = Len(done) + 1 /\ DOMAIN more = 1..(Len(done) + 1)
      /\ more[Len(done) + 1] = t
      /\ \A i \in 1..Len(done) : more[i] = done[i]
  OBVIOUS
<1>2. LastUnder(t, more)
  <2>1. Len(done) + 1 \in DOMAIN more /\ ((Len(done) + 1) + 1)..Len(more) = {}
    BY <1>1
  <2>2. QED
    BY <1>1, <2>1 DEF LastUnder
<1>3. ASSUME NEW u \in Trace, LastUnder(u, done), u.id # t.id PROVE LastUnder(u, more)
  <2>1. PICK j \in DOMAIN done : done[j] = u /\ \A l \in (j + 1)..Len(done) : done[l].id # u.id
    BY <1>3 DEF LastUnder
  <2>2. j \in DOMAIN more /\ more[j] = u
    BY <1>1, <2>1
  <2>3. ASSUME NEW l \in (j + 1)..Len(more) PROVE more[l].id # u.id
    <3>1. CASE l = Len(done) + 1
      BY <1>1, <1>3, <3>1
    <3>2. CASE l # Len(done) + 1
      <4>1. l \in (j + 1)..Len(done) /\ l \in 1..Len(done)
        BY <1>1, <2>1, <2>3, <3>2
      <4>2. QED
        BY <1>1, <2>1, <4>1
    <3>3. QED
      BY <3>1, <3>2
  <2>4. QED
    BY <2>2, <2>3 DEF LastUnder
<1>4. QED
  BY <1>1, <1>2, <1>3

LEMMA ChatFinishKeeps == ASSUME ChatInv, NEW c \in ChatClients, Chat!Finish(c) PROVE ChatInv'
<1>1. PICK t : t = [id |-> call[c].id, question |-> call[c].question]
  OBVIOUS
<1>2. call[c].op = "asked" /\ t \in Trace
  BY <1>1 DEF Chat!Finish, ChatInv, Trace
<1>3. /\ call' = [call EXCEPT ![c] = [op |-> "idle"]] /\ chats' = chats
      /\ cache' = Chat!Evicted(Chat!Cached(t)) /\ finished' = Append(finished, t)
  BY <1>1 DEF Chat!Finish, Chat!Idle
<1>4. PICK more : more = finished'
  OBVIOUS
<1>5. /\ more \in Seq(Trace) /\ LastUnder(t, more)
      /\ \A u \in Trace : LastUnder(u, finished) /\ u.id # t.id => LastUnder(u, more)
  BY <1>2, <1>3, <1>4, OneMoreIsAnswered DEF ChatInv
<1>6. PICK n \in Nat : n = Len(cache) /\ DOMAIN cache = 1..n /\ n <= CacheMax
  BY DEF ChatInv
<1>7. /\ \A i \in 1..n : cache[i] \in Trace /\ LastUnder(cache[i], finished)
      /\ \A i, j \in 1..n : cache[i].id = cache[j].id => i = j
  BY <1>6 DEF ChatInv
<1>8. CacheMax \in Nat \ {0}
  BY ChatAssumption DEF Chat!Assumptions
<1>9. PICK list : list = Chat!Cached(t)
  OBVIOUS
<1>10. /\ list \in Seq(Trace) /\ Len(list) \in {n, n + 1} /\ (Len(list) = n + 1 \/ Len(list) <= CacheMax)
       /\ \A i, j \in DOMAIN list : list[i].id = list[j].id => i = j
       /\ \A i \in DOMAIN list : LastUnder(list[i], more)
  <2>1. CASE Chat!HasKey(t.id)
    <3>1. list = [i \in 1..n |-> IF cache[i].id = t.id THEN t ELSE cache[i]]
      BY <1>6, <1>9, <2>1 DEF Chat!Cached
    <3>2. \A i \in 1..n : list[i] \in Trace /\ list[i].id = cache[i].id
      BY <1>2, <1>7, <3>1
    <3>3. list \in [1..n -> Trace]
      BY <3>1, <3>2
    <3>4. list \in Seq(Trace) /\ Len(list) = n /\ DOMAIN list = 1..n
      BY <3>3, FunctionIsSequence
    <3>5. \A i \in 1..n : LastUnder(list[i], more)
      BY <1>5, <1>7, <3>1
    <3>6. QED
      BY <1>6, <1>7, <3>2, <3>4, <3>5
  <2>2. CASE ~Chat!HasKey(t.id)
    <3>1. list = Append(cache, t)
      BY <1>9, <2>2 DEF Chat!Cached
    <3>2. \A i \in 1..n : cache[i].id # t.id
      BY <1>6, <2>2 DEF Chat!HasKey
    <3>3. /\ list \in Seq(Trace) /\ Len(list) = n + 1 /\ DOMAIN list = 1..(n + 1)
          /\ list[n + 1] = t /\ \A i \in 1..n : list[i] = cache[i]
      BY <1>2, <1>6, <3>1 DEF ChatInv
    <3>4. \A i \in 1..n : LastUnder(list[i], more)
      BY <1>5, <1>7, <3>2, <3>3
    <3>5. \A i \in 1..(n + 1) : i \in 1..n \/ i = n + 1
      OBVIOUS
    <3>6. \A i \in 1..(n + 1) : LastUnder(list[i], more)
      BY <1>5, <3>3, <3>4, <3>5
    <3>7. \A i, j \in 1..(n + 1) : list[i].id = list[j].id => i = j
      BY <1>7, <3>2, <3>3, <3>5
    <3>8. QED
      BY <3>3, <3>6, <3>7
  <2>3. QED
    BY <2>1, <2>2
<1>11. PICK kept : kept = cache' /\ kept = IF Len(list) > CacheMax THEN Tail(list) ELSE list
  BY <1>3, <1>9 DEF Chat!Evicted
<1>12. /\ kept \in Seq(Trace) /\ Len(kept) <= CacheMax
       /\ \A i, j \in DOMAIN kept : kept[i].id = kept[j].id => i = j
       /\ \A i \in DOMAIN kept : LastUnder(kept[i], more)
  <2>1. CASE Len(list) <= CacheMax
    <3>1. kept = list
      BY <1>6, <1>8, <1>10, <1>11, <2>1
    <3>2. QED
      BY <1>10, <2>1, <3>1
  <2>2. CASE ~(Len(list) <= CacheMax)
    <3>1. kept = Tail(list) /\ Len(list) = n + 1
      BY <1>6, <1>8, <1>10, <1>11, <2>2
    <3>2. /\ kept \in Seq(Trace) /\ Len(kept) = n /\ DOMAIN kept = 1..n /\ DOMAIN list = 1..(n + 1)
          /\ \A i \in 1..n : kept[i] = list[i + 1] /\ i + 1 \in 1..(n + 1)
      BY <1>10, <3>1
    <3>3. ASSUME NEW i \in 1..n, NEW j \in 1..n, kept[i].id = kept[j].id PROVE i = j
      <4>1. PICK a \in DOMAIN list, b \in DOMAIN list : a = i + 1 /\ b = j + 1
        BY <3>2
      <4>2. kept[i] = list[a] /\ kept[j] = list[b]
        BY <3>2, <4>1
      <4>3. a = b
        BY <1>10, <3>3, <4>2
      <4>4. QED
        BY <4>1, <4>3
    <3>4. \A i \in 1..n : LastUnder(kept[i], more)
      BY <1>10, <3>2
    <3>5. QED
      BY <1>6, <3>2, <3>3, <3>4
  <2>3. QED
    BY <2>1, <2>2
<1>13. \A d \in ChatClients : call'[d].op = "asked" => call'[d].id \in TraceIds /\ call'[d].question \in Nat
  BY <1>3 DEF ChatInv
<1>14. DOMAIN call' = ChatClients
  BY <1>3 DEF ChatInv
<1>15. QED
  BY <1>3, <1>4, <1>5, <1>11, <1>12, <1>13, <1>14 DEF ChatInv

LEMMA ChatStepKeeps == ASSUME ChatInv, Chat!Next PROVE ChatInv' /\ Chat!RagIsOfTheRealm
<1>1. ASSUME \A c \in ChatClients : call'[c] = call[c] \/ call'[c] = Chat!Idle
      PROVE  Chat!RagIsOfTheRealm
  BY <1>1 DEF Chat!RagIsOfTheRealm
<1>2. ASSUME UNCHANGED <<call, cache, finished, chats>> PROVE ChatInv' /\ Chat!RagIsOfTheRealm
  BY <1>1, <1>2 DEF ChatInv
<1>3. CASE Chat!Register
  BY <1>2, <1>3 DEF Chat!Register
<1>4. CASE Chat!Restart
  <2>1. /\ cache' = <<>> /\ finished' = <<>> /\ chats' = chats
        /\ call' = [c \in ChatClients |-> [op |-> "idle"]]
    BY <1>4 DEF Chat!Restart, Chat!Idle
  <2>2. \A c \in ChatClients : call'[c].op # "asked" /\ call'[c] = Chat!Idle
    BY <2>1 DEF Chat!Idle
  <2>3. cache' \in Seq(Trace) /\ finished' \in Seq(Trace) /\ Len(cache') = 0 /\ DOMAIN cache' = {}
    BY <2>1
  <2>4. CacheMax \in Nat
    BY ChatAssumption DEF Chat!Assumptions
  <2>5. QED
    BY <1>1, <2>1, <2>2, <2>3, <2>4 DEF ChatInv
<1>5. ASSUME NEW c \in ChatClients, Chat!Finish(c) PROVE ChatInv' /\ Chat!RagIsOfTheRealm
  <2>1. call' = [call EXCEPT ![c] = Chat!Idle]
    BY <1>5 DEF Chat!Finish
  <2>2. QED
    BY <1>1, <1>5, <2>1, ChatFinishKeeps DEF ChatInv
<1>6. ASSUME NEW c \in ChatClients, Chat!Fail(c) PROVE ChatInv' /\ Chat!RagIsOfTheRealm
  <2>1. call' = [call EXCEPT ![c] = Chat!Idle] /\ UNCHANGED <<cache, finished, chats>>
    BY <1>6 DEF Chat!Fail
  <2>2. \A d \in ChatClients : call'[d] = call[d] \/ call'[d] = Chat!Idle
    BY <2>1 DEF ChatInv
  <2>3. Chat!Idle.op # "asked"
    BY DEF Chat!Idle
  <2>4. DOMAIN call' = ChatClients
    BY <2>1 DEF ChatInv
  <2>5. \A d \in ChatClients : call'[d].op = "asked" => call'[d].id \in TraceIds /\ call'[d].question \in Nat
    BY <2>2, <2>3 DEF ChatInv
  <2>6. QED
    BY <1>1, <2>1, <2>2, <2>4, <2>5 DEF ChatInv
<1>7. ASSUME NEW c \in ChatClients, Chat!Ask(c) PROVE ChatInv' /\ Chat!RagIsOfTheRealm
  <2>1. PICK realm \in ChatRealms \cup {Nil}, rag \in Rags \cup {Chat!NoRag}, header \in HeaderIds \cup {"absent"} :
          LET id(by) == IF header = "absent" THEN Chat!Drawn(chats, by) ELSE Chat!Sent(header)
              by == Chat!Answers(realm, rag)
          IN  IF by = "404"
              THEN UNCHANGED call
              ELSE call' = [call EXCEPT ![c] = [op |-> "asked", question |-> chats, realm |-> realm,
                                   by |-> by, id |-> id("handler"), header |-> id("middleware")]]
    BY <1>7 DEF Chat!Ask
  <2>2. chats' = chats + 1 /\ UNCHANGED <<home, cache, finished>> /\ call[c] = Chat!Idle
    BY <1>7 DEF Chat!Ask
  <2>3. PICK by : by = Chat!Answers(realm, rag)
    OBVIOUS
  <2>4. chats \in Nat /\ chats' \in Nat
    BY <2>2 DEF ChatInv
  <2>5. CASE by = "404"
    <3>1. call' = call
      BY <2>1, <2>3, <2>5
    <3>2. QED
      BY <1>1, <2>2, <2>4, <3>1 DEF ChatInv
  <2>6. CASE by # "404"
    <3>1. PICK id, other : /\ id = IF header = "absent" THEN <<"drawn", chats, "handler">> ELSE <<"sent", header>>
                           /\ call' = [call EXCEPT ![c] = [op |-> "asked", question |-> chats, realm |-> realm,
                                                         by |-> by, id |-> id, header |-> other]]
      BY <2>1, <2>3, <2>6 DEF Chat!Drawn, Chat!Sent
    <3>2. id \in TraceIds
      BY <2>4, <3>1 DEF TraceIds
    <3>3. by \in Chat!RagsOf(realm) \cup {"in process"}
      <4>1. CASE realm = Nil
        BY <2>3, <4>1 DEF Chat!Answers
      <4>2. CASE realm # Nil /\ rag # Chat!NoRag
        BY <2>3, <2>6, <4>2 DEF Chat!Answers, Chat!RagsOf
      <4>3. CASE realm # Nil /\ rag = Chat!NoRag
        <5>1. PICK here : here = Chat!RagsOf(realm)
          OBVIOUS
        <5>2. by = IF Chat!Cardinality(here) = 1 THEN CHOOSE g \in here : TRUE ELSE "in process"
          <6>1. Chat!Answers(realm, rag)
                  = IF Chat!Cardinality(Chat!RagsOf(realm)) = 1 THEN CHOOSE g \in Chat!RagsOf(realm) : TRUE
                    ELSE "in process"
            BY <4>3, Zenon DEF Chat!Answers
          <6>2. QED
            BY <2>3, <5>1, <6>1, Zenon
        <5>3. Chat!Cardinality(here) = Cardinality(here)
          BY DEF Chat!Cardinality, Cardinality
        <5>4. Cardinality(here) = 1 => here # {}
          BY FS_EmptySet
        <5>5. QED
          BY <5>1, <5>2, <5>3, <5>4
      <4>4. QED
        BY <4>1, <4>2, <4>3
    <3>4. /\ DOMAIN call' = ChatClients
          /\ call'[c].by = by /\ call'[c].realm = realm /\ call'[c].id = id /\ call'[c].question = chats
          /\ \A d \in ChatClients : d # c => call'[d] = call[d]
      BY <3>1 DEF ChatInv
    <3>5. Chat!RagIsOfTheRealm
      <4>1. Chat!RagsOf(call'[c].realm) = Chat!RagsOf(realm)
        BY <3>4
      <4>2. QED
        BY <3>3, <3>4, <4>1 DEF Chat!RagIsOfTheRealm
    <3>6. \A d \in ChatClients : call'[d].op = "asked" => call'[d].id \in TraceIds /\ call'[d].question \in Nat
      BY <2>4, <3>2, <3>4 DEF ChatInv
    <3>7. QED
      BY <2>2, <2>4, <3>4, <3>5, <3>6 DEF ChatInv
  <2>7. QED
    BY <2>5, <2>6
<1>8. QED
  BY <1>3, <1>4, <1>5, <1>6, <1>7 DEF Chat!Next

LEMMA ChatAlways == Spec => [](part = "chat" => ChatInv)
<1>1. Init => (part = "chat" => ChatInv)
  BY ChatInit DEF Init
<1>2. (part = "chat" => ChatInv) /\ [Next]_vars => (part = "chat" => ChatInv)'
  <2> SUFFICES ASSUME part = "chat" => ChatInv, [Next]_vars, part' = "chat" PROVE ChatInv'
    OBVIOUS
  <2>1. CASE ChatStep
    BY <2>1, ChatStepKeeps DEF ChatStep
  <2>2. CASE UNCHANGED vars
    BY <2>2 DEF vars, chatVars, ChatInv
  <2>3. QED
    BY <2>1, <2>2 DEF Next, HybridStep, BindingStep, QueryStep, HttpStep, GraphStep, PortsStep
<1>3. QED
  BY <1>1, <1>2, PTL DEF Spec

LEMMA ChatShape == ChatInv => Chat!TypeOK
BY DEF ChatInv, LastUnder, Chat!TypeOK

----------------------------------------------------------------------------
(* The shapes of the other components *)

\* An external RAG: a payload holds fields of the run, each in one of the ways a payload can.
LEMMA PayloadIsShaped ==
  ASSUME HttpInv, NEW f \in DOMAIN Http!Payload
  PROVE  f \in Fields /\ Http!Payload[f] \in Http!InPayload
<1>1. context \subseteq Fields
  BY DEF HttpInv
<1>2. CASE record.template = Http!NoTemplate
  BY <1>1, <1>2 DEF Http!Payload, Http!Appended, Http!InPayload
<1>3. CASE record.template # Http!NoTemplate
  <2>1. PICK own \in SUBSET Fields : record.template \in [own -> Http!InTemplate]
    BY <1>3 DEF HttpInv, Http!Templates
  <2>2. DOMAIN record.template = own
    BY <2>1
  <2>3. Http!Payload = [g \in own \cup context |->
                          IF g \in own THEN Http!Render(g, record.template[g]) ELSE "value"]
    BY <1>3, <2>2 DEF Http!Payload, Http!Appended
  <2>4. f \in own \cup context
    BY <2>3
  <2>5. CASE f \in own
    <3>1. record.template[f] \in Http!InTemplate
      BY <2>1, <2>5
    <3>2. Http!Payload[f] = Http!Render(f, record.template[f])
      BY <2>3, <2>4, <2>5
    <3>3. QED
      BY <2>5, <3>1, <3>2 DEF Http!Render, Http!InTemplate, Http!InPayload
  <2>6. CASE f \notin own
    BY <1>1, <2>3, <2>4, <2>6 DEF Http!InPayload
  <2>7. QED
    BY <2>5, <2>6
<1>4. QED
  BY <1>2, <1>3

LEMMA HttpShape == Spec => [](part = "http" => Http!TypeOK)
<1> DEFINE Inv == part = "http" => Http!TypeOK
           Known == part = "http" => HttpInv
<1>1. Init => Inv
  BY DEF Init, Http!Init, Http!TypeOK
<1>2. Known /\ Inv /\ [Next]_vars => Inv'
  <2> SUFFICES ASSUME Known, Inv, [Next]_vars, part' = "http" PROVE Http!TypeOK'
    OBVIOUS
  <2>1. CASE HttpStep
    <3>1. part = "http" /\ HttpInv /\ Http!TypeOK /\ Http!Next
      BY <2>1 DEF HttpStep
    <3>2. CASE Http!Build
      BY <3>1, <3>2 DEF Http!Build, Http!TypeOK
    <3>3. CASE Http!Run \/ Http!Retrieve
      <4>1. PICK u : called' = [url |-> u, payload |-> Http!Payload]
        BY <3>3 DEF Http!Run, Http!Retrieve, Http!CallRun, Http!Post
      <4>2. state' = state
        BY <3>3 DEF Http!Run, Http!Retrieve
      <4>3. called'.payload = Http!Payload
        BY <4>1
      <4>4. \A f \in DOMAIN called'.payload : f \in Fields /\ called'.payload[f] \in Http!InPayload
        BY <3>1, <4>3, PayloadIsShaped
      <4>5. QED
        BY <3>1, <4>2, <4>4 DEF Http!TypeOK
    <3>4. QED
      BY <3>1, <3>2, <3>3 DEF Http!Next
  <2>2. CASE UNCHANGED vars
    BY <2>2 DEF vars, httpVars, Http!TypeOK
  <2>3. QED
    BY <2>1, <2>2 DEF Next, HybridStep, BindingStep, QueryStep, ChatStep, GraphStep, PortsStep
<1>3. QED
  BY <1>1, <1>2, HttpAlways, PTL DEF Spec

\* The stores a question reaches: no index holds text without an analyser.
LEMMA BindingShape == Spec => [](part = "binding" => Binding!TypeOK)
<1> DEFINE Kept == /\ bound \in [Own -> {"unset", "good", "stale"}]
                   /\ run.pc = "bound" => run.dense.store \in {"qdrant", "stub"}
           Inv == part = "binding" => Kept
           Known == part = "binding" => BindingInv
<1>1. Init => Inv
  BY DEF Init, Binding!Init, Binding!NoRun, Binding!Unset
<1>2. Known /\ Inv /\ [Next]_vars => Inv'
  <2> SUFFICES ASSUME Known, Inv, [Next]_vars, part' = "binding" PROVE Kept'
    OBVIOUS
  <2>1. CASE BindingStep
    <3>1. part = "binding" /\ BindingInv /\ Kept /\ Binding!Next
      BY <2>1 DEF BindingStep
    <3>2. CASE Binding!Forget
      BY <3>1, <3>2 DEF Binding!Forget, Binding!NoRun
    <3>3. CASE run = Binding!NoRun /\ Binding!Step
      <4>1. ASSUME run' = run, bound' = bound \/ bound' = [u \in Own |-> "unset"]
                   \/ \E u : bound' = [bound EXCEPT ![u] = "stale"]
            PROVE  Kept'
        BY <3>1, <4>1
      <4>2. ASSUME NEW up, NEW read, Binding!Start(up, read) PROVE Kept'
        BY <3>1, <4>1, <4>2 DEF Binding!Start
      <4>3. CASE Binding!Stop
        BY <3>1, <4>1, <4>3 DEF Binding!Stop, Binding!Unset
      <4>4. ASSUME NEW r, NEW s, NEW h, Binding!EditResource(r, s, h) PROVE Kept'
        BY <3>1, <4>1, <4>4 DEF Binding!EditResource
      <4>5. ASSUME NEW u, Binding!Rotate(u) PROVE Kept'
        BY <3>1, <4>1, <4>5 DEF Binding!Rotate
      <4>6. ASSUME NEW c, NEW r, NEW l, NEW read, Binding!StartIngest(c, r, l, read) PROVE Kept'
        BY <3>1, <4>1, <4>6 DEF Binding!StartIngest
      <4>7. CASE Binding!EndIngest
        BY <3>1, <4>1, <4>7 DEF Binding!EndIngest
      <4>8. ASSUME NEW c, NEW r, NEW l, NEW replace, Binding!LoadDump(c, r, l, replace) PROVE Kept'
        BY <3>1, <4>1, <4>8 DEF Binding!LoadDump
      <4>9. ASSUME NEW c, NEW r, Binding!Drop(c, r) PROVE Kept'
        BY <3>1, <4>1, <4>9 DEF Binding!Drop
      <4>10. ASSUME NEW p, NEW c, NEW r, NEW m, NEW k, NEW read, Binding!BindRun(p, c, r, m, k, read)
             PROVE  Kept'
        <5>1. PICK leaf : leaf = Binding!Bound(gateway.dense, c, r)
          OBVIOUS
        <5>2. leaf.store \in {"qdrant", "stub"}
          <6>1. gateway.dense.store \in {"qdrant", "stub"}
            BY <3>1 DEF BindingInv, Binding!Stub, EnvLeaf, Binding!Leaf
          <6>2. leaf.store = gateway.dense.store
            BY <5>1 DEF Binding!Bound, Binding!Leaf
          <6>3. QED
            BY <6>1, <6>2
        <5>3. run'.pc = "bound" => run'.dense = leaf
          BY <4>10, <5>1 DEF Binding!BindRun
        <5>4. bound' = bound \/ \E host : bound' = [bound EXCEPT ![host] = "good"]
          BY <4>10 DEF Binding!BindRun
        <5>5. bound' \in [Own -> {"unset", "good", "stale"}]
          BY <3>1, <5>4
        <5>6. QED
          BY <5>2, <5>3, <5>5
      <4>11. QED
        BY <3>3, <4>2, <4>3, <4>4, <4>5, <4>6, <4>7, <4>8, <4>9, <4>10 DEF Binding!Step
    <3>4. QED
      BY <3>1, <3>2, <3>3 DEF Binding!Next
  <2>2. CASE UNCHANGED vars
    BY <2>2 DEF vars, bindingVars
  <2>3. QED
    BY <2>1, <2>2 DEF Next, HybridStep, QueryStep, ChatStep, HttpStep, GraphStep, PortsStep
<1>3. Inv /\ Known => (part = "binding" => Binding!TypeOK)
  BY DEF BindingInv, IndicesInv, Stems, Binding!TypeOK, Binding!Unset
<1>4. QED
  BY <1>1, <1>2, <1>3, BindingAlways, PTL DEF Spec

----------------------------------------------------------------------------
(* The graph of fragments *)

\* The edges of an instance are pairs of fragments it has, and only these have a community.
Joins(pairs, i) == \A p \in pairs : p \subseteq Graph!Present(i) /\ Graph!Cardinality(p) = 2
Grouped(numbers, i) == \A c \in GraphChunks : numbers[c] # 0 => c \in Graph!Present(i)

GraphShaped ==
    /\ DOMAIN edges = Graph!Instances
    /\ \A i \in Graph!Instances : DOMAIN edges[i] = Graph!EdgeTypes
    /\ \A i \in Graph!Instances, t \in Graph!EdgeTypes :
          Joins(edges[i][t], i) /\ Grouped(community[i][t], i)

LEMMA LinksJoin ==
  ASSUME NEW nodes, NEW here, here = {c \in GraphChunks : nodes[c].present}
  PROVE  /\ \A p \in Graph!LinkRelated(nodes) : p \subseteq here /\ Graph!Cardinality(p) = 2
         /\ \A p \in Graph!LinkSemantic(nodes) : p \subseteq here /\ Graph!Cardinality(p) = 2
<1>1. \A S, p : p \in Graph!kSubset(2, S) => p \subseteq S /\ Graph!Cardinality(p) = 2
  BY DEF Graph!kSubset
<1>2. \A w : Graph!With(nodes, w) \subseteq here
  BY DEF Graph!With
<1>3. ASSUME NEW p \in Graph!LinkRelated(nodes) PROVE p \subseteq here /\ Graph!Cardinality(p) = 2
  <2>1. PICK w : p \in Graph!kSubset(2, Graph!With(nodes, w))
    BY <1>3 DEF Graph!LinkRelated
  <2>2. QED
    BY <1>1, <1>2, <2>1
<1>4. ASSUME NEW p \in Graph!LinkSemantic(nodes) PROVE p \subseteq here /\ Graph!Cardinality(p) = 2
  <2>1. p \in Graph!kSubset(2, GraphChunks) /\ \A c \in p : nodes[c].present
    BY GraphAssumption DEF Graph!LinkSemantic, Graph!Assumptions
  <2>2. QED
    BY <1>1, <2>1
<1>5. QED
  BY <1>3, <1>4

\* What a load leaves behind: in instance i pairs of the fragments that are there now, and
\* communities of these alone; every other instance as it was.
LoadedWith(i, here) ==
    /\ DOMAIN edges' = Graph!Instances
    /\ DOMAIN edges'[i] = Graph!EdgeTypes
    /\ \A t \in Graph!EdgeTypes : \A p \in edges'[i][t] : p \subseteq here /\ Graph!Cardinality(p) = 2
    /\ \A t \in Graph!EdgeTypes : \A c \in GraphChunks : community'[i][t][c] # 0 => c \in here
    /\ \A j \in Graph!Instances \ {i} : edges'[j] = edges[j] /\ community'[j] = community[j]

LEMMA LoadKeepsShape ==
  ASSUME GraphInv, GraphShaped, NEW i \in Graph!Instances, NEW nodes,
         node' = [node EXCEPT ![i] = nodes],
         NEW here, here = {c \in GraphChunks : nodes[c].present},
         LoadedWith(i, here)
  PROVE  GraphShaped'
<1>1. node'[i] = nodes /\ \A j \in Graph!Instances \ {i} : node'[j] = node[j]
  BY DEF GraphInv
<1>2. Graph!Present(i)' = here
  BY <1>1 DEF Graph!Present
<1>3. \A j \in Graph!Instances \ {i} : Graph!Present(j)' = Graph!Present(j)
  BY <1>1 DEF Graph!Present
<1>4. ASSUME NEW j \in Graph!Instances, NEW t \in Graph!EdgeTypes
      PROVE  Joins(edges[j][t], j)' /\ Grouped(community[j][t], j)'
  <2>1. CASE j = i
    BY <1>2, <2>1 DEF LoadedWith, Joins, Grouped
  <2>2. CASE j # i
    <3>1. Joins(edges[j][t], j) /\ Grouped(community[j][t], j)
      BY DEF GraphShaped
    <3>2. Graph!Present(j)' = Graph!Present(j) /\ edges'[j] = edges[j] /\ community'[j] = community[j]
      BY <1>3, <2>2 DEF LoadedWith
    <3>3. QED
      BY <3>1, <3>2 DEF Joins, Grouped
  <2>3. QED
    BY <2>1, <2>2
<1>5. DOMAIN edges' = Graph!Instances /\ \A j \in Graph!Instances : DOMAIN edges'[j] = Graph!EdgeTypes
  BY DEF GraphShaped, LoadedWith
<1>6. QED
  BY <1>4, <1>5 DEF GraphShaped

LEMMA ImportKeepsShape ==
  ASSUME GraphInv, GraphShaped, NEW r \in Askers, NEW batch, NEW replace \in BOOLEAN,
         Graph!ImportChunks(r, batch, replace)
  PROVE  GraphShaped'
<1>1. PICK i : i = Graph!Instance(r)
  OBVIOUS
<1>2. PICK old : old = IF replace THEN Graph!Empty ELSE node[i]
  OBVIOUS
<1>3. PICK nodes : nodes = Graph!Added(old, r, batch)
  OBVIOUS
<1>4. i \in Graph!Instances
  BY <1>1, InstanceIs
<1>5. node' = [node EXCEPT ![i] = nodes]
  BY <1>1, <1>2, <1>3, <1>4 DEF Graph!ImportChunks, GraphInv
<1>6. \A c \in GraphChunks : old[c].present => nodes[c].present
  BY <1>3 DEF Graph!Added
<1>7. PICK here : here = {c \in GraphChunks : nodes[c].present}
  OBVIOUS
<1>8. CASE replace
  <2>1. /\ edges' = [edges EXCEPT ![i] = [t \in Graph!EdgeTypes |-> {}]]
        /\ community' = [community EXCEPT ![i] = [t \in Graph!EdgeTypes |-> [c \in GraphChunks |-> 0]]]
    BY <1>1, <1>8 DEF Graph!ImportChunks, Graph!Cleared
  <2>2. /\ \A j \in Graph!Instances \ {i} : community'[j] = community[j]
        /\ \A t \in Graph!EdgeTypes : \A c \in GraphChunks : community'[i][t][c] = 0
    BY <1>4, <2>1 DEF GraphInv
  <2>3. /\ DOMAIN edges' = Graph!Instances /\ DOMAIN edges'[i] = Graph!EdgeTypes
        /\ \A t \in Graph!EdgeTypes : edges'[i][t] = {}
        /\ \A j \in Graph!Instances \ {i} : edges'[j] = edges[j]
    BY <1>4, <2>1 DEF GraphShaped
  <2>4. LoadedWith(i, here)
    BY <2>2, <2>3 DEF LoadedWith
  <2>5. QED
    BY <1>4, <1>5, <1>7, <2>4, LoadKeepsShape
<1>9. CASE ~replace
  <2>1. edges' = edges /\ community' = community /\ old = node[i]
    BY <1>2, <1>9 DEF Graph!ImportChunks
  <2>2. Graph!Present(i) \subseteq here
    BY <1>6, <1>7, <2>1 DEF Graph!Present
  <2>3. \A t \in Graph!EdgeTypes : Joins(edges[i][t], i) /\ Grouped(community[i][t], i)
    BY <1>4 DEF GraphShaped
  <2>4. LoadedWith(i, here)
    BY <1>4, <2>1, <2>2, <2>3 DEF GraphShaped, Joins, Grouped, LoadedWith
  <2>5. QED
    BY <1>4, <1>5, <1>7, <2>4, LoadKeepsShape
<1>10. QED
  BY <1>8, <1>9

LEMMA IngestFilesKeepsShape ==
  ASSUME GraphInv, GraphShaped, NEW r \in Askers, NEW batch, Graph!IngestFiles(r, batch)
  PROVE  GraphShaped'
<1>1. PICK i : i = Graph!Instance(r)
  OBVIOUS
<1>2. PICK nodes : nodes = Graph!Added(node[i], r, batch)
  OBVIOUS
<1>3. i \in Graph!Instances
  BY <1>1, InstanceIs
<1>4. node' = [node EXCEPT ![i] = nodes] /\ community' = community
  BY <1>1, <1>2 DEF Graph!IngestFiles
<1>5. PICK lexical \in SUBSET Graph!LinkRelated(nodes), semantic \in SUBSET Graph!LinkSemantic(nodes) :
        edges' = [edges EXCEPT ![i] = [lexical |-> edges[i]["lexical"] \cup lexical,
                                       semantic |-> edges[i]["semantic"] \cup semantic]]
  BY <1>1, <1>2, <1>3 DEF Graph!IngestFiles, GraphShaped
<1>6. PICK links : links = [lexical |-> edges[i]["lexical"] \cup lexical,
                            semantic |-> edges[i]["semantic"] \cup semantic]
  OBVIOUS
<1>7. /\ DOMAIN links = Graph!EdgeTypes
      /\ links["lexical"] = edges[i]["lexical"] \cup lexical
      /\ links["semantic"] = edges[i]["semantic"] \cup semantic
  BY <1>6 DEF Graph!EdgeTypes
<1>8. PICK here : here = {c \in GraphChunks : nodes[c].present}
  OBVIOUS
<1>9. Graph!Present(i) \subseteq here
  BY <1>2, <1>8 DEF Graph!Present, Graph!Added
<1>10. \A t \in Graph!EdgeTypes : Joins(edges[i][t], i) /\ Grouped(community[i][t], i)
  BY <1>3 DEF GraphShaped
<1>11. \A p \in lexical \cup semantic : p \subseteq here /\ Graph!Cardinality(p) = 2
  BY <1>8, LinksJoin
<1>12. ASSUME NEW t \in Graph!EdgeTypes, NEW p \in links[t]
       PROVE  p \subseteq here /\ Graph!Cardinality(p) = 2
  <2>1. p \in edges[i][t] \/ p \in lexical \cup semantic
    BY <1>7, <1>12 DEF Graph!EdgeTypes
  <2>2. QED
    BY <1>9, <1>10, <1>11, <2>1 DEF Joins
<1>13. /\ DOMAIN edges' = Graph!Instances /\ edges'[i] = links
       /\ \A j \in Graph!Instances \ {i} : edges'[j] = edges[j]
  BY <1>3, <1>5, <1>6 DEF GraphShaped
<1>14. \A t \in Graph!EdgeTypes : \A c \in GraphChunks : community'[i][t][c] # 0 => c \in here
  BY <1>4, <1>9, <1>10 DEF Grouped
<1>15. LoadedWith(i, here)
  BY <1>4, <1>7, <1>12, <1>13, <1>14 DEF LoadedWith
<1>16. QED
  BY <1>3, <1>4, <1>8, <1>15, LoadKeepsShape

LEMMA DetectKeepsShape ==
  ASSUME GraphInv, GraphShaped, NEW r \in Askers, NEW t \in Graph!EdgeTypes, Graph!Detect(r, t)
  PROVE  GraphShaped'
<1>1. PICK i \in Graph!Instances : i = Graph!Instance(r)
  BY InstanceIs
<1>2. node' = node /\ edges' = edges
  BY DEF Graph!Detect
<1>3. \A j : Graph!Present(j)' = Graph!Present(j)
  BY <1>2 DEF Graph!Present
<1>4. ASSUME \A j \in Graph!Instances, u \in Graph!EdgeTypes : Grouped(community'[j][u], j)
      PROVE  GraphShaped'
  BY <1>2, <1>3, <1>4 DEF GraphShaped, Joins, Grouped
<1>5. CASE community' = community
  BY <1>4, <1>5 DEF GraphShaped
<1>6. CASE community' # community
  <2>1. PICK clustering \in Graph!Clusterings(i, t) : community' = [community EXCEPT ![i][t] = clustering]
    BY <1>1, <1>6 DEF Graph!Detect, Graph!WriteCommunity
  <2>2. /\ community'[i][t] = clustering
        /\ \A j \in Graph!Instances, u \in Graph!EdgeTypes :
              j # i \/ u # t => community'[j][u] = community[j][u]
    BY <1>1, <2>1 DEF GraphInv
  <2>3. Grouped(clustering, i)
    BY DEF Graph!Clusterings, Grouped
  <2>4. QED
    BY <1>4, <2>2, <2>3 DEF GraphShaped
<1>7. QED
  BY <1>5, <1>6

LEMMA GraphShape == Spec => [](part = "graph" => Graph!TypeOK)
<1> DEFINE Inv == part = "graph" => GraphShaped
           Known == part = "graph" => GraphInv
<1>1. Init => Inv
  <2> SUFFICES ASSUME Graph!Init PROVE GraphShaped
    BY DEF Init
  <2>1. /\ edges = [i \in Graph!Instances |-> [t \in Graph!EdgeTypes |-> {}]]
        /\ community = [i \in Graph!Instances |-> [t \in Graph!EdgeTypes |-> [c \in GraphChunks |-> 0]]]
    BY DEF Graph!Init
  <2>2. QED
    BY <2>1 DEF GraphShaped, Joins, Grouped
<1>2. Known /\ Inv /\ [Next]_vars => Inv'
  <2> SUFFICES ASSUME Known, Inv, [Next]_vars, part' = "graph" PROVE GraphShaped'
    OBVIOUS
  <2>1. ASSUME UNCHANGED <<node, edges, community>>, GraphShaped PROVE GraphShaped'
    BY <2>1 DEF GraphShaped, Joins, Grouped, Graph!Present
  <2>2. CASE GraphStep
    <3>1. part = "graph" /\ GraphInv /\ GraphShaped /\ Graph!Next
      BY <2>2 DEF GraphStep
    <3>2. ASSUME NEW r, NEW t, NEW n, Graph!Detail(r, t, n) PROVE GraphShaped'
      BY <2>1, <3>1, <3>2 DEF Graph!Detail
    <3>3. QED
      BY <3>1, <3>2, ImportKeepsShape, IngestFilesKeepsShape, DetectKeepsShape DEF Graph!Next, Askers
  <2>3. CASE UNCHANGED vars
    BY <2>1, <2>3 DEF vars, graphVars
  <2>4. QED
    BY <2>2, <2>3 DEF Next, HybridStep, BindingStep, QueryStep, ChatStep, HttpStep, PortsStep
<1>3. GraphShaped => Graph!TypeOK
  BY DEF GraphShaped, Joins, Grouped, Graph!TypeOK
<1>4. QED
  BY <1>1, <1>2, <1>3, GraphAlways, PTL DEF Spec

----------------------------------------------------------------------------
(* The generator of graph stores *)

Job == [realm : PortRealms \cup {-1}, pc : {"up", "poll"}, polls : Nat]

PortsShaped ==
    /\ overlay \in SUBSET Service
    /\ container \in [PortRealms -> [health : Provisioning!Healths, port : Ports \cup {-1}]]
    /\ jobs \in Seq(Job)
    /\ \A i \in DOMAIN jobs : jobs[i].polls < MaxPolls

\* A job that ends leaves the others as they were.
LEMMA EndKeepsTheOthers ==
  ASSUME PortsShaped, NEW i \in DOMAIN jobs, NEW how, Provisioning!Ends(i, how)
  PROVE  jobs' \in Seq(Job) /\ \A k \in DOMAIN jobs' : jobs'[k].polls < MaxPolls
<1>1. PICK places \in SUBSET DOMAIN jobs : places = DOMAIN jobs \ {i}
  OBVIOUS
<1>2. Provisioning!Only(jobs, places) = Only(jobs, places)
  BY DEF Provisioning!Only, Provisioning!Nth, Provisioning!Cardinality, Only, Nth, Cardinality
<1>3. jobs' = Only(jobs, places)
  BY <1>1, <1>2 DEF Provisioning!Ends
<1>4. jobs \in Seq(Job)
  BY DEF PortsShaped
<1>5. PICK kept : kept = Only(jobs, places)
  OBVIOUS
<1>6. kept \in Seq(Job) /\ \A k \in DOMAIN kept : \E j \in DOMAIN jobs : kept[k] = jobs[j]
  <2>1. /\ Only(jobs, places) \in Seq(Job)
        /\ \A k \in DOMAIN Only(jobs, places) :
              Nth(places, k) \in places /\ Only(jobs, places)[k] = jobs[Nth(places, k)]
    BY <1>4, OnlyTakesThePlaces
  <2>2. QED
    BY <1>1, <1>5, <2>1
<1>7. QED
  BY <1>3, <1>5, <1>6 DEF PortsShaped

LEMMA JobKeepsShape ==
  ASSUME PortsShaped, NEW i \in DOMAIN jobs, Provisioning!RunJob(i) PROVE PortsShaped'
<1>1. /\ jobs \in Seq(Job) /\ jobs[i] \in Job /\ overlay' = overlay
      /\ overlay \in SUBSET Service
  BY DEF PortsShaped, Provisioning!RunJob, Provisioning!Up, Provisioning!Poll
<1>2. ASSUME NEW how, Provisioning!Ends(i, how), container' = container PROVE PortsShaped'
  <2>1. jobs' \in Seq(Job) /\ \A k \in DOMAIN jobs' : jobs'[k].polls < MaxPolls
    BY <1>2, EndKeepsTheOthers
  <2>2. QED
    BY <1>1, <1>2, <2>1 DEF PortsShaped
<1>3. ASSUME NEW s \in overlay,
             container' = [container EXCEPT ![jobs[i].realm] =
                   IF @.port = s.port /\ @.health \in {"healthy", "unhealthy"} THEN @
                   ELSE [health |-> "starting", port |-> s.port]],
             jobs' = [jobs EXCEPT ![i].pc = "poll"]
      PROVE  PortsShaped'
  <2>1. s.port \in Ports
    BY <1>1 DEF Service
  <2>2. PICK new : new = [health |-> "starting", port |-> s.port]
    OBVIOUS
  <2>3. new \in [health : Provisioning!Healths, port : Ports \cup {-1}]
    BY <2>1, <2>2 DEF Provisioning!Healths
  <2>4. container' = container \/ container' = [container EXCEPT ![jobs[i].realm] = new]
    <3>1. CASE jobs[i].realm \in DOMAIN container
      BY <1>3, <2>2, <3>1 DEF PortsShaped
    <3>2. CASE jobs[i].realm \notin DOMAIN container
      BY <1>3, <3>2 DEF PortsShaped
    <3>3. QED
      BY <3>1, <3>2
  <2>5. container' \in [PortRealms -> [health : Provisioning!Healths, port : Ports \cup {-1}]]
    BY <2>3, <2>4 DEF PortsShaped
  <2>6. PICK job : job = [jobs[i] EXCEPT !.pc = "poll"]
    OBVIOUS
  <2>7. job \in Job /\ job.polls = jobs[i].polls
    BY <1>1, <2>6 DEF Job
  <2>8. jobs' = [jobs EXCEPT ![i] = job]
    BY <1>3, <2>6
  <2>9. jobs' \in Seq(Job) /\ \A k \in DOMAIN jobs' : jobs'[k].polls < MaxPolls
    BY <1>1, <2>7, <2>8 DEF PortsShaped
  <2>10. QED
    BY <1>1, <2>5, <2>9 DEF PortsShaped
<1>4. ASSUME jobs[i].polls + 1 # MaxPolls, container' = container,
             jobs' = [jobs EXCEPT ![i].polls = @ + 1]
      PROVE  PortsShaped'
  <2>1. PICK job : job = [jobs[i] EXCEPT !.polls = jobs[i].polls + 1]
    OBVIOUS
  <2>2. jobs[i].polls \in Nat /\ jobs[i].polls < MaxPolls /\ MaxPolls \in Nat
    BY <1>1, PortsAssumption DEF PortsShaped, Job, Provisioning!Assumptions
  <2>3. job \in Job /\ job.polls = jobs[i].polls + 1
    BY <1>1, <2>1, <2>2 DEF Job
  <2>4. jobs' = [jobs EXCEPT ![i] = job]
    BY <1>4, <2>1
  <2>5. /\ jobs' \in Seq(Job) /\ DOMAIN jobs' = DOMAIN jobs /\ jobs'[i] = job
        /\ \A k \in DOMAIN jobs : k # i => jobs'[k] = jobs[k]
    BY <1>1, <2>3, <2>4
  <2>6. job.polls < MaxPolls
    BY <1>4, <2>2, <2>3
  <2>7. \A k \in DOMAIN jobs' : jobs'[k].polls < MaxPolls
    BY <2>5, <2>6 DEF PortsShaped
  <2>8. QED
    BY <1>1, <1>4, <2>5, <2>7 DEF PortsShaped
<1>5. CASE Provisioning!Up(i)
  BY <1>2, <1>3, <1>5 DEF Provisioning!Up
<1>6. CASE Provisioning!Poll(i)
  <2>1. PICK health : health = container[jobs[i].realm].health
    OBVIOUS
  <2>2. PICK verdict : verdict = Provisioning!Verdict(health, Provisioning!LastPoll(i))
    OBVIOUS
  <2>3. /\ container' = container
        /\ IF verdict # "running" THEN Provisioning!Ends(i, verdict)
           ELSE jobs' = [jobs EXCEPT ![i].polls = @ + 1]
    BY <1>6, <2>1, <2>2 DEF Provisioning!Poll
  <2>4. CASE verdict # "running"
    BY <1>2, <2>3, <2>4
  <2>5. CASE verdict = "running"
    <3>1. jobs[i].polls + 1 # MaxPolls
      BY <2>2, <2>5 DEF Provisioning!Verdict, Provisioning!LastPoll
    <3>2. QED
      BY <1>4, <2>3, <2>5, <3>1
  <2>6. QED
    BY <2>4, <2>5
<1>7. QED
  BY <1>5, <1>6 DEF Provisioning!RunJob

LEMMA PortsStepKeepsShape == ASSUME PortsInv, PortsShaped, Provisioning!Next PROVE PortsShaped'
<1>1. ASSUME UNCHANGED <<overlay, container, jobs>> PROVE PortsShaped'
  BY <1>1 DEF PortsShaped
<1>2. ASSUME NEW r \in PortRealms,
             Provisioning!Register(r) \/ Provisioning!IngestGraph(r)
      PROVE  PortsShaped'
  BY <1>1, <1>2 DEF Provisioning!Register, Provisioning!IngestGraph
<1>3. ASSUME NEW r \in PortRealms, Provisioning!ContainerChanges(r) PROVE PortsShaped'
  <2>1. PICK now \in Provisioning!Healths : container' = [container EXCEPT ![r].health = now]
    BY <1>3 DEF Provisioning!ContainerChanges
  <2>2. UNCHANGED <<overlay, jobs>>
    BY <1>3 DEF Provisioning!ContainerChanges
  <2>3. container' \in [PortRealms -> [health : Provisioning!Healths, port : Ports \cup {-1}]]
    BY <2>1 DEF PortsShaped
  <2>4. QED
    BY <2>2, <2>3 DEF PortsShaped
<1>4. ASSUME NEW h \in Handlers,
             \/ \E r \in PortRealms : Provisioning!Post(h, r)
             \/ Provisioning!Scan(h) \/ Provisioning!Assign(h) \/ Provisioning!AskHealth(h)
      PROVE  PortsShaped'
  BY <1>1, <1>4 DEF Provisioning!Post, Provisioning!Scan, Provisioning!Assign, Provisioning!AskHealth
<1>5. ASSUME NEW h \in Handlers, Provisioning!Decide(h) PROVE PortsShaped'
  <2>1. handler[h].services \in SUBSET Service
    BY DEF PortsInv, Local
  <2>2. overlay' \in SUBSET Service /\ UNCHANGED <<container, jobs>>
    BY <1>5, <2>1 DEF Provisioning!Decide, Provisioning!WriteOverlay, PortsShaped
  <2>3. QED
    BY <2>2 DEF PortsShaped
<1>6. ASSUME NEW h \in Handlers, Provisioning!StartJob(h) PROVE PortsShaped'
  <2>1. PICK job : job = [realm |-> handler[h].realm, pc |-> "up", polls |-> 0]
    OBVIOUS
  <2>2. jobs' = Append(jobs, job) /\ UNCHANGED <<overlay, container>>
    BY <1>6, <2>1 DEF Provisioning!StartJob
  <2>3. handler[h].realm \in PortRealms \cup {-1}
    BY DEF PortsInv, Local
  <2>4. job \in Job /\ job.polls = 0 /\ 0 < MaxPolls
    BY <2>1, <2>3, PortsAssumption DEF Job, Provisioning!Assumptions
  <2>5. jobs' \in Seq(Job) /\ \A k \in DOMAIN jobs' : jobs'[k].polls < MaxPolls
    BY <2>2, <2>4 DEF PortsShaped
  <2>6. QED
    BY <2>2, <2>5 DEF PortsShaped
<1>7. QED
  BY <1>2, <1>3, <1>4, <1>5, <1>6, JobKeepsShape DEF Provisioning!Next, Provisioning!HandlerStep

LEMMA PortsShape == Spec => [](part = "ports" => Provisioning!TypeOK)
<1> DEFINE Inv == part = "ports" => PortsShaped
           Known == part = "ports" => PortsInv
<1>1. Init => Inv
  <2> SUFFICES ASSUME Provisioning!Init PROVE PortsShaped
    BY DEF Init
  <2>1. /\ overlay = {} /\ jobs = <<>>
        /\ container = [r \in PortRealms |-> [health |-> "none", port |-> -1]]
    BY PortsGiven DEF Provisioning!Init
  <2>2. QED
    BY <2>1 DEF PortsShaped, Provisioning!Healths
<1>2. Known /\ Inv /\ [Next]_vars => Inv'
  <2> SUFFICES ASSUME Known, Inv, [Next]_vars, part' = "ports" PROVE PortsShaped'
    OBVIOUS
  <2>1. CASE PortsStep
    BY <2>1, PortsStepKeepsShape DEF PortsStep
  <2>2. CASE UNCHANGED vars
    BY <2>2 DEF vars, provisioningVars, PortsShaped
  <2>3. QED
    BY <2>1, <2>2 DEF Next, HybridStep, BindingStep, QueryStep, ChatStep, HttpStep, GraphStep
<1>3. PortsInv /\ PortsShaped => Provisioning!TypeOK
  <2> SUFFICES ASSUME PortsInv, PortsShaped PROVE Provisioning!TypeOK
    OBVIOUS
  <2>1. Provisioning!Range(registry) \subseteq PortRealms /\ Provisioning!IsInjective(registry)
    BY DEF PortsInv, Provisioning!Range, Provisioning!IsInjective
  <2>2. uri \in [PortRealms -> Provisioning!Uris]
    BY PortsGiven DEF PortsInv, Provisioning!Uris
  <2>3. \A s \in overlay : s.realm \in PortRealms /\ s.port \in Ports
    BY DEF PortsShaped, Service
  <2>4. \A r \in PortRealms : container[r].health \in Provisioning!Healths
    BY DEF PortsShaped
  <2>5. QED
    BY <2>1, <2>2, <2>3, <2>4 DEF PortsShaped, Provisioning!TypeOK
<1>4. QED
  BY <1>1, <1>2, <1>3, PortsAlways, PTL DEF Spec

----------------------------------------------------------------------------
(* What all of them keep *)

\* Whatever is asked, loaded, provisioned and answered, the state of each component keeps its
\* shape: a retrieval's list falls and has no fragment twice, the cache of chats is bounded and
\* holds the last question of an id, edges join two fragments that are there, and a job is not
\* polled for longer than its bound.
THEOREM AnsweringKeepsItsShape == Spec => []TypeOK
<1> DEFINE Known == /\ part = "retrieval" => HybridInv
                    /\ part = "query" => QueryInv
                    /\ part = "chat" => ChatInv
           Shaped == /\ part = "binding" => Binding!TypeOK
                     /\ part = "http" => Http!TypeOK
                     /\ part = "graph" => Graph!TypeOK
                     /\ part = "ports" => Provisioning!TypeOK
<1>1. Known /\ Shaped => TypeOK
  BY HybridShape, QueryShape, ChatShape DEF TypeOK
<1>2. Spec => []Known
  BY HybridAlways, QueryAlways, ChatAlways, PTL
<1>3. Spec => []Shaped
  BY BindingShape, HttpShape, GraphShape, PortsShape, PTL
<1> HIDE DEF Known, Shaped
<1>4. QED
  BY <1>1, <1>2, <1>3, PTL

\* No single step breaks its word: a chat that begins is answered by a RAG its realm has at that
\* moment, or in process; where nothing was rewritten and the pins have places, the context a
\* model is given holds every fragment a pin put in; and the merge with the graph's list keeps the order of two
\* fragments that both lists order alike (api_gateway/main.py, query; core/pins/overlay.py;
\* core/retrieval/graph_hybrid.py).
THEOREM StepsAlwaysKeepTheirWord == Spec => StepsKeepTheirWord
<1> DEFINE Known == /\ part = "retrieval" => HybridInv
                    /\ part = "query" => QueryInv
                    /\ part = "chat" => ChatInv
           Kept == /\ part = "chat" => Chat!RagIsOfTheRealm
                   /\ part = "query" => Query!InjectedIsKept
                   /\ part = "retrieval" => Hybrid!GraphKeepsTheOrderBothGive
<1>1. Known /\ [Next]_vars => [Kept]_vars
  <2> SUFFICES ASSUME Known, Next PROVE Kept
    OBVIOUS
  <2>1. CASE ChatStep
    BY <2>1, ChatStepKeeps DEF ChatStep
  <2>2. CASE QueryStep
    BY <2>2, QueryStepKeeps DEF QueryStep
  <2>3. CASE HybridStep
    BY <2>3, HybridStepKeeps DEF HybridStep
  <2>4. QED
    BY <2>1, <2>2, <2>3 DEF Next, BindingStep, HttpStep, GraphStep, PortsStep
<1>2. Spec => []Known
  BY HybridAlways, QueryAlways, ChatAlways, PTL
<1>3. StepsKeepTheirWord <=> [][Kept]_vars
  BY DEF StepsKeepTheirWord
<1> HIDE DEF Known, Kept
<1>4. QED
  BY <1>1, <1>2, <1>3, PTL DEF Spec

=============================================================================
