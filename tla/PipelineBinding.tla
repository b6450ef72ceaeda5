---------------------------- MODULE PipelineBinding ----------------------------
(***************************************************************************)
(* Which stores a question reaches.  The gateway registers its pipelines   *)
(* at start-up over what answers then (services/api_gateway/main.py); a    *)
(* run rebinds the registered retriever to its corpus and realm            *)
(* (core/experiment/runner.py and the for_corpus of every adapter), and a  *)
(* chat builds its own (main.py again).  Realms edit their instances, and  *)
(* containers come and go with other passwords, in between.                *)
(***************************************************************************)
EXTENDS Integers, FiniteSets, FiniteSetsExt, Functions

CONSTANTS
    Realms, NoRealm,
    Corpora,        \* "default" is the one the gateway starts on
    Own,            \* instances a realm may have of its own, beside "env"
    Languages,      \* analysers a corpus may be ingested with; "ru_be" is the default
    Merges,         \* merge strategies a run may ask for
    RrfKs,          \* rrf_k a run may ask for
    MaxWritten      \* bound: sparse indices, the loads they hold and the one under way

Scopes == Realms \cup {NoRealm}
Unset == "unset"
Stub == [store |-> "stub"]
Nothing == [store |-> "none"]
Stores == {"qdrant", "opensearch", "neo4j"}

Assumptions == Unset \notin Languages

VARIABLES
    gateway,    \* what start-up registered
    resources,  \* resources[realm][store]: a realm's own instance, Unset without
    bound,      \* _BOUND: whether the graph retriever of a store has a password it takes
    index,      \* sparse indices: their analyser, and the loads whose text they hold
    loading,    \* the ingestion that is under way
    run         \* the retriever the last run was given

vars == <<gateway, resources, bound, index, loading, run>>

Leaf(store, host, corpus, realm) ==
    [store |-> store, host |-> host, corpus |-> corpus, realm |-> realm]

Off == [on |-> FALSE, dense |-> Stub, sparse |-> Nothing, graph |-> Stub]
NoRun == [pc |-> "none"]
NoFusing == [merge |-> Unset, rrfK |-> 0]
NoIndex == [analyser |-> Unset, loads |-> {}]
Idle == [state |-> "idle"]
\* The language of a load, and (a history) whether the index it went to is one whose analyser
\* it was compared with, or whose making it asked for.
Load(language, compared) == [language |-> language, compared |-> compared]

IndexKeys == (Own \cup {"env"}) \X Corpora \X Scopes
Key(leaf) == <<leaf.host, leaf.corpus, leaf.realm>>

Init ==
    /\ gateway = Off
    /\ resources = [r \in Realms |-> [s \in Stores |-> Unset]]
    /\ bound = [u \in Own |-> Unset]
    /\ index = [k \in IndexKeys |-> NoIndex]
    /\ loading = Idle /\ run = NoRun

Written(indices, pending) ==
    LET made == {k \in IndexKeys : indices[k] # NoIndex} IN
    Cardinality(made) + Cardinality(UNION {{k} \X indices[k].loads : k \in made})
        + (IF pending = Idle THEN 0 ELSE 1)
RoomForIndices == <<index', loading'>> # <<index, loading>> => Written(index', loading') <= MaxWritten

---------------------------------------------------------------------------
(* Start-up *)

\* Variant with a bug: an index that is there is taken as it is.
EnsuredAnyway(k, language, read) == TRUE

\* OpenSearchRetriever._ensure_index: an index keeps its analyser for life, and another one
\* is refused (AnalyzerMismatch), where the mapping could be read.
Ensured(k, language, read) == index[k].analyser \in {Unset, language} \/ ~read

WithIndex(k, language) ==
    IF index[k].analyser = Unset THEN [index EXCEPT ![k].analyser = language] ELSE index

\* lifespan, _build_retriever, _build_hybrid_retriever, _register_graph_pipeline: what does
\* not answer then (up does) is stood in for, for as long as the gateway runs.
Start(up, read) ==
    LET env == Leaf("opensearch", "env", "default", NoRealm)
        sparse == "opensearch" \in up /\ Ensured(Key(env), "ru_be", read) IN
    /\ ~gateway.on
    /\ gateway' = [on |-> TRUE,
                   dense |-> IF "qdrant" \in up THEN Leaf("qdrant", "env", "default", NoRealm) ELSE Stub,
                   sparse |-> IF sparse THEN env ELSE Nothing,
                   graph |-> IF "neo4j" \in up THEN Leaf("neo4j", "env", "default", NoRealm) ELSE Stub]
    /\ index' = IF sparse THEN WithIndex(Key(env), "ru_be") ELSE index
    /\ UNCHANGED <<resources, bound, loading, run>>
    /\ RoomForIndices

\* A gateway that stops forgets the graph stores it was bound to.
Stop ==
    /\ gateway.on
    /\ gateway' = Off /\ bound' = [u \in Own |-> Unset]
    /\ UNCHANGED <<resources, index, loading, run>>

\* A realm is given an instance, or loses it.
EditResource(r, store, host) ==
    /\ resources[r][store] # host
    /\ resources' = [resources EXCEPT ![r][store] = host]
    /\ UNCHANGED <<gateway, bound, index, loading, run>>

\* The container behind a graph store is made again with another password, which the realm's
\* resource then carries.
Rotate(u) ==
    /\ bound[u] = "good"
    /\ bound' = [bound EXCEPT ![u] = "stale"]
    /\ UNCHANGED <<gateway, resources, index, loading, run>>

---------------------------------------------------------------------------
(* Loads *)

Instance(r, store) == IF r = NoRealm THEN Unset ELSE resources[r][store]
HostOf(r, store) == IF Instance(r, store) = Unset THEN "env" ELSE Instance(r, store)
IndexOf(c, r) == <<HostOf(r, "opensearch"), c, r>>

\* cli.ingest ensures the index of its corpus, in the language it was asked for ...
StartIngest(c, r, language, read) ==
    LET k == IndexOf(c, r) IN
    /\ loading = Idle
    /\ Ensured(k, language, read)
    /\ index' = WithIndex(k, language)
    /\ loading' = [state |-> "writing", key |-> k,
                   load |-> Load(language, read \/ index[k].analyser = Unset)]
    /\ RoomForIndices
    /\ UNCHANGED <<gateway, resources, bound, run>>

\* ... and index_chunks writes to it later.  An index that is gone is made again by the write,
\* with the analyser OpenSearch has for text it was told nothing of.
EndIngest ==
    /\ loading # Idle
    /\ index' = [WithIndex(loading.key, "standard") EXCEPT ![loading.key].loads = @ \cup {loading.load}]
    /\ loading' = Idle /\ RoomForIndices
    /\ UNCHANGED <<gateway, resources, bound, run>>

\* The ingestion that is under way when its index is taken away writes to one it never saw.
Overtaken(k) ==
    IF loading # Idle /\ loading.key = k THEN [loading EXCEPT !.load.compared = FALSE] ELSE loading

\* ingest_opensearch_dump: the index that is there, whatever its analyser, or one made for
\* the default language.
LoadDump(c, r, language, replace) ==
    LET k == IndexOf(c, r)
        there == ~replace /\ index[k].analyser # Unset IN
    /\ gateway.on
    /\ index' = [index EXCEPT ![k] =
                   [analyser |-> IF there THEN @.analyser ELSE "ru_be",
                    loads |-> (IF there THEN @.loads ELSE {}) \cup {Load(language, FALSE)}]]
    /\ loading' = IF there THEN loading ELSE Overtaken(k)
    /\ RoomForIndices
    /\ UNCHANGED <<gateway, resources, bound, run>>

\* delete_collection, the hard way: the index goes with the corpus.
Drop(c, r) ==
    /\ gateway.on /\ index[IndexOf(c, r)] # NoIndex
    /\ index' = [index EXCEPT ![IndexOf(c, r)] = NoIndex]
    /\ loading' = Overtaken(IndexOf(c, r))
    /\ UNCHANGED <<gateway, resources, bound, run>>

---------------------------------------------------------------------------
(* A run *)

\* for_corpus of the two halves: itself when nothing would differ, or a copy.
Bound(base, c, r) ==
    IF base.store \in {"stub", "none"} \/ (c = base.corpus /\ r = base.realm /\ Instance(r, base.store) = Unset)
    THEN base
    ELSE Leaf(base.store, IF Instance(r, base.store) = Unset THEN base.host ELSE Instance(r, base.store),
              c, r)

\* for_corpus of the graph: one retriever per store, made with the password of the first run
\* that reached it.
GraphOf(r) ==
    LET u == Instance(r, "neo4j") IN
    IF gateway.graph = Stub \/ u = Unset THEN gateway.graph ELSE Leaf("neo4j", u, "default", NoRealm)

\* The registered pipelines.
Pipelines == {"naive", "hybrid_rrf", "hybrid_weighted", "graph"}
IsHybrid(p) == p \in {"hybrid_rrf", "hybrid_weighted"} /\ gateway.sparse # Nothing

\* with_fusion: what the run asks for, and what the entry was built with where it asks nothing.
\* A strategy nobody knows leaves the retriever as built.
Fusing(p, merge, k) ==
    LET built == IF p = "hybrid_rrf" THEN "rrf" ELSE "weighted" IN
    IF merge \in {"rrf", "weighted", Unset}
    THEN [merge |-> IF merge = Unset THEN built ELSE merge, rrfK |-> k]
    ELSE [merge |-> built, rrfK |-> 60]

\* _for_the_corpus and _fusing_as.  The copy of the sparse half ensures its index in the
\* language the gateway's own half has, and the run fails when that is refused.
BindRun(p, c, r, merge, k, read) ==
    LET dense == Bound(gateway.dense, c, r)
        sparse == IF IsHybrid(p) THEN Bound(gateway.sparse, c, r) ELSE Nothing
        refused == sparse # Nothing /\ sparse # gateway.sparse /\ ~Ensured(Key(sparse), "ru_be", read)
        graph == IF p = "graph" THEN GraphOf(r) ELSE Nothing
        own == graph.store = "neo4j" /\ graph.host # "env" IN
    /\ gateway.on
    /\ run' = IF refused THEN [pc |-> "refused", corpus |-> c, realm |-> r, sparse |-> sparse]
              ELSE [pc |-> "bound", corpus |-> c, realm |-> r, pipeline |-> p,
                    dense |-> dense, sparse |-> sparse, graph |-> graph,
                    asked |-> [merge |-> merge, rrfK |-> k],
                    fusing |-> IF IsHybrid(p) THEN Fusing(p, merge, k) ELSE NoFusing]
    /\ bound' = IF own /\ bound[graph.host] = Unset
                THEN [bound EXCEPT ![graph.host] = "good"] ELSE bound
    /\ index' = IF sparse \in {Nothing, gateway.sparse} \/ refused THEN index
                ELSE WithIndex(Key(sparse), "ru_be")
    /\ UNCHANGED <<gateway, resources, loading>>
    /\ RoomForIndices

\* No step reads what the last run was given: it is looked at and forgotten.
Forget ==
    /\ run # NoRun /\ run' = NoRun
    /\ UNCHANGED <<gateway, resources, bound, index, loading>>

Step ==
    \/ \E up \in SUBSET Stores, read \in BOOLEAN : Start(up, read)
    \/ Stop
    \/ \E r \in Realms, s \in Stores, h \in Own \cup {Unset} : EditResource(r, s, h)
    \/ \E u \in Own : Rotate(u)
    \/ \E c \in Corpora, r \in Scopes, l \in Languages, read \in BOOLEAN : StartIngest(c, r, l, read)
    \/ EndIngest
    \/ \E c \in Corpora, r \in Realms, l \in Languages, replace \in BOOLEAN :
          LoadDump(c, r, l, replace)
    \/ \E c \in Corpora, r \in Scopes : Drop(c, r)
    \/ \E p \in Pipelines, c \in Corpora, r \in Scopes, m \in Merges, k \in RrfKs, read \in BOOLEAN :
          BindRun(p, c, r, m, k, read)
Next == Forget \/ (run = NoRun /\ Step)

Spec == Init /\ [][Next]_vars

---------------------------------------------------------------------------
(* A chat: _build_realm_scoped_retriever with _resolve_qdrant and _resolve_neo4j. *)

ChatLeaf(store, c, r) == Leaf(store, HostOf(r, store), c, r)

ChatSparse(p, c, r) ==
    IF p \in {"hybrid_rrf", "hybrid_weighted"} THEN ChatLeaf("opensearch", c, r) ELSE Nothing
ChatGraph(p, r) ==
    IF p = "graph" THEN Leaf("neo4j", HostOf(r, "neo4j"), "default", NoRealm) ELSE Nothing

---------------------------------------------------------------------------
(* Properties *)

TypeOK ==
    /\ bound \in [Own -> {Unset, "good", "stale"}]
    /\ \A k \in IndexKeys : index[k].loads # {} => index[k].analyser # Unset
    /\ run.pc = "bound" => run.dense.store \in {"qdrant", "stub"}

\* A run reads its own corpus, of its own realm, on the realm's own instance where it keeps
\* one ("every run queried the start-up collection on the gateway's own instance, whichever
\* Realm launched it", core/experiment/runner.py:88-91); its graph is the realm's.
RunReadsItsRealm ==
    run.pc = "bound" =>
        /\ \A leaf \in {run.dense, run.sparse} \ {Stub, Nothing} :
              /\ leaf.corpus = run.corpus /\ leaf.realm = run.realm
              /\ leaf.host = HostOf(run.realm, leaf.store)
        /\ run.graph \notin {Stub, Nothing} => run.graph.host = HostOf(run.realm, "neo4j")

\* What an ingestion wrote to an index it was compared with is stemmed by the rules of its own
\* language, whatever runs, dumps and other ingestions made or found that index meanwhile.
IndexStemsItsText ==
    \A k \in IndexKeys : \A load \in index[k].loads :
        load.compared => load.language = index[k].analyser

\* A run fuses as it asked, with the constant it asked for, whatever else it asked.
RunFusesAsAsked ==
    run.pc = "bound" =>
        (run.fusing # NoFusing /\ run.asked.merge \in {"rrf", "weighted", Unset} =>
            /\ run.fusing.rrfK = run.asked.rrfK
            /\ run.asked.merge # Unset => run.fusing.merge = run.asked.merge)

\* The two ways to a retriever agree: where start-up found every store, a chat on the same
\* realm, corpus and pipeline reads what the run reads.
ChatReadsWhatARunReads ==
    run.pc = "bound" /\ gateway.dense # Stub /\ gateway.sparse # Nothing /\ gateway.graph # Stub =>
        /\ run.dense = ChatLeaf("qdrant", run.corpus, run.realm)
        /\ run.sparse = ChatSparse(run.pipeline, run.corpus, run.realm)
        /\ run.graph = ChatGraph(run.pipeline, run.realm)

-----------------------------------------------------------------------------
(* What the code, its tests or its documents say and the code does not keep (README). *)

\* "A copy of this reading the Realm's own graph store": made with a password that store takes.
GraphCanBeRead ==
    run.pc = "bound" =>
        (run.graph.store = "neo4j" /\ run.graph.host # "env" =>
            bound[run.graph.host] = "good")

\* "The language travels with the copy": a corpus that was ingested can be asked.
IngestedCanBeAsked == run.pc = "refused" => index[Key(run.sparse)].loads = {}

\* "Arabic text lands in an index that stems by Russian rules [...] so it is caught here"
\* (opensearch.py:225): not where a mapping cannot be read, and not in a dump.
AllTextIsStemmed ==
    \A k \in IndexKeys : \A load \in index[k].loads : load.language = index[k].analyser
=============================================================================
