------------------------------- MODULE ChatQuery -------------------------------
(***************************************************************************)
(* POST /query and the trace cache of the gateway (main.py): which         *)
(* pipeline answers a question of a realm, under which trace id, and what  *)
(* GET /trace finds of it later.  Questions overlap at their awaits.       *)
(***************************************************************************)
EXTENDS Integers, Sequences, FiniteSets, Functions

CONSTANTS
    Realms, NoRealm, Rags,
    Clients,
    Ids,            \* values of an X-Trace-Id header
    CacheMax,       \* _TRACE_CACHE_MAX
    MaxQuestions    \* bound

Assumptions == CacheMax \in Nat \ {0} /\ MaxQuestions \in Nat /\ NoRealm \notin Realms

NoRag == "none"
Idle == [op |-> "idle"]

VARIABLES
    home,       \* home[g]: the realm an external RAG is registered in, NoRealm for none
    call,       \* call[c]: the question of a client
    cache,      \* _trace_cache, in the order of its keys: [id, question]
    finished,   \* (history) the questions in the order they were answered
    shown,      \* what a client was last told: the id of the header, the question
    asked

vars == <<home, call, cache, finished, shown, asked>>

Init ==
    /\ home \in [Rags -> Realms \cup {NoRealm}]
    /\ call = [c \in Clients |-> Idle]
    /\ cache = <<>> /\ finished = <<>> /\ asked = 0
    /\ shown = [c \in Clients |-> Idle]

RagsOf(realm) == {g \in Rags : home[g] = realm}

\* _resolve_realm_pipeline: the RAG named, the only one of the realm, or the gateway's own.
Answers(realm, rag) ==
    IF realm = NoRealm THEN "in process"
    ELSE IF rag # NoRag THEN (IF home[rag] = realm THEN rag ELSE "404")
    ELSE IF Cardinality(RagsOf(realm)) = 1 THEN CHOOSE g \in RagsOf(realm) : TRUE ELSE "in process"

\* A drawn id is unlike every other; the header's is used as it is.
Drawn(n, by) == <<"drawn", n, by>>
Sent(id) == <<"sent", id>>

\* The middleware and the handler both take the header's id, or each draw one.
Ask(c) ==
    /\ call[c] = Idle /\ asked < MaxQuestions
    /\ asked' = asked + 1
    /\ \E realm \in Realms \cup {NoRealm}, rag \in Rags \cup {NoRag}, header \in Ids \cup {"absent"} :
          LET id(by) == IF header = "absent" THEN Drawn(asked, by) ELSE Sent(header)
              by == Answers(realm, rag)
          IN  IF by = "404"
              THEN /\ shown' = [shown EXCEPT ![c] = [op |-> "404", realm |-> realm, rag |-> rag]]
                   /\ UNCHANGED call
              ELSE /\ call' = [call EXCEPT ![c] = [op |-> "asked", question |-> asked, realm |-> realm,
                                   by |-> by, id |-> id("handler"), header |-> id("middleware")]]
                   /\ UNCHANGED shown
    /\ UNCHANGED <<home, cache, finished>>

HasKey(id) == \E i \in DOMAIN cache : cache[i].id = id

\* Variant with a bug: the bound is checked before the trace is added.
CutFirst(list) == IF Len(list) > CacheMax + 1 THEN Tail(list) ELSE list

\* The entry whose key is oldest is dropped when there is one too many.
Evicted(list) == IF Len(list) > CacheMax THEN Tail(list) ELSE list

\* _trace_cache[trace_id] = ...: a key that is there keeps its place.
Cached(t) ==
    IF HasKey(t.id) THEN [i \in DOMAIN cache |-> IF cache[i].id = t.id THEN t ELSE cache[i]]
    ELSE Append(cache, t)

\* The answer is there: its trace is kept and it is sent.
Finish(c) ==
    LET q == call[c] IN
    /\ q.op = "asked"
    /\ call' = [call EXCEPT ![c] = Idle]
    /\ cache' = Evicted(Cached([id |-> q.id, question |-> q.question]))
    /\ finished' = Append(finished, [id |-> q.id, question |-> q.question])
    /\ shown' = [shown EXCEPT ![c] = [op |-> "answer", header |-> q.header, question |-> q.question,
                                      realm |-> q.realm, by |-> q.by]]
    /\ UNCHANGED <<home, asked>>

\* The RAG does not answer: the request fails and leaves no trace.
Fail(c) ==
    /\ call[c].op = "asked" /\ call[c].by \in Rags
    /\ call' = [call EXCEPT ![c] = Idle]
    /\ UNCHANGED <<home, cache, finished, shown, asked>>

\* An external RAG is registered, moved or removed.
Register ==
    /\ asked < MaxQuestions
    /\ \E g \in Rags, r \in Realms \cup {NoRealm} : home' = [home EXCEPT ![g] = r] /\ home' # home
    /\ UNCHANGED <<call, cache, finished, shown, asked>>

\* The process starts again, without its cache.
Restart ==
    /\ cache # <<>>
    /\ cache' = <<>> /\ finished' = <<>>
    /\ call' = [c \in Clients |-> Idle]
    /\ UNCHANGED <<home, shown, asked>>

Next == Register \/ Restart \/ \E c \in Clients : Ask(c) \/ Finish(c) \/ Fail(c)

Spec == Init /\ [][Next]_vars

---------------------------------------------------------------------------
(* Properties *)

\* The cache is bounded and has no id twice, and every trace is of a question that was
\* answered under it, the last one that was.
TypeOK ==
    /\ Len(cache) <= CacheMax
    /\ \A i, j \in DOMAIN cache : cache[i].id = cache[j].id => i = j
    /\ \A i \in DOMAIN cache : \E j \in DOMAIN finished :
          /\ finished[j] = cache[i]
          /\ \A l \in (j + 1)..Len(finished) : finished[l].id # cache[i].id

\* A realm's question is answered by a RAG of its own, as it was when it was asked, or in
\* process; it never reaches one of another realm.
RagIsOfTheRealm ==
    \A c \in Clients :
       (call[c] = Idle /\ call'[c] # Idle) =>
           call'[c].by \in RagsOf(call'[c].realm) \cup {"in process"}

-----------------------------------------------------------------------------
(* What the code, its tests or its documents say and the code does not keep (README). *)

\* "Every request gets a trace_id via middleware": the id in the answer's header finds its trace
\* as long as it is among the last that were answered.
ResponseNamesItsTrace ==
    [][\A c \in Clients :
          (call[c] # Idle /\ call[c].op = "asked" /\ Len(finished') > Len(finished) /\ call'[c] = Idle)
              => \E i \in DOMAIN cache' : cache'[i].id = shown'[c].header]_vars

\* "cache holds last 50": the most recent answers, and the latest is the last of them.
CacheHoldsTheLast ==
    finished # <<>> =>
        LET last == finished[Len(finished)]
        IN  HasKey(last.id) /\ cache[Len(cache)].question = last.question
=============================================================================
