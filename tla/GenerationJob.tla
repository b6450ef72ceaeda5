----------------------------- MODULE GenerationJob -----------------------------
(***************************************************************************)
(* Drafting control questions (routers/generation.py): fragments are       *)
(* sampled by the type of question, a task asks a model for one draft per  *)
(* group, and a socket reads the task's events from a list it polls.       *)
(***************************************************************************)
EXTENDS Integers, Sequences, FiniteSets, Lists, Functions

CONSTANTS
    Chunks,         \* fragments, numbered in the order of their article numbers
    DocOf,          \* DocOf[c]: the document of a fragment
    Alike,          \* pairs of fragments closer than _NEAR_DUPLICATE
    Fragments,      \* _GLOBAL_FRAGMENTS
    RangeMin, RangeMax,     \* the size of a range
    Seeds,          \* orders in which fragments may be drawn as seeds
    Orders,         \* how near the others may be: for each seed the fragments, nearest first
    Requests,       \* the type_counts a request may carry: lists of entries
    Replies,        \* what the model may answer
    Jobs, Sockets, Presets

\* The fragments, one after the other.
Arrangements == {s \in [1..Cardinality(Chunks) -> Chunks] : IsInjective(s)}

QuestionTypes == {"open", "comparative", "navigational", "global"}

Assumptions ==
    /\ Chunks \subseteq Nat /\ IsFiniteSet(Chunks) /\ DOMAIN DocOf = Chunks
    /\ Seeds \subseteq Arrangements /\ Orders \subseteq [Chunks -> Arrangements]
    /\ Alike \subseteq kSubset(2, Chunks)
    /\ Fragments \in Nat \ {0, 1} /\ RangeMin \in 3..RangeMax
    /\ Requests \subseteq Seq([question_type : QuestionTypes, n_questions : Nat \ {0}])
    /\ Replies \subseteq {"raises", "cut", "unparseable", "bare", "good", "structure"}

NoPreset == "no preset"

VARIABLES
    presets,    \* the presets that exist
    task,       \* task[j]: the background job: its groups, its drafts and failures
    events,     \* _progress[j]
    socket      \* socket[s]: the job it follows, what it was sent

vars == <<presets, task, events, socket>>

NotStarted == [pc |-> "none", groups |-> <<>>, drafts |-> <<>>, failed |-> <<>>,
               preset |-> NoPreset]

Init ==
    /\ presets = {}
    /\ task = [j \in Jobs |-> NotStarted]
    /\ events = [j \in Jobs |-> <<>>]
    /\ socket = [s \in Sockets |-> [pc |-> "none", job |-> 0, sent |-> 0]]

---------------------------------------------------------------------------
(* Sampling *)

OfDoc(d) == {c \in Chunks : DocOf[c] = d}
Docs == {DocOf[c] : c \in Chunks}

\* _sample_single, _sample_pairs, _sample_ranges: the groups each may draw.
Singles == {{c} : c \in Chunks}
Pairs == UNION {kSubset(2, OfDoc(d)) : d \in Docs}
Ranges ==
    {g \in UNION {SUBSET OfDoc(d) : d \in Docs} :
        /\ Cardinality(g) \in RangeMin..RangeMax
        /\ \A c, e \in g : \A m \in OfDoc(DocOf[c]) : c < m /\ m < e => m \in g}

\* _sample_chunk_groups: pairs and ranges with repetition, and single fragments without for
\* what is missing, all of them when no document is long enough.
ChunkGroups(type, n) ==
    LET own == CASE type = "comparative" -> Pairs
                 [] type = "navigational" -> Ranges
                 [] OTHER -> {}
        rest == IF own = {} THEN n ELSE 0
        singles == IF rest > Cardinality(Chunks) THEN Cardinality(Chunks) ELSE rest
    IN IF own # {} THEN [1..n -> own] ELSE {f \in [1..singles -> Singles] : IsInjective(f)}

\* Variant with a bug: a fragment of a document that is in the group already.
MayJoinAgain(c, group) == \A m \in group : {c, m} \notin Alike

\* _sample_global: a fragment of another document, and not a near duplicate.
MayJoin(c, group) == \A m \in group : DocOf[c] # DocOf[m] /\ {c, m} \notin Alike

\* The group that grows from a seed, nearest first: any order of nearness, seen from a seed.
Grown(seed, order) ==
    FoldLeft(LAMBDA group, c : IF Cardinality(group) < Fragments /\ MayJoin(c, group)
                               THEN group \cup {c} ELSE group, {seed}, order)

NewGroup(group, groups) == Cardinality(group) = Fragments /\ group \notin Range(groups)

\* Seeds in any order, until n groups are there; orders[c] is how near the others are to c.
GlobalGroups(n, seeds, orders) ==
    FoldLeft(LAMBDA groups, seed :
                IF Len(groups) < n /\ NewGroup(Grown(seed, orders[seed]), groups)
                THEN Append(groups, Grown(seed, orders[seed])) ELSE groups, <<>>, seeds)

Sampled(type, n) ==
    IF type # "global" THEN ChunkGroups(type, n)
    ELSE IF Cardinality(Docs) < Fragments THEN {<<>>}
    ELSE {GlobalGroups(n, s, o) : s \in Seeds, o \in Orders}

---------------------------------------------------------------------------
(* Prompts *)

\* _resolve_template, of the built-in templates.
Template(type, group) ==
    CASE type = "global" -> "global"
      [] type # "global" /\ Cardinality(group) = 1 -> "single"
      [] type # "global" /\ Cardinality(group) = 2 -> "pair"
      [] OTHER -> "range"

\* The placeholders of _BUILTIN_TEMPLATES.
Placeholders ==
    [single |-> {"question_type", "question_type_hint", "chunk_text"},
     pair |-> {"chunk_text_a", "chunk_text_b"},
     range |-> {"chunks_text_joined"},
     global |-> {"k", "chunks_text_joined"}]

\* _render_prompt: what is filled in.
Substitutions(type, group) ==
    {"question_type", "question_type_hint"} \cup
    IF type = "global" THEN {"k", "chunks_text_joined"}
    ELSE CASE Cardinality(group) = 1 -> {"chunk_text"}
           [] Cardinality(group) = 2 -> {"chunk_text_a", "chunk_text_b"}
           [] OTHER -> {"chunks_text_joined"}

---------------------------------------------------------------------------
(* The job *)

\* Presets come and go; a job that is running keeps the one it read.
EditPresets == presets' \in (SUBSET Presets) \ {presets} /\ UNCHANGED <<task, events, socket>>

\* The groups of every entry, one entry after the other; `entry` is for the properties.
Grouped(entries, sampled) ==
    FoldLeft(LAMBDA groups, k :
                groups \o [i \in DOMAIN sampled[k] |->
                               [type |-> entries[k].question_type, from |-> sampled[k][i], entry |-> k]],
             <<>>, [k \in DOMAIN entries |-> k])

\* The entries of global questions that the corpus could not supply in full.
Short(entries, sampled) ==
    {k \in DOMAIN entries : entries[k].question_type = "global"
                            /\ Len(sampled[k]) < entries[k].n_questions}

\* generate_questions: every entry is sampled for itself, and what is missing of the global
\* ones is among the failures.
Started(entries, sampled, preset) ==
    [pc |-> "run", drafts |-> <<>>, preset |-> preset, groups |-> Grouped(entries, sampled),
     failed |-> [i \in 1..Cardinality(Short(entries, sampled)) |-> "not_enough_documents"]]

SampledFor(entries) ==
    LET of == [k \in DOMAIN entries |-> Sampled(entries[k].question_type, entries[k].n_questions)]
    IN {f \in [DOMAIN entries -> UNION {of[k] : k \in DOMAIN of}] : \A k \in DOMAIN of : f[k] \in of[k]}

Start(j) ==
    /\ task[j] = NotStarted
    /\ \E entries \in Requests, preset \in presets \cup {NoPreset} :
          \E sampled \in SampledFor(entries) :
             LET now == Started(entries, sampled, preset) IN
             /\ task' = [task EXCEPT ![j] = now]
             /\ events' = [events EXCEPT ![j] = <<[type |-> "start", total |-> Len(now.groups)]>>]
    /\ UNCHANGED <<presets, socket>>

\* How many groups have been tried: each left a draft or a failure, beside the shortfall.
Shortfall(t) == Cardinality({i \in DOMAIN t.failed : t.failed[i] = "not_enough_documents"})
Tried(t) == Len(t.drafts) + Len(t.failed) - Shortfall(t)

Progress(t) == [type |-> "progress", processed |-> Tried(t), generated |-> Len(t.drafts),
                failed |-> Len(t.failed)]

\* A call that raises, a prompt that was cut, an answer without the keys, and a global answer
\* without assertions are failures of that item alone.
Fails(reply, type) ==
    reply \in {"raises", "cut", "unparseable"} \/ (reply = "bare" /\ type = "global")

\* One item: the call, and what is made of its answer.  An answer whose reference is a
\* structure and not a text ("structure") raises outside the try: the task ends there.
Item(j) ==
    LET t == task[j]  group == t.groups[Tried(t) + 1] IN
    /\ t.pc = "run" /\ Tried(t) < Len(t.groups)
    /\ \E reply \in Replies :
          IF reply = "structure"
          THEN task' = [task EXCEPT ![j].pc = "dead"] /\ UNCHANGED events
          ELSE LET now == IF Fails(reply, group.type) THEN [t EXCEPT !.failed = Append(@, reply)]
                          ELSE [t EXCEPT !.drafts = Append(@, [group |-> group, reply |-> reply])]
               IN /\ task' = [task EXCEPT ![j] = now]
                  /\ events' = [events EXCEPT ![j] = Append(@, Progress(now))]
    /\ UNCHANGED <<presets, socket>>

End(j) ==
    LET t == task[j] IN
    /\ t.pc = "run" /\ Tried(t) = Len(t.groups)
    /\ task' = [task EXCEPT ![j].pc = "done"]
    /\ events' = [events EXCEPT ![j] =
           Append(@, [type |-> "done", drafts |-> Len(t.drafts), failed |-> Len(t.failed)])]
    /\ UNCHANGED <<presets, socket>>

---------------------------------------------------------------------------
(* generate_questions_progress *)

Connect(s) ==
    /\ socket[s].pc = "none"
    /\ \E j \in Jobs : task[j] # NotStarted
                       /\ socket' = [socket EXCEPT ![s] = [pc |-> "open", job |-> j, sent |-> 0]]
    /\ UNCHANGED <<presets, task, events>>

\* The job's own last event closes it.
Closes(j, n) == events[j][n].type \in {"done", "error"}

Send(s) ==
    LET j == socket[s].job  n == socket[s].sent + 1 IN
    /\ socket[s].pc = "open" /\ n <= Len(events[j])
    /\ socket' = [socket EXCEPT ![s].sent = n, ![s].pc = IF Closes(j, n) THEN "closed" ELSE @]
    /\ UNCHANGED <<presets, task, events>>

Next ==
    \/ EditPresets
    \/ \E j \in Jobs : Start(j) \/ Item(j) \/ End(j)
    \/ \E s \in Sockets : Connect(s) \/ Send(s)

\* The event loop resumes the tasks and the sockets; every call of the model returns.
Fairness ==
    /\ \A j \in Jobs : WF_vars(Item(j)) /\ WF_vars(End(j))
    /\ \A s \in Sockets : WF_vars(Send(s))

Spec == Init /\ [][Next]_vars /\ Fairness

---------------------------------------------------------------------------
(* Properties *)

\* Types, and the account of a job that is done: every group became a draft or a failure.
TypeOK ==
    \A j \in Jobs :
        /\ task[j].pc = "done" =>
               LET failed == {i \in DOMAIN task[j].failed : task[j].failed[i] # "not_enough_documents"}
               IN Len(task[j].drafts) + Cardinality(failed) = Len(task[j].groups)
        /\ task[j].preset \in Presets \cup {NoPreset}
        /\ Tried(task[j]) \in 0..Len(task[j].groups)
        /\ \A i \in DOMAIN task[j].groups : task[j].groups[i].from \in (SUBSET Chunks) \ {{}}

\* A global question rests on fragments of as many documents, no two of them alike, and "two
\* questions are not written from one group" of those that one entry of the request asks for.
GlobalGroupsSpanDocuments ==
    \A j \in Jobs : LET gs == task[j].groups IN
        \A i \in DOMAIN gs : gs[i].type = "global" =>
            /\ Cardinality({DocOf[c] : c \in gs[i].from}) = Fragments
            /\ kSubset(2, gs[i].from) \cap Alike = {}
            /\ \A k \in DOMAIN gs :
                  gs[k].from = gs[i].from /\ gs[k].entry = gs[i].entry => k = i

\* A built-in template is sent with all its placeholders filled: the two places that look at
\* the type and the length of a group agree.
BuiltinTemplatesAreFilled ==
    \A j \in Jobs : \A i \in DOMAIN task[j].groups :
        LET g == task[j].groups[i] IN
        Placeholders[Template(g.type, g.from)] \subseteq Substitutions(g.type, g.from)

\* No draft without an answer that can be used: a cut prompt, a call that failed and a global
\* question without assertions are among the failures, never among the drafts.
DraftsAreUsable ==
    \A j \in Jobs : \A i \in DOMAIN task[j].drafts :
        LET d == task[j].drafts[i] IN
        d.reply = "good" \/ (d.reply = "bare" /\ d.group.type # "global")

\* A socket that follows a job is closed by the job's last event, whatever failed on the way,
\* unless the task itself died of an answer it did not expect.
SocketClosesOrTheTaskDied ==
    \A s \in Sockets :
        socket[s].pc = "open" ~> \/ socket[s].pc = "closed"
                                 \/ \E j \in Jobs : socket[s].job = j /\ task[j].pc = "dead"

---------------------------------------------------------------------------
(* What the code, its tests or its documents say and the code does not keep (README). *)

\* "the background task's own done/error event is the only signal the WebSocket handler
\* needs": a socket that follows a job is closed by it.
JobSocketCloses == \A s \in Sockets : socket[s].pc = "open" ~> socket[s].pc = "closed"
=============================================================================
