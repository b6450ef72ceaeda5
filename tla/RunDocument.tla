---------------------------- MODULE RunDocument ----------------------------
(***************************************************************************)
(* What _save writes of a run and what a reader makes of it again          *)
(* (services/api_gateway/routers/experiments.py).                          *)
(*                                                                         *)
(* A question result carries up to six lists of retrieved fragments.       *)
(* _dedupe_texts keeps one copy of each fragment's text per question,      *)
(* _split_windows moves every list but the final context to a document     *)
(* per question, and the database may refuse those from some question on.  *)
(* _merge_windows and _restore_texts undo this, in whatever order the      *)
(* engine returns the documents.                                           *)
(*                                                                         *)
(* The lists are numbered in the order of _REF_FIELDS: 1 is source_refs,   *)
(* the others are _HEAVY_FIELDS.  A key that a document lacks is a number  *)
(* outside the domain of its lists.                                        *)
(***************************************************************************)
EXTENDS Naturals, Sequences, FiniteSets, Functions

CONSTANTS
    Ids, NoId,        \* question_id; NoId is the empty one
    Chunks, NoChunk,  \* chunk_id; NoChunk is the empty one
    Texts, NoText,    \* chunk_text; NoText is an absent key
    NFields,          \* Len(_REF_FIELDS)
    MaxQuestions,     \* bound: questions of a run
    MaxRefs           \* bound: fragments in all the lists of a run

ASSUME MarksAssumption == NoId \notin Ids /\ NoChunk \notin Chunks /\ NoText \notin Texts
ASSUME FieldsAssumption == NFields \in Nat \ {0}
ASSUME BoundsAssumption == MaxQuestions \in Nat /\ MaxRefs \in Nat

VARIABLES
    run,      \* result.question_results: the id and the lists of each question
    stage,    \* what has been done with the run
    light,    \* question_results of the document in experiment_runs
    windows,  \* the documents of the run in experiment_run_windows
    served    \* question_results a reader assembled

vars == <<run, stage, light, windows, served>>

Fields == 1..NFields
Heavy  == Fields \ {1}
Ref    == [chunk : Chunks \cup {NoChunk}, text : Texts \cup {NoText}]

\* A runner's fragment always carries its text (SourceRef.model_dump).
RunnerRef == {ref \in Ref : ref.text # NoText}

---------------------------------------------------------------------------
(* _dedupe_texts and _restore_texts: one scan over the lists in field      *)
(* order, in which the first fragment with an id decides its text.         *)

Places(lists) == UNION {{f} \X DOMAIN lists[f] : f \in DOMAIN lists}
At(lists, p)  == lists[p[1]][p[2]]

\* Variant with a bug: the windows are scanned first and hold the texts.
WindowsBefore(p, q) == p[1] > q[1] \/ (p[1] = q[1] /\ p[2] < q[2])

Before(p, q) == p[1] < q[1] \/ (p[1] = q[1] /\ p[2] < q[2])

Carriers(lists, chunk) ==
    {p \in Places(lists) : At(lists, p).chunk = chunk /\ At(lists, p).text # NoText}

First(lists, chunk) ==
    CHOOSE p \in Carriers(lists, chunk) :
        \A q \in Carriers(lists, chunk) : q = p \/ Before(p, q)

TextOf(lists, chunk) == At(lists, First(lists, chunk)).text

\* Variant with a bug: dropped because the id repeats, whatever the text.
RepeatsId(lists, p) ==
    LET ref == At(lists, p) IN
    /\ ref.chunk # NoChunk
    /\ ref.text # NoText
    /\ p # First(lists, ref.chunk)

\* Dropped where it repeats the text already seen, not where only the id repeats.
Repeats(lists, p) ==
    LET ref == At(lists, p) IN
    /\ ref.chunk # NoChunk
    /\ ref.text # NoText
    /\ p # First(lists, ref.chunk)
    /\ ref.text = TextOf(lists, ref.chunk)

OnRefs(lists, Change(_)) ==
    [f \in DOMAIN lists |-> [i \in DOMAIN lists[f] |-> Change(<<f, i>>)]]

DedupeTexts(lists) ==
    LET Shorten(p) == IF Repeats(lists, p) THEN [At(lists, p) EXCEPT !.text = NoText]
                                           ELSE At(lists, p)
    IN  OnRefs(lists, Shorten)

RestoreTexts(lists) ==
    LET Missing(ref) == /\ ref.text = NoText
                        /\ ref.chunk # NoChunk
                        /\ Carriers(lists, ref.chunk) # {}
        Complete(p) == IF Missing(At(lists, p))
                       THEN [At(lists, p) EXCEPT !.text = TextOf(lists, At(lists, p).chunk)]
                       ELSE At(lists, p)
    IN  OnRefs(lists, Complete)

---------------------------------------------------------------------------
(* _split_windows *)

\* Variant with a bug: a list added to a question's fields and not to the heavy ones.
HeldButLast(lists) == {f \in Heavy \cap DOMAIN lists : f # NFields /\ lists[f] # <<>>}

Held(lists) == {f \in Heavy \cap DOMAIN lists : lists[f] # <<>>}

LightOf(question) ==
    [question EXCEPT !.lists = Restrict(@, DOMAIN @ \ Held(@))]

WindowOf(question, n) ==
    [id |-> question.id, position |-> n,
     lists |-> Restrict(question.lists, Held(question.lists))]

---------------------------------------------------------------------------
(* _merge_windows *)

\* One document per id that has any: the last one the engine returned.
Indexes(docs) ==
    LET ids == {w.id : w \in docs} \ {NoId} IN
    {byId \in [ids -> docs] : \A id \in ids : byId[id].id = id}

\* The window a question finds, as a set: by its id, otherwise by its position.
Found(question, n, docs, byId) ==
    IF question.id \in DOMAIN byId
    THEN {byId[question.id]}
    ELSE {w \in docs : w.position = n}

\* Only what is absent or empty in the document is filled.
Fill(question, window) ==
    LET taken == {f \in DOMAIN window.lists :
                    f \notin DOMAIN question.lists \/ question.lists[f] = <<>>} IN
    [question EXCEPT !.lists = [f \in DOMAIN @ \cup taken |->
        IF f \in taken THEN window.lists[f] ELSE @[f]]]

MergeWindows(questions, docs, byId) ==
    [n \in DOMAIN questions |->
        LET found == Found(questions[n], n, docs, byId) IN
        IF found = {} THEN questions[n]
        ELSE Fill(questions[n], CHOOSE w \in found : TRUE)]

---------------------------------------------------------------------------
Init ==
    /\ run = <<>>
    /\ stage = "running"
    /\ light = <<>>
    /\ windows = {}
    /\ served = <<>>

\* The fragments retrieved for a question: how many go to each list, and which; the runner
\* writes every list, the empty ones too.
Slots(count) == UNION {{f} \X (1..count[f]) : f \in Fields}

ListsOf(count, ref) == [f \in Fields |-> [i \in 1..count[f] |-> ref[<<f, i>>]]]

Size(questions) ==
    Cardinality(UNION {{n} \X Places(questions[n].lists) : n \in DOMAIN questions})

AnswerQuestion ==
    /\ stage = "running"
    /\ Len(run) < MaxQuestions
    /\ \E id \in Ids \cup {NoId}, count \in [Fields -> 0..MaxRefs] :
          /\ Cardinality(Slots(count)) + Size(run) <= MaxRefs
          /\ \E ref \in [Slots(count) -> RunnerRef] :
                run' = Append(run, [id |-> id, lists |-> ListsOf(count, ref)])
    /\ UNCHANGED <<stage, light, windows, served>>

\* _save with the run document accepted and the windows refused from position k on.
Save ==
    LET slim == [n \in DOMAIN run |-> [run[n] EXCEPT !.lists = DedupeTexts(@)]] IN
    /\ stage = "running"
    /\ stage' = "stored"
    /\ light' = [n \in DOMAIN slim |-> LightOf(slim[n])]
    /\ \E k \in 0..Len(slim) :
          windows' = {WindowOf(slim[n], n) : n \in {m \in 1..k : Held(slim[m].lists) # {}}}
    /\ UNCHANGED <<run, served>>

\* _get_one_result, _get_results
Read ==
    /\ stage = "stored"
    /\ stage' = "served"
    /\ \E byId \in Indexes(windows) :
          served' = [n \in DOMAIN light |->
              [MergeWindows(light, windows, byId)[n] EXCEPT !.lists = RestoreTexts(@)]]
    /\ UNCHANGED <<run, light, windows>>

Next == AnswerQuestion \/ Save \/ Read

Spec == Init /\ [][Next]_vars

---------------------------------------------------------------------------
(* Properties *)

QuestionOK(question) ==
    /\ question.id \in Ids \cup {NoId}
    /\ DOMAIN question.lists \subseteq Fields
    /\ \A f \in DOMAIN question.lists : question.lists[f] \in Seq(Ref)

\* Types, with what the run document is for: it holds nothing that grows with the width
\* of a retrieval (_WINDOWS_COLLECTION, _split_windows).
TypeOK ==
    /\ stage \in {"running", "stored", "served"}
    /\ \A n \in DOMAIN run : QuestionOK(run[n])
    /\ \A n \in DOMAIN light :
          /\ QuestionOK(light[n])
          /\ \A f \in DOMAIN light[n].lists : f \in Heavy => light[n].lists[f] = <<>>
    /\ \A w \in windows : QuestionOK(w) /\ w.position \in DOMAIN run
    /\ \A n \in DOMAIN served : QuestionOK(served[n])

DistinctIds ==
    \A m, n \in DOMAIN run : run[m].id = run[n].id /\ run[m].id # NoId => m = n

\* The lists of question n that the database holds somewhere.
Surviving(n) ==
    IF \E w \in windows : w.position = n THEN Fields
    ELSE Fields \ Held(run[n].lists)

ServedExactly ==
    stage = "served" =>
        \A n \in DOMAIN run : served[n].lists = Restrict(run[n].lists, Surviving(n))

\* Where questions have ids of their own or none, a reader gets back every list that was
\* stored, key for key and text for text, and the lists that were refused are absent: no
\* text is lost to the deduplication, or lent to another fragment of the same id
\* (_dedupe_texts, _split_windows, _merge_windows, _restore_texts).
WindowsComeBack == DistinctIds => ServedExactly

\* Whatever the database refused and whichever windows a question is given, the context
\* its answer was generated from is served as it was: its texts lean on no window.
FinalContextSurvives ==
    stage = "served" => \A n \in DOMAIN run : served[n].lists[1] = run[n].lists[1]

\* "Put the windows back on the questions they belong to", for every run there can be.
WindowsGoToTheirQuestion == ServedExactly
============================================================================
