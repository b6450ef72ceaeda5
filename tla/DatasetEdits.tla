------------------------------ MODULE DatasetEdits ------------------------------
(***************************************************************************)
(* Datasets and their questions (routers/datasets.py): a request reads the *)
(* whole document, changes its list of questions and writes the list back. *)
(* Two pages work on the datasets at a time.                               *)
(***************************************************************************)
EXTENDS Integers, Sequences, FiniteSets, Selections

CONSTANTS
    Pages,          \* requests being answered at a time
    Realms,
    NoRealm, None,  \* a request without realm_id, a field a row does not have
    Answers,        \* reference answers
    Files,          \* golden sets on disk
    MaxIds,         \* bound: questions ever made
    MaxDocs,        \* bound: datasets ever made
    MaxCalls        \* bound: requests

Assumptions == NoRealm \notin Realms /\ Files # {} /\ {MaxIds, MaxDocs, MaxCalls} \subseteq Nat

Absent == [realm |-> NoRealm, questions |-> <<>>, n |-> None, there |-> FALSE]

VARIABLES
    doc,        \* doc[d]: the documents of `datasets`
    page,       \* page[p]: what a request of p read and is about to write
    listed,     \* the last list: for which realm, what it had
    ids, docs, calls

vars == <<doc, page, listed, ids, docs, calls>>

Free == [op |-> "free"]
Datasets == 1..MaxDocs

Init ==
    /\ doc = [d \in Datasets |-> Absent]
    /\ page = [p \in Pages |-> Free]
    /\ listed = [realm |-> NoRealm, entries |-> {}]
    /\ ids = 0 /\ docs = 0 /\ calls = 0

\* A question: who made it, whether it was edited by hand, what it is shown and scored with.
\* `truth` is ground_truth, which older rows carry beside or instead of reference_answer.
Question(id, origin, answer, truth) ==
    [id |-> id, origin |-> origin, edited |-> FALSE, renamed |-> FALSE,
     answer |-> answer, truth |-> truth]

Ids(qs) == {qs[i].id : i \in DOMAIN qs}
At(qs, id) == CHOOSE i \in DOMAIN qs : qs[i].id = id

---------------------------------------------------------------------------
(* Datasets *)

\* create_dataset with the rows of an upload, and the import of a realm, which writes no
\* counter.  (Two uploads of one file at a time are RealmRegistry's kind of race.)
CreateDataset(p) ==
    /\ page[p] = Free /\ docs < MaxDocs /\ ids < MaxIds /\ calls < MaxCalls
    /\ docs' = docs + 1 /\ ids' = ids + 1 /\ calls' = calls + 1
    /\ \E r \in Realms, origin \in {"manual", "generated"}, a \in Answers,
          truth \in Answers \cup {None}, counted \in BOOLEAN :
          doc' = [doc EXCEPT ![docs + 1] =
              [realm |-> r, questions |-> <<Question(ids + 1, origin, a, truth)>>,
               n |-> IF counted THEN 1 ELSE None, there |-> TRUE]]
    /\ UNCHANGED <<page, listed>>

\* delete_dataset: a realm that is named has to be the dataset's.
DeleteDataset(p) ==
    /\ page[p] = Free /\ calls < MaxCalls
    /\ calls' = calls + 1
    /\ \E d \in Datasets, r \in Realms \cup {NoRealm} :
          /\ doc[d].there /\ r \in {NoRealm, doc[d].realm}
          /\ doc' = [doc EXCEPT ![d] = Absent]
    /\ UNCHANGED <<page, listed, ids, docs>>

\* list_datasets: the files are for a list that names no realm.
Entries(r, up) ==
    LET found == {d \in Datasets : doc[d].there /\ r \in {NoRealm, doc[d].realm}} IN
    IF up /\ found # {} THEN found
    ELSE IF r # NoRealm THEN {} ELSE Files

\* With the database up or down.
List ==
    /\ \E r \in Realms \cup {NoRealm}, up \in BOOLEAN :
          listed' = [realm |-> r, entries |-> Entries(r, up)]
    /\ UNCHANGED <<doc, page, ids, docs, calls>>

---------------------------------------------------------------------------
(* Questions *)

\* _get_dataset_or_404, for a change that is then prepared on what was read.
Read(p) ==
    /\ page[p] = Free /\ calls < MaxCalls
    /\ calls' = calls + 1
    /\ \E d \in Datasets, r \in Realms \cup {NoRealm}, op \in {"add", "batch", "update", "delete"} :
          /\ doc[d].there /\ r \in {NoRealm, doc[d].realm}
          /\ page' = [page EXCEPT ![p] = [op |-> op, d |-> d, read |-> doc[d].questions]]
    /\ UNCHANGED <<doc, listed, ids, docs>>

\* update_question with an answer: both names of it, and a mark on a generated question.
Edited(q, a) ==
    [q EXCEPT !.answer = a, !.renamed = TRUE, !.truth = IF @ = None THEN None ELSE a,
              !.edited = @ \/ q.origin = "generated"]

\* update_one by the dataset's id, which is nothing when it is gone.
WithQuestions(d, qs, counted) ==
    IF ~d.there THEN d
    ELSE [d EXCEPT !.questions = qs, !.n = IF counted THEN Len(qs) ELSE d.n]

Written(p, qs, counted) ==
    /\ doc' = [doc EXCEPT ![page[p].d] = WithQuestions(@, qs, counted)]
    /\ page' = [page EXCEPT ![p] = Free]

Made(k, origin, a) == [i \in 1..k |-> Question(ids + i, origin, a, None)]

\* add_question and add_questions_batch, by hand or with what a generation proposed.
Add(p) ==
    /\ page[p].op \in {"add", "batch"}
    /\ LET k == IF page[p].op = "add" THEN 1 ELSE 2 IN
       /\ ids + k <= MaxIds
       /\ ids' = ids + k
       /\ \E origin \in {"manual", "generated"}, a \in Answers :
             Written(p, page[p].read \o Made(k, origin, a), TRUE)
    /\ UNCHANGED <<listed, docs, calls>>

\* The counter is not written.  A question that is not in the list that was read is a 404.
Update(p) ==
    /\ page[p].op = "update"
    /\ \/ \E id \in Ids(page[p].read), a \in Answers :
             Written(p, [page[p].read EXCEPT ![At(page[p].read, id)] = Edited(@, a)], FALSE)
       \/ page' = [page EXCEPT ![p] = Free] /\ UNCHANGED doc
    /\ UNCHANGED <<listed, ids, docs, calls>>

Without(qs, id) == Only(qs, {i \in DOMAIN qs : qs[i].id # id})

Delete(p) ==
    /\ page[p].op = "delete"
    /\ \/ \E id \in Ids(page[p].read) :
             Written(p, Without(page[p].read, id), TRUE)
       \/ page' = [page EXCEPT ![p] = Free] /\ UNCHANGED doc
    /\ UNCHANGED <<listed, ids, docs, calls>>

Next ==
    \/ List
    \/ \E p \in Pages :
          CreateDataset(p) \/ DeleteDataset(p) \/ Read(p) \/ Add(p) \/ Update(p) \/ Delete(p)

Spec == Init /\ [][Next]_vars

---------------------------------------------------------------------------
(* Properties *)

\* A question has an id of its own in its dataset, however writes overlap.
TypeOK ==
    \A d \in Datasets :
        /\ Cardinality(Ids(doc[d].questions)) = Len(doc[d].questions)
        /\ Ids(doc[d].questions) \subseteq 1..ids
        /\ doc[d].n \in {None} \cup 0..MaxIds

\* "a row that still carries the older name would show the new reference and be scored against
\* the old one": a question whose answer was edited is scored with the answer it shows.
ScoredWithWhatIsShown ==
    \A d \in Datasets : \A i \in DOMAIN doc[d].questions :
        LET q == doc[d].questions[i] IN q.renamed => q.truth \in {None, q.answer}

\* A generated question that was edited says so, whatever its page echoes back.
EditsAreMarked ==
    \A d \in Datasets : \A i \in DOMAIN doc[d].questions :
        LET q == doc[d].questions[i] IN q.renamed /\ q.origin = "generated" => q.edited

\* A list for a realm has that realm's datasets and no others, with the database or without.
ListIsOfTheRealm ==
    (listed' # listed /\ listed'.realm # NoRealm) =>
        \A e \in listed'.entries : e \in Datasets /\ doc[e].realm = listed'.realm

-----------------------------------------------------------------------------
(* What the code, its tests or its documents say and the code does not keep (README). *)

\* "The list and the detail must not be able to disagree about a number this cheap to derive."
CountMatches ==
    \A d \in Datasets : doc[d].there => doc[d].n \in {None, Len(doc[d].questions)}

\* "Append one question": a question that was added stays until it is deleted, whatever is
\* added or edited beside it.
AppendedIsKept ==
    [][\A p \in Pages : page[p].op \in {"add", "batch", "update"} =>
           \A d \in Datasets : doc'[d].there =>
               Ids(doc[d].questions) \subseteq Ids(doc'[d].questions)]_vars
=============================================================================
