--------------------------- MODULE QuestionPromotion ---------------------------
(***************************************************************************)
(* Golden questions made from what was observed: production traces that    *)
(* are collected and promoted (routers/production.py) and reviewed answers *)
(* (routers/feedback.py).  Both write into a dataset through the read,     *)
(* change and write of routers/datasets.py, one await after the other.     *)
(***************************************************************************)
EXTENDS Integers, Sequences, FiniteSets, Lists, Selections

CONSTANTS
    Pages,          \* requests being answered at a time
    Traces, Texts,
    TextOf,         \* TextOf[t]: the query of a trace
    None,
    MaxIds, MaxCalls    \* bounds: questions ever made, requests

Assumptions ==
    /\ None \notin Traces /\ None \notin Nat
    /\ TextOf \in [Traces -> Texts] /\ {MaxIds, MaxCalls} \subseteq Nat

VARIABLES
    questions,  \* the dataset
    mark,       \* mark[t]: promoted_question_id of a trace's document
    collected,  \* the traces that have a document
    page,       \* what each request read and is about to do
    erased,     \* history: the traces whose mark was collected away or never written
    ids, calls

vars == <<questions, mark, collected, page, erased, ids, calls>>

Free == [op |-> "free"]
Question(id, text, trace, origin) == [id |-> id, text |-> text, trace |-> trace, origin |-> origin]

\* A dataset with one question that a model generated.
Init ==
    /\ \E x \in Texts : questions = <<Question(1, x, None, "generated")>>
    /\ mark = [t \in Traces |-> None]
    /\ collected = {} /\ erased = {}
    /\ page = [p \in Pages |-> Free]
    /\ ids = 1 /\ calls = 0

Live(id) == \E i \in DOMAIN questions : questions[i].id = id
Goto(p, l) == page' = [page EXCEPT ![p] = l]
Called == calls < MaxCalls /\ calls' = calls + 1

---------------------------------------------------------------------------
(* Production traces *)

\* collect_traces: the window a served system still has.
Collect(p) ==
    /\ page[p] = Free /\ Called
    /\ \E window \in (SUBSET Traces) \ {{}} : Goto(p, [op |-> "collect", todo |-> window])
    /\ UNCHANGED <<questions, mark, collected, erased, ids>>

\* One trace of the window: its document is replaced, without a mark.
Store(p) ==
    /\ page[p].op = "collect"
    /\ \E t \in page[p].todo :
          /\ mark' = [mark EXCEPT ![t] = None]
          /\ collected' = collected \cup {t}
          /\ erased' = IF mark[t] # None THEN erased \cup {t} ELSE erased
          /\ LET rest == page[p].todo \ {t} IN Goto(p, IF rest = {} THEN Free ELSE [page[p] EXCEPT !.todo = rest])
    /\ UNCHANGED <<questions, ids, calls>>

Adding(t, x, origin) == [op |-> "add", trace |-> t, text |-> x, origin |-> origin]

\* promote_trace: the trace; without a mark it is added next.
Promote(p) ==
    /\ page[p] = Free /\ Called
    /\ \E t \in collected :
          Goto(p, IF mark[t] = None THEN Adding(t, TextOf[t], "manual")
                  ELSE [op |-> "check", trace |-> t, id |-> mark[t]])
    /\ UNCHANGED <<questions, mark, collected, erased, ids>>

\* _promoted_question_exists: "a storage failure answers yes, deliberately".
Exists(id, up) == up => Live(id)

\* A mark whose question is gone does not stop a new promotion; the other is a 409.
CheckMark(p) ==
    /\ page[p].op = "check"
    /\ \E up \in BOOLEAN :
          LET t == page[p].trace IN
          Goto(p, IF Exists(page[p].id, up) THEN Free ELSE Adding(t, TextOf[t], "manual"))
    /\ UNCHANGED <<questions, mark, collected, erased, ids, calls>>

\* Variant with a bug: the first question of the trace in the dataset.
MarkOfFirst(qs, t) == qs[SelectInSeq(qs, LAMBDA q : q.trace = t)].id

\* The last question of the trace in the dataset as it was written.
MarkOf(qs, t) == qs[SelectLastInSeq(qs, LAMBDA q : q.trace = t)].id

Mark(p) ==
    /\ page[p].op = "mark"
    /\ mark' = [mark EXCEPT ![page[p].trace] = MarkOf(page[p].wrote, page[p].trace)]
    /\ Goto(p, Free)
    /\ UNCHANGED <<questions, collected, erased, ids, calls>>

\* A read or a write is refused, or the process ends: the request goes no further.  A
\* question that was written stays, and after update_one raised no mark tells of it.
Fail(p) ==
    /\ page[p] # Free /\ Goto(p, Free)
    /\ erased' = IF page[p].op = "mark" THEN erased \cup {page[p].trace} ELSE erased
    /\ UNCHANGED <<questions, mark, collected, ids, calls>>

---------------------------------------------------------------------------
(* The dataset *)

\* add_question: its own read of the dataset, ...
AddRead(p) ==
    /\ page[p].op = "add"
    /\ Goto(p, [op |-> "append", trace |-> page[p].trace, text |-> page[p].text,
                origin |-> page[p].origin, read |-> questions])
    /\ UNCHANGED <<questions, mark, collected, erased, ids, calls>>

\* An id that no question had; a trace promotion names no provenance, which is "manual" then.
NewQuestion(l) == Question(ids + 1, l.text, l.trace, l.origin)

\* ... and the write of that list and a question; a promoted trace is then marked.
AddWrite(p) ==
    LET l == page[p]
        wrote == Append(l.read, NewQuestion(l))
    IN  /\ l.op = "append" /\ ids < MaxIds
        /\ ids' = ids + 1
        /\ questions' = wrote
        /\ Goto(p, IF l.trace = None THEN Free ELSE [op |-> "mark", trace |-> l.trace, wrote |-> wrote])
        /\ UNCHANGED <<mark, collected, erased, calls>>

DeleteRead(p) ==
    /\ page[p] = Free /\ Called
    /\ \E i \in DOMAIN questions : Goto(p, [op |-> "delete", id |-> questions[i].id, read |-> questions])
    /\ UNCHANGED <<questions, mark, collected, erased, ids>>

DeleteWrite(p) ==
    /\ page[p].op = "delete"
    /\ questions' = Only(page[p].read, Where(page[p].read, LAMBDA q : q.id # page[p].id))
    /\ Goto(p, Free)
    /\ UNCHANGED <<mark, collected, erased, ids, calls>>

---------------------------------------------------------------------------
(* Reviewed answers *)

\* _find_existing_question: by the text, the one thing that survives the move between datasets.
Existing(qs, x) == SelectInSeq(qs, LAMBDA q : q.text = x)

\* promote_to_dataset reads the target and looks for the text in it: the question that is
\* there is confirmed, with the list that was read; otherwise add_question reads again.
Review(p) ==
    /\ page[p] = Free /\ Called
    /\ \E x \in Texts :
          LET at == Existing(questions, x) IN
          Goto(p, IF at = 0 THEN Adding(None, x, "feedback")
                  ELSE [op |-> "confirm", at |-> at, read |-> questions])
    /\ UNCHANGED <<questions, mark, collected, erased, ids>>

Confirm(p) ==
    /\ page[p].op = "confirm"
    /\ questions' = [page[p].read EXCEPT ![page[p].at].origin = "feedback"]
    /\ Goto(p, Free)
    /\ UNCHANGED <<mark, collected, erased, ids, calls>>

Next ==
    \E p \in Pages :
        \/ Collect(p) \/ Store(p) \/ Promote(p) \/ CheckMark(p) \/ Mark(p) \/ Fail(p)
        \/ AddRead(p) \/ AddWrite(p) \/ DeleteRead(p) \/ DeleteWrite(p) \/ Review(p) \/ Confirm(p)

Spec == Init /\ [][Next]_vars

---------------------------------------------------------------------------
(* Properties *)

Of(t) == {i \in DOMAIN questions : questions[i].trace = t}

\* Questions have ids of their own, and a mark is the id of a question that was made.
TypeOK ==
    /\ \A i, k \in DOMAIN questions : questions[i].id = questions[k].id => i = k
    /\ \A i \in DOMAIN questions : questions[i].id \in 1..ids
    /\ \A t \in Traces : mark[t] \in {None} \cup 2..ids /\ (mark[t] # None => t \in collected)

\* A promotion that comes to its mark marks the question it made, also beside an older one
\* of the same trace.
MarkIsOfThisPromotion ==
    \A p \in Pages : page[p].op = "mark" /\ page'[p] = Free /\ mark' # mark =>
        mark'[page[p].trace] = Last(page[p].wrote).id

\* "a duplicate golden question is harder to notice and undo than a refusal is": by one page
\* at a time, with deletions and outages, a trace has a second question only where the mark
\* of the first was lost, to a collection or to a promotion that broke off before it.
TwiceOnlyUnmarked == \A t \in Traces \ erased : Cardinality(Of(t)) <= 1

\* By one page at a time, a reviewed question is one entry: the one that a model generated,
\* that a trace became, or a new one.
ReviewedIsOneEntry ==
    \A x \in Texts :
        (\E i \in DOMAIN questions : questions[i].text = x /\ questions[i].origin = "feedback") =>
            Cardinality({i \in DOMAIN questions : questions[i].text = x /\ questions[i].trace = None}) <= 1

-----------------------------------------------------------------------------
(* What the code, its tests or its documents say and the code does not keep (README). *)

\* "so the same production failure is not promoted twice": one page at a time.
PromotedOnce == \A t \in Traces : Cardinality(Of(t)) <= 1

\* "by two readers": without any mark having been lost.
PromotedOnceByTwo == erased = {} => PromotedOnce

\* "created a silent 51st duplicate instead of confirming the existing one".
ConfirmedInPlace ==
    \A i, k \in DOMAIN questions :
        questions[i].text = questions[k].text /\ questions[i].origin = "feedback"
            /\ questions[k].origin = "feedback" => i = k
=============================================================================
