---------------------------- MODULE FeedbackTriage ----------------------------
(***************************************************************************)
(* The feedback on one answer (routers/feedback.py) and its triage         *)
(* (core/eval/triage.py): a request reads the document, changes a copy and *)
(* replaces the document with it, one await or more later.                 *)
(***************************************************************************)
EXTENDS Integers, FiniteSets, Sequences, Functions, Selections

CONSTANTS
    Pages,          \* requests being answered at a time
    Ratings, Comments, Dims,     \* what a reviewer may set; the dimensions of a score
    Classes,        \* error classes of the taxonomy
    Foreign,        \* a class a model may name that the taxonomy does not have
    Levers,         \* Levers[c]: the candidate levers of a class, in order
    FinalRefs, DroppedRefs, OtherRefs,  \* what the answer had, what was dropped before it, the rest
    None, MaxCalls  \* bound: requests

Assumptions ==
    /\ Foreign \notin Classes /\ None \notin Comments \cup Ratings /\ MaxCalls \in Nat
    /\ None \notin {"proposed", "confirmed", "rejected", "edited"}
    /\ \A c \in Classes : Levers[c] \in Seq(Range(Levers[c]))

VARIABLES
    feedback,   \* the document, NoDoc when there is none
    split,      \* the run is stored with its windows apart
    page,       \* what each request read and is about to write
    writes,     \* history: how often the document was written or deleted
    calls

vars == <<feedback, split, page, writes, calls>>

NoDoc == [there |-> FALSE]
NoResult == [made |-> FALSE]
Free == [op |-> "free"]
Fresh == [there |-> TRUE, rating |-> None, scores |-> {}, comment |-> None,
          result |-> NoResult, status |-> None]

Init ==
    /\ feedback = NoDoc /\ split \in BOOLEAN
    /\ page = [p \in Pages |-> Free]
    /\ writes = 0 /\ calls = 0

---------------------------------------------------------------------------
(* Triage *)

\* What a model may answer: no JSON at all, or classes, the sources the reviewer named and
\* whether it is confident.
Replies == {[json |-> FALSE, classes |-> <<>>, refs |-> {}, sure |-> FALSE]} \cup
           [json : {TRUE}, classes : {<<c>> : c \in Classes \cup {Foreign}} \cup {<<Foreign, c>> : c \in Classes}
                                        \cup {<<c, d>> : c, d \in Classes},
            refs : {{}} \cup {{r} : r \in FinalRefs \cup DroppedRefs \cup OtherRefs}, sure : BOOLEAN]

\* parse_triage_response: the classes of the taxonomy, in the model's order; without any, or
\* below the confidence, the result is for a person.
Parsed(reply) ==
    LET known == Only(reply.classes, Where(reply.classes, LAMBDA c : c \in Classes)) IN
    [classes |-> known, refs |-> reply.refs, manual |-> known = <<>> \/ ~reply.sure]

\* The run is read as its document: what the windows hold is not in it.
RunRefs == FinalRefs \cup (IF split THEN {} ELSE DroppedRefs)

\* cross_check: one named source that is known, or, without any, a funnel that found a layer.
Confirmed(parsed, layer) ==
    IF parsed.refs = {} THEN layer ELSE parsed.refs \cap RunRefs # {}

\* propose_lever: of the levers of the classes, in their order, the first is primary, which is
\* the first one of the first class that has any.
Proposed(classes) ==
    LET withLevers == Where(classes, LAMBDA c : c \in Classes /\ Levers[c] # <<>>)
    IN  IF withLevers = {} THEN None ELSE Head(Levers[classes[Nth(withLevers, 1)]])

\* The result that is stored, with the comment it was made from.
ResultOf(comment, reply, layer) ==
    LET parsed == Parsed(reply) IN
    [made |-> TRUE, of |-> comment, classes |-> parsed.classes, refs |-> parsed.refs, manual |-> parsed.manual,
     confirmed |-> Confirmed(parsed, layer), lever |-> Proposed(parsed.classes), edited |-> FALSE]

---------------------------------------------------------------------------
(* Requests: each reads what is there ... *)

Bodies == [rating : Ratings \cup {None}, scores : SUBSET Dims, comment : Comments \cup {None}]

Starts(p, l) ==
    /\ page[p] = Free /\ calls < MaxCalls
    /\ calls' = calls + 1
    /\ page' = [page EXCEPT ![p] = [l EXCEPT !.read = feedback, !.at = writes]]
    /\ UNCHANGED <<feedback, split, writes>>

Request(op, body) == [op |-> op, body |-> body, read |-> NoDoc, at |-> 0]

PutRead(p) == \E b \in Bodies : Starts(p, Request("put", b))

\* A document without a comment is a 400.
TriageRead(p) == feedback.there /\ feedback.comment # None /\ Starts(p, Request("triage", NoDoc))

\* Variant with a bug: a proposal that was never made can be decided on.
DecideReadAnyway(p) == feedback.there /\ Starts(p, Request("decide", NoDoc))

\* A document without a proposal is a 404.
DecideRead(p) == feedback.there /\ feedback.result.made /\ Starts(p, Request("decide", NoDoc))

---------------------------------------------------------------------------
(* ... and writes a whole document *)

Writes(p, op, doc) ==
    /\ page[p].op = op
    /\ feedback' = doc
    /\ page' = [page EXCEPT ![p] = Free]
    /\ writes' = writes + 1
    /\ UNCHANGED <<split, calls>>

\* upsert_feedback: the fields that are set, and the scores by their key.
Merged(old, b) ==
    [(IF old.there THEN old ELSE Fresh) EXCEPT !.rating = IF b.rating = None THEN @ ELSE b.rating,
        !.scores = @ \cup b.scores, !.comment = IF b.comment = None THEN @ ELSE b.comment]

PutWrite(p) == page[p].op = "put" /\ Writes(p, "put", Merged(page[p].read, page[p].body))

\* The settings, the generator and its answer, then the copy of the document that was read.
\* The funnel has found a layer other than "ok" or not.
TriageWrite(p) ==
    /\ page[p].op = "triage"
    /\ \E reply \in Replies, layer \in BOOLEAN :
          Writes(p, "triage", [page[p].read EXCEPT !.result = ResultOf(page[p].read.comment, reply, layer),
                                                   !.status = "proposed"])

\* No taxonomy (a 409) or a generator that fails (a 502).
TriageFails(p) ==
    /\ page[p].op = "triage"
    /\ page' = [page EXCEPT ![p] = Free]
    /\ UNCHANGED <<feedback, split, writes, calls>>

\* decide_triage; an edit is laid over the stored result, here over its classes.
DecideWrite(p) ==
    /\ page[p].op = "decide"
    /\ \/ \E verdict \in {"confirmed", "rejected"} :
             Writes(p, "decide", [page[p].read EXCEPT !.status = verdict])
       \/ \E c \in Classes :
             Writes(p, "decide", [page[p].read EXCEPT !.status = "edited",
                                     !.result = IF @.made THEN [@ EXCEPT !.classes = <<c>>, !.edited = TRUE] ELSE @])

\* delete_feedback.
Delete(p) ==
    /\ page[p] = Free /\ feedback.there /\ calls < MaxCalls
    /\ calls' = calls + 1
    /\ feedback' = NoDoc /\ writes' = writes + 1
    /\ UNCHANGED <<split, page>>

Next ==
    \E p \in Pages :
        \/ PutRead(p) \/ TriageRead(p) \/ DecideRead(p)
        \/ PutWrite(p) \/ TriageWrite(p) \/ TriageFails(p) \/ DecideWrite(p) \/ Delete(p)

Spec == Init /\ [][Next]_vars

---------------------------------------------------------------------------
(* Properties *)

Written(p) == page[p] # Free /\ page'[p] = Free /\ writes' # writes

\* However requests overlap, a document that has been decided on has what was decided on, and
\* a result was made from a comment.
TypeOK ==
    feedback.there =>
        /\ feedback.scores \subseteq Dims
        /\ feedback.status # None <=> feedback.result.made
        /\ feedback.result.made => feedback.result.of \in Comments

\* "a PUT only touches the fields it sets", "setting `accuracy` alone must not clear an
\* already-saved `completeness`": between its read and its write nothing else being written, a
\* request keeps the scores, the comment and the result it does not set.
AloneIsKept ==
    \A p \in Pages : (Written(p) /\ page[p].at = writes /\ feedback.there) =>
        /\ feedback.scores \subseteq feedback'.scores
        /\ page[p].op = "put" => feedback'.result = feedback.result /\ feedback'.status = feedback.status
        /\ page[p].op # "put" => feedback'.comment = feedback.comment /\ feedback'.rating = feedback.rating

\* A recommendation that needs no person names classes of the taxonomy alone and has a lever of
\* one of them, or none where none of them has any, whatever the model answered.
TrustedHasALever ==
    (feedback.there /\ feedback.result.made) =>
        LET r == feedback.result IN
        (~r.manual /\ ~r.edited) =>
            /\ r.classes # <<>> /\ Range(r.classes) \subseteq Classes
            /\ IF \E c \in Range(r.classes) : Levers[c] # <<>>
               THEN \E c \in Range(r.classes) : r.lever \in Range(Levers[c])
               ELSE r.lever = None

-----------------------------------------------------------------------------
(* What the code, its tests or its documents say and the code does not keep (README). *)

\* "Create-or-merge feedback for one question": a score that was saved stays until the feedback
\* is deleted.
SavedIsKept ==
    [][(feedback.there /\ feedback'.there) => feedback.scores \subseteq feedback'.scores]_vars

\* "classifies the CURRENT stored comment": a triage writes beside its result the comment that
\* is stored.
TriagesTheCurrent ==
    [][\A p \in Pages : (Written(p) /\ page[p].op = "triage") =>
           feedback.there /\ feedback.comment = feedback'.result.of]_vars

\* "or in `pre_rerank_source_refs`, retrieved but then dropped": a source that was retrieved
\* confirms the diagnosis.
DroppedIsVerified ==
    (feedback.there /\ feedback.result.made) =>
        (feedback.result.refs \cap (FinalRefs \cup DroppedRefs) # {} => feedback.result.confirmed)

\* "correcting `error_classes` the model got wrong": the lever goes with the classes.
LeverFollowsTheEdit ==
    (feedback.there /\ feedback.status = "edited") =>
        \E i \in DOMAIN feedback.result.classes : feedback.result.lever \in Range(Levers[feedback.result.classes[i]])
=============================================================================
