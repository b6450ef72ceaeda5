---------------------------- MODULE RunComparison ----------------------------
(***************************************************************************)
(* Two finished runs read against each other: the pairing of their         *)
(* questions and the flips asked again (core/eval/regression.py and        *)
(* compare_experiments), what is said of their comparability               *)
(* (core/experiment/compare.py), the tasks and the prescription made from  *)
(* the run before (core/eval/prioritization.py and prescription.py) and    *)
(* its acceptance by the run after.  A question's result is what went      *)
(* wrong and which of the documents it needs were absent.                  *)
(***************************************************************************)
EXTENDS Integers, Sequences, FiniteSets, Lists

CONSTANTS
    Question, Entity,
    Needs,        \* Needs[q]: the documents the references of q belong to, one reference each
    Before,       \* the runs that may be compared: records [rows, meta]
    After,        \* the runs they may be compared with
    MaxFlips,     \* _MAX_RESAMPLE_FLIPS
    Samples,      \* _RESAMPLE_N
    None

\* The paired part of an answer.
Pairings == [fixed : SUBSET Question, flips : SUBSET Question, unchanged : SUBSET Question,
             onlyBefore : SUBSET Question, onlyAfter : SUBSET Question]
Reports == [paired : Pairings, noise : SUBSET Question, attempted : BOOLEAN]

Assumptions ==
    /\ Samples = 2 /\ None \notin Entity /\ Question \cap {None} = {} /\ IsFiniteSet(Question)
    /\ None \notin Reports
    /\ \A run \in Before \cup After :
          /\ DOMAIN run.rows \subseteq Question
          /\ \A q \in DOMAIN run.rows : run.rows[q].absent \subseteq Entity
          /\ run.meta.accuracy # None => run.meta.accuracy \in Nat

VARIABLES
    before, after,
    flaky,       \* the questions whose answer varies under the conditions of the run itself
    dataset,     \* the questions the dataset still holds
    changed,     \* the index, the prompt or the pins are not those of the run any more
    phase,       \* "idle", "sampling" or "done"
    samples,     \* the verdicts of each flip that is asked again
    progress,    \* the events of the comparison's socket
    report,      \* None, or the paired part of the answer
    verdict      \* None, or the acceptance of a task of the run before

world == <<flaky, dataset, changed>>
vars == <<before, after, flaky, dataset, changed, phase, samples, progress, report, verdict>>

-----------------------------------------------------------------------------
(* A stored question: kind "answered", "generation" (found, answered        *)
(* badly), "uncovered" or "error"; absent, the documents retrieval missed.  *)

Found(q, row) == Cardinality(Needs[q] \ row.absent)

\* _attach_funnel on what is stored: a question that failed with an error has no class.
Layer(q, row) ==
    CASE row.kind \in {"error", "uncovered"} -> "not_applicable"
      [] 10 * Found(q, row) < 3 * Cardinality(Needs[q]) -> "retrieval"
      [] row.kind = "generation" -> "generation"
      [] OTHER -> "ok"

Ids(run) == DOMAIN run.rows
IsOk(run, q) == Layer(q, run.rows[q]) = "ok"

\* The metrics of a question; recall in units of 1 / Unit.  A run from before the present schema
\* has an accuracy, in hundredths.
Unit == 4
Values(run) == {q \in Ids(run) : run.rows[q].kind \notin {"error", "uncovered"}}
Recall(run, q) == (Unit * Found(q, run.rows[q])) \div Cardinality(Needs[q])
\* The sums over the questions, by how many of them have each recall above none.
At(run, n) == Cardinality({q \in Values(run) : Recall(run, q) = n})
Sum(run) == At(run, 1) + 2 * At(run, 2) + 3 * At(run, 3) + 4 * At(run, 4)
Squares(run) == At(run, 1) + 4 * At(run, 2) + 9 * At(run, 3) + 16 * At(run, 4)
Metrics(run) == (IF Values(run) = {} THEN {} ELSE {"recall"})
                \cup (IF run.meta.retrievalOnly \/ Values(run) = {} THEN {} ELSE {"similarity"})
                \cup (IF run.meta.judge = None THEN {} ELSE {"assertion_coverage"})
                \cup (IF run.meta.accuracy = None THEN {} ELSE {"accuracy_semantic"})

-----------------------------------------------------------------------------
(* regression.py                                                           *)

\* paired_diff
PairedDiff(b, a) ==
    LET common == Ids(b) \cap Ids(a) IN
    [fixed |-> {q \in common : ~IsOk(b, q) /\ IsOk(a, q)},
     flips |-> {q \in common : IsOk(b, q) /\ ~IsOk(a, q)},
     unchanged |-> {q \in common : IsOk(b, q) <=> IsOk(a, q)},
     onlyBefore |-> Ids(b) \ Ids(a), onlyAfter |-> Ids(a) \ Ids(b)]

\* confirm_flips: the first observation of a flip is one of its samples, and it was not ok.
Noise(s) ==
    {q \in DOMAIN s : 2 * Cardinality({i \in DOMAIN s[q] : s[q][i]}) >= 1 + Len(s[q])}

\* The metrics that fell by more than five in a hundred; one that vanished is unchecked.
Shared(base, cur) == Metrics(base) \cap Metrics(cur)
Fallen(base, cur) ==
    {m \in Shared(base, cur) :
       \/ m = "recall" /\ 100 * Sum(cur) * Cardinality(Values(base))
                             < 95 * Sum(base) * Cardinality(Values(cur))
       \/ m = "accuracy_semantic" /\ 100 * cur.meta.accuracy < 95 * base.meta.accuracy}

\* SLA_ABSOLUTE_FLOORS: checked of the run alone, whatever the baseline.
BelowFloor(cur) ==
    {m \in Metrics(cur) : m = "accuracy_semantic" /\ cur.meta.accuracy < 85}

\* compare of the regression module: the violations.  Runs without a metric in common fail.
Regressed(base, cur) ==
    IF Metrics(base) # {} /\ Metrics(cur) # {} /\ Shared(base, cur) = {}
    THEN {"no comparable metrics"}
    ELSE Fallen(base, cur) \cup BelowFloor(cur)

-----------------------------------------------------------------------------
(* check_comparability                                                     *)

\* resolution: whether a difference of the means is within 1.96 standard errors of a side.
Within(run, difference, scale) ==
    LET n == Cardinality(Values(run))
        scatter == n * Squares(run) - Sum(run) * Sum(run)
    IN  n >= 2 /\ difference * difference * 10000 * n * n * (n - 1)
                    < 38416 * scatter * scale * scale

Unresolved(b, a) ==
    LET nb == Cardinality(Values(b))
        na == Cardinality(Values(a))
        difference == Sum(b) * na - Sum(a) * nb
    IN  /\ "recall" \in Metrics(b) \cap Metrics(a) /\ difference # 0
        /\ \E run \in {b, a} : Within(run, difference, nb * na)

Differ(b, a, f) == b.meta[f] # a.meta[f]
Recorded(b, a, f) == b.meta[f] # None /\ a.meta[f] # None
Errored(run) == {q \in Ids(run) : run.rows[q].kind = "error"}
When(condition, id) == IF condition THEN {id} ELSE {}

\* What makes the numbers of two runs numbers of two things.
RunErrors(b, a) ==
    When(Ids(b) = {} \/ Ids(a) = {}, "empty_run")
    \cup When(Recorded(b, a, "digest") /\ Differ(b, a, "digest") /\ ~Differ(b, a, "corpus"),
              "corpus_changed")
    \cup When(Differ(b, a, "dataset"), "different_dataset")
    \cup When(Differ(b, a, "corpus"), "different_corpus")

PairErrors(p) == When(p.fixed \cup p.flips \cup p.unchanged = {}, "no_overlap")

\* What was recorded on one side only is reported as unknown, not as a difference.
RecordWarnings(b, a) ==
    UNION {When(Recorded(b, a, f) /\ Differ(b, a, f), "different_" \o f)
           \cup When(~Recorded(b, a, f) /\ Differ(b, a, f), f \o "_unrecorded") : f \in {"prompt", "model"}}

ErrorsOfBoth(b, a) == When(Errored(b) \cup Errored(a) # {}, "errored_questions")

RunWarnings(b, a) ==
    When("assertion_coverage" \in Metrics(b) \cap Metrics(a) /\ Differ(b, a, "judge"), "different_judge")
    \cup When(Unresolved(b, a), "below_the_sets_resolution")
    \cup When(Differ(b, a, "realm"), "different_realm")
    \cup RecordWarnings(b, a)
    \cup When(Differ(b, a, "retrievalOnly"), "retrieval_only_mismatch")
    \cup When(b.meta.stopped \/ a.meta.stopped, "partial_run")
    \cup ErrorsOfBoth(b, a)
    \cup When(~b.meta.covered \/ ~a.meta.covered, "coverage_unverified")
    \cup When(Metrics(b) # Metrics(a), "metric_missing_in_one_run")

PairWarnings(b, a, p) ==
    When(PairErrors(p) = {} /\ p.onlyBefore \cup p.onlyAfter # {} /\ ~Differ(b, a, "dataset"),
         "partial_overlap")

Errors(b, a) == RunErrors(b, a) \cup PairErrors(PairedDiff(b, a))
Comparability(b, a) ==
    Errors(b, a) \cup RunWarnings(b, a) \cup PairWarnings(b, a, PairedDiff(b, a))
    \cup When(b.meta.id = a.meta.id, "same_run")
-----------------------------------------------------------------------------
(* Tasks, the prescription and its acceptance.                             *)

AbsentFrom(row) == IF row.absent = {} THEN {None} ELSE row.absent

\* group_failures: a task for each document the failures of a cause name, None for no document.
FailedAt(run, e) ==
    {q \in Ids(run) : Layer(q, run.rows[q]) = "retrieval" /\ e \in AbsentFrom(run.rows[q])}
Tasks(run) == {[entity |-> e, ids |-> FailedAt(run, e)] : e \in {d \in Entity \cup {None} : FailedAt(run, d) # {}}}

\* The questions that share a task with another.
Clustered(run) == UNION {t.ids : t \in {u \in Tasks(run) : Cardinality(u.ids) > 1}}

\* build_prescription: each task becomes a fix, its questions the ones that verify it.
Prescription(run) == {[entity |-> t.entity, verification |-> t.ids] : t \in Tasks(run)}

\* Variant with a bug: a named question that is in one of the runs only is passed over.
JudgeThePresent(ids, b, a) ==
    LET seen == ids \cap Ids(b) \cap Ids(a) IN
    [ids |-> ids, unchecked |-> {},
     fixed |-> {q \in seen : ~IsOk(b, q) /\ IsOk(a, q)},
     stillFailing |-> {q \in seen : ~IsOk(b, q) /\ ~IsOk(a, q)},
     regressed |-> {q \in seen : IsOk(b, q) /\ ~IsOk(a, q)}]

JudgeAcceptance(ids, b, a) ==
    LET seen == ids \cap Ids(b) \cap Ids(a) IN
    [ids |-> ids, unchecked |-> ids \ seen,
     fixed |-> {q \in seen : ~IsOk(b, q) /\ IsOk(a, q)},
     stillFailing |-> {q \in seen : ~IsOk(b, q) /\ ~IsOk(a, q)},
     regressed |-> {q \in seen : IsOk(b, q) /\ ~IsOk(a, q)}]
Accepted(v) == v.stillFailing \cup v.regressed \cup v.unchecked = {}

-----------------------------------------------------------------------------
(* The comparison of the two runs.                                         *)

Event(type, n) == [type |-> type, n |-> n]
Flips == PairedDiff(before, after).flips
Live == Flips \cap dataset

\* The answer to the caller, and the event that closes the socket.
Answer(paired, noise, attempted) ==
    /\ report' = [paired |-> [paired EXCEPT !.flips = @ \ noise, !.unchanged = @ \cup noise],
                  noise |-> noise, attempted |-> attempted]
    /\ phase' = "done"

\* The pairing; no flip, too many, or a pipeline that cannot be rebuilt: it stands as it is.
Compare(rebuilt) ==
    /\ phase = "idle"
    /\ LET p == PairedDiff(before, after) IN
       IF p.flips = {} \/ Cardinality(p.flips) > MaxFlips \/ ~rebuilt
       THEN /\ Answer(p, {}, FALSE)
            /\ progress' = <<Event("done", 0)>> /\ samples' = samples
       ELSE /\ samples' = [q \in Live |-> <<>>]
            /\ progress' = <<Event("progress", 0)>>
            /\ phase' = "sampling" /\ report' = report
    /\ UNCHANGED <<before, after, world, verdict>>

\* One call: one that fails, in an outage, counts as not ok; under other conditions anything can
\* come back.
CouldAnswer(q, ok) == ok => q \in flaky \/ changed
Sample(q, ok) ==
    /\ phase = "sampling" /\ q \in DOMAIN samples /\ Len(samples[q]) < Samples
    /\ CouldAnswer(q, ok)
    /\ samples' = [samples EXCEPT ![q] = Append(@, ok)]
    /\ progress' = IF Len(samples[q]) + 1 < Samples THEN progress
                   ELSE Append(progress, Event("progress", Last(progress).n + 1))
    /\ UNCHANGED <<before, after, world, phase, report, verdict>>

Finish ==
    /\ phase = "sampling" /\ \A q \in DOMAIN samples : Len(samples[q]) = Samples
    /\ Answer(PairedDiff(before, after), Noise(samples), TRUE)
    /\ progress' = Append(progress, Event("done", 0))
    /\ UNCHANGED <<before, after, world, samples, verdict>>

\* The owner asks whether a prescribed fix was carried out; any list of questions may be sent.
Judge(ids) ==
    /\ verdict = None
    /\ verdict' = JudgeAcceptance(ids, before, after)
    /\ UNCHANGED <<before, after, world, phase, samples, progress, report>>

\* Outside: the index is loaded again, a prompt activated, pins edited; a question leaves
\* the dataset.
Change == ~changed /\ changed' = TRUE
          /\ UNCHANGED <<before, after, flaky, dataset, phase, samples, progress, report, verdict>>
Forget(q) == phase = "idle" /\ q \in dataset /\ dataset' = dataset \ {q}
          /\ UNCHANGED <<before, after, flaky, changed, phase, samples, progress, report, verdict>>

Init ==
    /\ before \in Before /\ after \in After /\ flaky \in SUBSET Question
    /\ dataset = Question /\ changed = FALSE
    /\ phase = "idle" /\ samples = <<>> /\ progress = <<>> /\ report = None /\ verdict = None

Next ==
    \/ \E rebuilt \in BOOLEAN : Compare(rebuilt)
    \/ \E q \in Question, ok \in BOOLEAN : Sample(q, ok)
    \/ Finish
    \/ \E fix \in Prescription(before) : Judge(fix.verification)
    \/ Judge(Question)
    \/ Change \/ \E q \in Question : Forget(q)

Spec ==
    /\ Init /\ [][Next]_vars
    /\ WF_vars(\E rebuilt \in BOOLEAN : Compare(rebuilt))
    /\ WF_vars(\E q \in Question, ok \in BOOLEAN : Sample(q, ok)) /\ WF_vars(Finish)

-----------------------------------------------------------------------------
TypeOK ==
    /\ before \in Before /\ after \in After /\ flaky \subseteq Question /\ dataset \subseteq Question
    /\ phase \in {"idle", "sampling", "done"}
    /\ DOMAIN samples \subseteq Question /\ \A q \in DOMAIN samples : Len(samples[q]) <= Samples
    /\ \A i \in DOMAIN progress : progress[i].type = "done" => i = Len(progress)
    /\ (phase = "done") = (report # None)

\* compare_experiments: after the flips were asked again every shared question is still in one
\* of the three groups, and in one only.
EveryQuestionHasOneGroup ==
    report # None =>
        LET p == report.paired IN
        /\ p.fixed \cup p.flips \cup p.unchanged = Ids(before) \cap Ids(after)
        /\ p.fixed \cap p.flips = {} /\ p.flips \cap p.unchanged = {} /\ p.fixed \cap p.unchanged = {}

\* confirm_flips and the except of _sample_all: a flip is taken for noise only when every call
\* that asked it again came back and was well answered; an outage clears nobody.
ClearedOnlyByAnswers ==
    report # None =>
        \A q \in report.noise : q \in dataset /\ \A i \in DOMAIN samples[q] : samples[q][i]

\* compare_preflight reads the runs in either order: what B fixes of A, A flips of B, and what
\* is said of their comparability is the same.
SwappedRunsMirror ==
    /\ PairedDiff(before, after).fixed = PairedDiff(after, before).flips
    /\ Comparability(before, after) = Comparability(after, before)

\* compare.py: nothing said of a run compared with itself is a difference.  The gate refuses it
\* only below an absolute floor, which asks nothing of the baseline.
ItselfIsNoDifference ==
    /\ Regressed(before, before) = BelowFloor(before)
    /\ Comparability(before, before) \subseteq
         {"same_run", "partial_run", "errored_questions", "coverage_unverified", "empty_run", "no_overlap"}

\* judge_acceptance: an accepted fix has every question it named in both runs, failing then and
\* well answered now, though a task's list was made from the run before alone.
AcceptedFixIsDone ==
    (verdict # None /\ Accepted(verdict)) =>
        /\ verdict.ids \subseteq Ids(before) \cap Ids(after)
        /\ (\E t \in Tasks(before) : t.ids = verdict.ids)
             => verdict.ids \subseteq PairedDiff(before, after).fixed \cup {q \in verdict.ids : IsOk(before, q)}

\* group_failures: no retrieval failure is left without a task, the shared ones are of a task of
\* two or more.
FailuresHaveTasks ==
    /\ UNION {t.ids : t \in Tasks(before)} = {q \in Ids(before) : Layer(q, before.rows[q]) = "retrieval"}
    /\ \A q \in Clustered(before) : \E p \in Ids(before) \ {q} :
          AbsentFrom(before.rows[p]) \cap AbsentFrom(before.rows[q]) # {}

\* compare_experiments: the comparison's socket is closed by a last event, whatever fails.
EveryComparisonIsClosed == <>(progress # <<>> /\ Last(progress).type = "done")

-----------------------------------------------------------------------------
(* What the code, its tests or its documents say and the code does not keep (README). *)

\* prescription.py:284: "an acceptance verdict cannot disagree with a regression report about
\* the same pair of runs".
AcceptanceAgreesWithTheReport ==
    (report # None /\ verdict # None) => verdict.regressed \subseteq report.paired.flips

\* experiments.py:1606: the flip is asked again "under the same conditions the run itself used":
\* one that fails under them every time is not cleared.
ClearedUnderTheRunsConditions == report # None => report.noise \subseteq flaky

\* The run in which one document was loaded and nothing else changed.
Repaired(run, e) ==
    [run EXCEPT !.rows = [q \in DOMAIN @ |-> [@[q] EXCEPT !.absent = @ \ {e}]]]

\* prioritization.py:93: "the question really would be closed by fixing any one of them": a run
\* after which one task's document is there and nothing else changed passes that task.
AnyOneFixCloses ==
    \A t \in Tasks(before) : t.entity # None =>
        Accepted(JudgeAcceptance(t.ids, before, Repaired(before, t.entity)))
=============================================================================
