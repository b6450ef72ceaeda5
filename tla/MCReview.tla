------------------------------- MODULE MCReview -------------------------------
(* What becomes of a run once it has answered, for TLC: a question is scored and its      *)
(* failure explained, the run page looks for what is wrong, a reviewer judges fragments,    *)
(* promotes traces and has comments triaged.  Each keeps its own documents, so a behaviour   *)
(* is about one of them (`part`) and the others are Off.                                     *)
EXTENDS Integers, Sequences, FiniteSets

CONSTANTS
    Parts,      \* the components to go through
    Nil,
    Fragments, Indices, DataSetAsked, Setups, TopK, Widened, AnswerTexts,
    WhatIsWrong, Contexts, Outcomes, MaxAnswered, MinMerge, Configs,
    Judging, JudgedQuestions, JudgedChunks, RefsOfChunk, MaxJudgments, MaxEdits, MaxFaults,
    Units, AnchorTexts, Blank, MaxChunks, MaxScore, Margin,
    Promoters, Traces, Queries, TextOfTrace, MaxIds, MaxCalls, LoneMaxIds, LoneMaxCalls,
    Reviewers, Ratings, Comments, Dims, Classes, Foreign, LeversOfClass, FinalRefs, DroppedRefs,
    MaxRequests

\* Three sources in four fragments: a numbered article, a path in two pieces, a whole document.
f1 == [id |-> 1, code |-> "A", article |-> "5", path |-> "p", doc |-> "d1", label |-> 5]
f2 == [id |-> 2, code |-> "B", article |-> Nil, path |-> "q", doc |-> "d2", label |-> Nil]
f3 == [id |-> 3, code |-> "B", article |-> Nil, path |-> "q", doc |-> "d2", label |-> 7]
f4 == [id |-> 4, code |-> Nil, article |-> Nil, path |-> Nil, doc |-> "d3", label |-> Nil]
ThreeSources == {f1, f2, f3, f4}
SomeOrNone == {ThreeSources, {f1, f4}, {f2, f4}, {}}
RefA == <<"A", "/", "5">>
RefB == <<"B", "#", "q">>
RefD == <<"d3">>
RefE == <<"E", "/", "9">>

Ask(text, refs, scope, given, reference) ==
    [refs |-> refs, scope |-> scope, given |-> given, reference |-> reference,
     id |-> Nil, called |-> Nil, text |-> text]
Named(id, q) == [q EXCEPT !.id = id, !.called = id]
\* The last two are worded alike.
OneManyOrNoSource ==
    <<Ask("t1", <<RefA>>, "local", Nil, TRUE), Named("i2", Ask("t2", <<RefA, RefA>>, "local", Nil, TRUE)),
      Ask("t3", <<RefB, RefD>>, "local", Nil, TRUE),
      Named("i4", Ask("t4", <<RefB>>, "local", "answerable", FALSE)),
      Ask("t5", <<RefA, RefB, RefD, RefE>>, "local", "answerable", TRUE),
      Ask("t6", <<>>, "local", Nil, TRUE),
      Ask("t7", <<RefA, RefB>>, "global", "answerable", TRUE),
      Ask("t7", <<RefD>>, "local", Nil, FALSE)>>
SetUp(external, retrievalOnly, reranker, fetch) ==
    [external |-> external, retrievalOnly |-> retrievalOnly, reranker |-> reranker, fetch |-> fetch]
EachKind ==
    {SetUp(FALSE, FALSE, TRUE, 3), SetUp(FALSE, FALSE, FALSE, 2), SetUp(FALSE, TRUE, TRUE, 2),
     SetUp(TRUE, FALSE, FALSE, 2)}
Text(empty, notFound, similar, numbers) ==
    [empty |-> empty, notFound |-> notFound, similar |-> similar, numbers |-> numbers]
GoodAndBad ==
    {Text(TRUE, FALSE, 0, {}), Text(FALSE, FALSE, 48, {5}), Text(FALSE, FALSE, -12, {}),
     Text(FALSE, FALSE, 30, {7}), Text(FALSE, TRUE, 30, {})}

\* Nothing wrong, and worlds in which something is.
NothingOrSomething ==
    {<<>>, [embedder |-> "stub", record |-> "stub"],
     [embedder |-> "stub", record |-> "stub", dense |-> FALSE],
     [embedder |-> "stub", record |-> Nil, floor |-> TRUE],
     [record |-> Nil], [record |-> Nil, dense |-> FALSE], [other |-> FALSE],
     [pipeline |-> "graph"], [pipeline |-> "graph", record |-> Nil, dense |-> FALSE],
     [external |-> TRUE, record |-> Nil], [pipeline |-> "naive", record |-> Nil],
     [retrievalOnly |-> TRUE],
     [asking |-> "m2", cut |-> "paragraph", promise |-> FALSE, collides |-> TRUE, covered |-> FALSE,
      repeats |-> TRUE]}
Origins(both, dense, other) == [both |-> both, denseOnly |-> dense, otherOnly |-> other]
FromEachHalf == {Origins(1, 0, 1), Origins(0, 2, 0), Origins(0, 0, 2), Origins(0, 0, 0)}
Replied(layer, answerable, refused) ==
    [layer |-> layer, answerable |-> answerable, refused |-> refused]
RightAndWrong ==
    {Replied("ok", TRUE, FALSE), Replied("ok", TRUE, TRUE), Replied("retrieval", TRUE, FALSE),
     Replied("not_applicable", FALSE, TRUE), Replied("not_applicable", FALSE, FALSE)}
OneFusion == {[merge |-> "rrf", rrf_k |-> 60]}

\* Two chunks of which one resolves to a source unit, two traces with a query of their own,
\* two error classes of which one has levers.
OneResolves == [c \in {"c1", "c2"} |-> IF c = "c1" THEN {"u1"} ELSE {}]
OwnQueries == [t \in {"t1", "t2"} |-> IF t = "t1" THEN "x1" ELSE "x2"]
OwnLevers == [c \in {"k1", "k2"} |-> IF c = "k1" THEN <<"l1", "l2">> ELSE <<>>]

VARIABLES
    part,       \* the component this behaviour is about
    phase, question, setup, index, resolver, lists, answer, metrics, verdict, cause,
    world, config, earlier, answered, stored, findings,
    lines, ended, request, golden, bundle, made, edits, faults,
    received, derived,
    questions, mark, collected, page, erased, ids, calls,
    feedback, split, pages, writes, requests

Score == INSTANCE QuestionScore WITH
    Fragment <- Fragments, Index <- Indices, DataSet <- DataSetAsked, Setup <- Setups,
    Texts <- AnswerTexts, None <- Nil
Detectors == INSTANCE RunDetectors WITH
    Faults <- WhatIsWrong, Context <- Contexts, Reply <- Outcomes, MaxQuestions <- MaxAnswered,
    Config <- Configs, None <- Nil, questions <- answered
Judgments == INSTANCE JudgmentStore WITH
    Requests <- Judging, Questions <- JudgedQuestions, Chunks <- JudgedChunks,
    Refs <- RefsOfChunk, file <- lines
Bundle == INSTANCE FixBundle WITH NoUnit <- Nil, Texts <- AnchorTexts
Promotion == INSTANCE QuestionPromotion WITH
    Pages <- Promoters, Texts <- Queries, TextOf <- TextOfTrace, None <- Nil
Promoter == INSTANCE QuestionPromotion WITH
    Pages <- {"p1"}, Texts <- Queries, TextOf <- TextOfTrace, MaxIds <- LoneMaxIds,
    MaxCalls <- LoneMaxCalls, None <- Nil
Triage == INSTANCE FeedbackTriage WITH
    Pages <- Reviewers, Levers <- LeversOfClass, OtherRefs <- {}, MaxCalls <- MaxRequests,
    None <- Nil, page <- pages, calls <- requests

scoreVars == <<phase, question, setup, index, resolver, lists, answer, metrics, verdict, cause>>
detectorsVars == <<world, config, earlier, answered, stored, findings>>
judgmentsVars == <<lines, ended, request, golden, bundle, made, edits, faults>>
bundleVars == <<received, derived>>
promotionVars == <<questions, mark, collected, page, erased, ids, calls>>
triageVars == <<feedback, split, pages, writes, requests>>
vars == <<part, scoreVars, detectorsVars, judgmentsVars, bundleVars, promotionVars,
    triageVars>>

ASSUME ScoreAssumption == Score!Assumptions
ASSUME DetectorsAssumption == Detectors!Assumptions
ASSUME JudgmentsAssumption == Judgments!Assumptions
ASSUME BundleAssumption == Bundle!Assumptions
ASSUME PromotionAssumption == Promotion!Assumptions /\ Promoter!Assumptions
ASSUME TriageAssumption == Triage!Assumptions

Off == [off |-> TRUE]
ScoreOff == phase = Off /\ question = Off /\ setup = Off /\ index = Off /\ resolver = Off /\
    lists = Off /\ answer = Off /\ metrics = Off /\ verdict = Off /\ cause = Off
DetectorsOff == world = Off /\ config = Off /\ earlier = Off /\ answered = Off /\ stored = Off /\
    findings = Off
JudgmentsOff == lines = Off /\ ended = Off /\ request = Off /\ golden = Off /\ bundle = Off /\
    made = Off /\ edits = Off /\ faults = Off
BundleOff == received = Off /\ derived = Off
PromotionOff == questions = Off /\ mark = Off /\ collected = Off /\ page = Off /\ erased = Off /\
    ids = Off /\ calls = Off
TriageOff == feedback = Off /\ split = Off /\ pages = Off /\ writes = Off /\ requests = Off

Init ==
    /\ part \in Parts
    /\ IF part = "score" THEN Score!Init ELSE ScoreOff
    /\ IF part = "detectors" THEN Detectors!Init ELSE DetectorsOff
    /\ IF part = "judgments" THEN Judgments!Init ELSE JudgmentsOff
    /\ IF part = "bundle" THEN Bundle!Init ELSE BundleOff
    /\ IF part = "promotion" THEN Promotion!Init ELSE IF part = "one promoter" THEN Promoter!Init ELSE PromotionOff
    /\ IF part = "triage" THEN Triage!Init ELSE TriageOff

ScoreStep ==
    /\ part = "score" /\ Score!Next
    /\ UNCHANGED <<part, detectorsVars, judgmentsVars, bundleVars, promotionVars,
                 triageVars>>
DetectorsStep ==
    /\ part = "detectors" /\ Detectors!Next
    /\ UNCHANGED <<part, scoreVars, judgmentsVars, bundleVars, promotionVars,
                 triageVars>>
JudgmentsStep ==
    /\ part = "judgments" /\ Judgments!Next
    /\ UNCHANGED <<part, scoreVars, detectorsVars, bundleVars, promotionVars,
                 triageVars>>
BundleStep ==
    /\ part = "bundle" /\ Bundle!Next
    /\ UNCHANGED <<part, scoreVars, detectorsVars, judgmentsVars, promotionVars,
                 triageVars>>
PromotionStep ==
    /\ part = "promotion" /\ Promotion!Next
    /\ UNCHANGED <<part, scoreVars, detectorsVars, judgmentsVars, bundleVars,
                 triageVars>>
PromoterStep ==
    /\ part = "one promoter" /\ Promoter!Next
    /\ UNCHANGED <<part, scoreVars, detectorsVars, judgmentsVars, bundleVars,
                 triageVars>>
TriageStep ==
    /\ part = "triage" /\ Triage!Next
    /\ UNCHANGED <<part, scoreVars, detectorsVars, judgmentsVars, bundleVars,
                 promotionVars>>
Next == ScoreStep \/ DetectorsStep \/ JudgmentsStep \/ BundleStep \/ PromotionStep \/ PromoterStep \/ TriageStep

Spec == Init /\ [][Next]_vars

----------------------------------------------------------------------------
(* Properties *)

\* Every component's variables keep to the shapes its module gives them.
TypeOK ==
    /\ part = "score" => Score!TypeOK
    /\ part = "detectors" => Detectors!TypeOK
    /\ part = "judgments" => Judgments!TypeOK
    /\ part = "bundle" => Bundle!TypeOK
    /\ part = "promotion" => Promotion!TypeOK
    /\ part = "one promoter" => Promoter!TypeOK
    /\ part = "triage" => Triage!TypeOK

\* A metric is recorded where it has grounds, and a stage blamed for a failed question is one
\* that failed it: the stages agree on what was found.  Of a question that is looked up as
\* itself, data is missing where the index lacks a source and the data set insisted that it can
\* be answered, and any other cause is in the index.
BlameIsEarned ==
    part = "score" =>
        /\ Score!MetricsHaveGrounds /\ Score!BlameIsEarned /\ Score!StagesAgreeOnFound
        /\ Score!MissingDataNeedsAClaim /\ Score!CauseIsInTheIndex

\* Over a healthy run that was answered well and came back whole the run page raises an error only
\* where half of the questions cannot be answered or none of them says anything to the half beside
\* the dense one.  It reports one fault once, and does not keep quiet about a half that is
\* empty, a recorded stub, or a question that was lost from a run that found some and missed some.
FaultsAreHeard ==
    part = "detectors" =>
        /\ Detectors!HealthyRunIsQuiet /\ Detectors!OneVoicePerFault
        /\ Detectors!PlantedFaultsSpeak /\ Detectors!LostQuestionIsHeard

\* What a reviewer ruled comes back where it belongs: a judged text is found in an index that
\* holds it, a threshold admits every match, one promoter at a time makes a second question
\* of a trace only where the mark of the first was lost and no second entry of a reviewed
\* text, and a recommendation that needs no person has a lever of its classes.
RulingsReachTheirPlace ==
    /\ part = "bundle" => Bundle!TextIsFoundAgain /\ Bundle!ThresholdAdmitsTheMatches
    /\ part = "one promoter" => Promoter!TwiceOnlyUnmarked /\ Promoter!ReviewedIsOneEntry
    /\ part = "triage" => Triage!TrustedHasALever

\* One write changes what it was asked to: a rewrite of the judgments costs at most the one it
\* names, a promotion marks its own trace with the question it made, and feedback written by
\* a request that nothing was written beside keeps the fields it does not set.
WritesTouchTheirOwn ==
    [][/\ part = "judgments" => Judgments!RewritesTouchOne
       /\ part = "promotion" => Promotion!MarkIsOfThisPromotion
       /\ part = "triage" => Triage!AloneIsKept]_vars
==============================================================================
