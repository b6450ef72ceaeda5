---------------------------- MODULE RunDetectors ----------------------------
(***************************************************************************)
(* What the run page says is wrong with a finished run: the detectors of   *)
(* core/eval/detectors.py over the runs a world can produce.  The world is *)
(* chosen first: how the corpus was indexed, which of its halves hold it,  *)
(* what the load recorded.  Questions are answered in it one by one, the   *)
(* run is stored with its means, a question may be lost in the store, and  *)
(* then the detectors speak.  A fragment is the half or halves it came     *)
(* from; a context is how many there are of each.                          *)
(***************************************************************************)
EXTENDS Integers, Sequences, FiniteSets, Lists

CONSTANTS
    Faults,       \* worlds: what is wrong in each, fields of HealthyWorld with another value
    Context,      \* records [both, denseOnly, otherOnly]: a context by the halves of its fragments
    Reply,        \* records [layer, answerable, refused]: what became of a question
    MaxQuestions, \* bound on the questions of the run
    MinMerge,     \* _MIN_MERGE_OBSERVATIONS
    Config,       \* the configurations tried on the question set
    None

VARIABLES
    world,
    config,     \* the configuration of this run
    earlier,    \* the configurations of the runs before it on the same questions
    questions,  \* the answered questions, a sequence
    stored,     \* None, or the aggregate recall written with the run and its size
    findings    \* None, or the set of [id, severity] of the run page

vars == <<world, config, earlier, questions, stored, findings>>

\* The world in which nothing is wrong; every field is a thing that can be.
HealthyWorld ==
    [embedder |-> "model",      \* what indexed the corpus: "model" or "stub"
     floor |-> FALSE,           \* no dense score is above the floor, as a stub's may be
     record |-> "model",        \* what the load record says of it: "model", "stub" or None
     dense |-> TRUE, other |-> TRUE,             \* the half's index holds the corpus
     pipeline |-> "hybrid_rrf", external |-> FALSE, retrievalOnly |-> FALSE,
     asking |-> "m1", indexing |-> "m1",         \* the models asked and indexed with
     named |-> "fixed", cut |-> "fixed",         \* the segmentation named and the one used
     promise |-> TRUE,                           \* what the segmentation's own check said
     collides |-> FALSE,                         \* any two fragments share an identifier
     repeats |-> FALSE,                          \* any two fragments share their text
     covered |-> TRUE]                           \* coverage was checked against the index

But(wrong) == [f \in DOMAIN HealthyWorld |-> IF f \in DOMAIN wrong THEN wrong[f] ELSE HealthyWorld[f]]

World == {But(wrong) : wrong \in Faults}

Layer == {"ok", "retrieval", "generation", "not_applicable"}

Assumptions ==
    /\ \A w \in World : {w.dense, w.other, w.external, w.retrievalOnly} \subseteq BOOLEAN
    /\ \A r \in Reply : r.layer \in Layer /\ {r.answerable, r.refused} \subseteq BOOLEAN
    /\ None \notin {0, 1, "dense", "sparse", "graph", "stub", "model"}
    /\ MinMerge \in Nat /\ MaxQuestions \in Nat

-----------------------------------------------------------------------------
(* A question answered in the world.                                       *)

HasHalves == world.pipeline \in {"hybrid_rrf", "hybrid_weighted", "graph"} /\ ~world.external
OverGraph == world.pipeline = "graph"

\* The half that is merged with the dense one.
OtherHalf == IF OverGraph THEN "graph" ELSE "sparse"
Halves == {"dense", OtherHalf}
InHalf(h) == IF h = "dense" THEN world.dense ELSE world.other

\* The halves whose own list, recorded before the merge, is not empty.  The dense half returns the
\* nearest of what it holds; the other one returns what shares a word, or a node, with the question.
Heard(halves) ==
    IF ~HasHalves THEN halves = {}
    ELSE (\A h \in halves : InHalf(h)) /\ (world.dense => "dense" \in halves)

\* The contexts that come of it.
Possible(c, halves) ==
    /\ c.both > 0 => halves = Halves
    /\ c.denseOnly > 0 => world.dense
    /\ c.otherOnly > 0 => OtherHalf \in halves
    /\ c.both + c.denseOnly + c.otherOnly = 0 => halves = {} /\ (world.external \/ ~world.dense)

\* The refusal score: to refuse is right of a question that cannot be answered, and of no other.
\* A run without a generator has no answers to score.
Refusal(reply) ==
    IF world.retrievalOnly THEN None ELSE IF reply.refused = reply.answerable THEN 0 ELSE 1

\* One answer: the verdict of the funnel, which is about questions with sources of their own, and
\* the recall of those.  A question about the whole corpus can be answered and has no recall.
Answer(c, halves, reply) ==
    /\ stored = None /\ Len(questions) < MaxQuestions /\ Heard(halves) /\ Possible(c, halves)
    /\ reply.layer = "generation" => ~world.retrievalOnly
    /\ ~reply.answerable => reply.layer = "not_applicable"
    /\ questions' = Append(questions,
          [context |-> c, layer |-> reply.layer, halves |-> halves,
           answerable |-> reply.answerable, refusal |-> Refusal(reply),
           refused |-> world.retrievalOnly \/ reply.refused,
           recall |-> CASE reply.layer = "not_applicable" -> None
                        [] reply.layer = "retrieval" -> 0 [] OTHER -> 1])
    /\ UNCHANGED <<world, config, earlier, stored, findings>>

Number(p(_)) == Cardinality({i \in DOMAIN questions : p(questions[i])})
Found == Number(LAMBDA q : q.recall = 1)
Scored == Number(LAMBDA q : q.recall # None)

\* The run ends: its mean recall is stored as a fraction, with its questions.
Store ==
    /\ stored = None /\ questions # <<>>
    /\ stored' = [found |-> Found, scored |-> Scored, size |-> Len(questions)]
    /\ UNCHANGED <<world, config, earlier, questions, findings>>

\* A question does not come back from the store.
Lose(i) ==
    /\ stored # None /\ findings = None /\ stored.size = Len(questions)
    /\ questions' = RemoveAt(questions, i)
    /\ UNCHANGED <<world, config, earlier, stored, findings>>

-----------------------------------------------------------------------------
(* The detectors.                                                          *)

Total(f(_)) == FoldLeft(LAMBDA s, q : s + f(q.context), 0, questions)
Both == Total(LAMBDA c : c.both)
DenseOnly == Total(LAMBDA c : c.denseOnly)
OtherOnly == Total(LAMBDA c : c.otherOnly)
Refs == Both + DenseOnly + OtherOnly
Finding(id, severity) == {[id |-> id, severity |-> severity]}

\* The fragments by the scores they carry: a dense one, a lexical one or both.  A merge with the
\* graph keeps the graph's copy of a fragment, with neither; the other pipelines keep no scores.
DenseScored == IF ~HasHalves \/ world.floor THEN 0 ELSE DenseOnly
BothScored == IF ~HasHalves \/ world.floor \/ OverGraph THEN 0 ELSE Both
SparseScored ==
    IF ~HasHalves \/ OverGraph THEN 0 ELSE OtherOnly + IF world.floor THEN Both ELSE 0
DenseAlive == DenseScored + BothScored
ScoredRefs == DenseScored + BothScored + SparseScored

StubEmbedder ==
    IF world.record = "stub" THEN Finding("stub_embedder", "error")
    ELSE IF Refs = 0 \/ world.record = "model" THEN {}
    ELSE IF ScoredRefs = 0 THEN Finding("embedder_unverified", "info")
    ELSE IF DenseAlive * 10 < Refs THEN Finding("stub_embedder", "error") ELSE {}

\* The answers that recorded their halves, and the halves that are in none of them.
Recorded == {i \in DOMAIN questions : questions[i].halves # {}}
Silent == {h \in Halves : \A i \in Recorded : h \notin questions[i].halves}

\* The half of a merging pipeline that returned nothing on any of three questions or more.
EmptyHalf ==
    IF ~HasHalves \/ Cardinality(Recorded) < 3 \/ Silent = {} THEN None
    ELSE CHOOSE h \in Silent : TRUE

HalfReturnedNothing ==
    IF EmptyHalf = None THEN {} ELSE Finding("half_returned_nothing", "error")

Duplicates == IF world.repeats /\ Refs > 1 THEN Finding("duplicates", "warn") ELSE {}

\* More than four fifths of the scored fragments carry the score of one half alone.
Dominance ==
    LET share == ScoredRefs * 4 IN
    IF ScoredRefs < MinMerge \/ (SparseScored * 5 <= share /\ DenseScored * 5 <= share) THEN {}
    ELSE Finding("bm25_dominance", "info")

EmptyAnswers ==
    LET bad == Number(LAMBDA q : q.refused) IN
    IF questions = <<>> \/ bad * 10 < Len(questions) * 3 THEN {}
    ELSE Finding("empty_answers", IF bad * 2 >= Len(questions) THEN "error" ELSE "warn")

IncorrectRefusals ==
    LET scored == Number(LAMBDA q : q.refusal # None)
        wrong == Number(LAMBDA q : q.refusal = 0)
    IN  IF scored = 0 \/ wrong * 5 < scored THEN {}
        ELSE Finding("incorrect_refusals", IF wrong * 5 >= scored * 2 THEN "error" ELSE "warn")

LayerBottleneck ==
    LET total == Number(LAMBDA q : q.layer # "not_applicable")
        worst == Max({Number(LAMBDA q : q.layer = l) : l \in {"retrieval", "generation"}})
    IN  IF worst = 0 \/ worst * 5 < total THEN {}
        ELSE Finding("layer_bottleneck", IF worst * 5 >= total * 2 THEN "error" ELSE "warn")

UnverifiedCoverage == IF world.covered THEN {} ELSE Finding("unverified_coverage", "warn")

\* The mean of the questions that came back against the one stored with the run.
AggregateDisagrees ==
    IF questions = <<>> \/ stored.scored = 0
        \/ (Scored > 0 /\ Found * stored.scored = stored.found * Scored) THEN {}
    ELSE Finding("aggregate_disagrees", "error")

ChunkIdCollision ==
    IF world.collides /\ Refs > 1 THEN Finding("chunk_id_collision", "error") ELSE {}

\* The load record names the indexing model; without one the index itself may.
ModelsDiffer ==
    IF world.external \/ world.asking = world.indexing THEN {}
    ELSE Finding("index_and_query_models_differ", "error")

BrokenPromise ==
    IF world.record = None \/ world.promise THEN {}
    ELSE Finding("segmentation_broke_its_promise", "error")

SegmentationsDiffer ==
    IF world.external \/ world.named = world.cut THEN {}
    ELSE Finding("named_and_indexed_segmentation_differ", "error")

\* _tuning_provenance counts the configurations of the runs before this one.
ConfigurationsBefore == Cardinality(earlier)
ConstantsTried == {c.rrf_k : c \in {d \in earlier \cup {config} : d.merge = "rrf"}}

TunedOnTheSet ==
    IF ConfigurationsBefore < 1 THEN {}
    ELSE Finding("tuned_on_the_measurement_set", IF ConfigurationsBefore >= 4 THEN "warn" ELSE "info")

ConstantNeverVaried ==
    IF config.merge # "rrf" \/ Cardinality(ConstantsTried) # 1 THEN {}
    ELSE Finding("fusion_constant_never_varied", "info")

AnswersOfAnyRun ==
    (IF EmptyHalf = "dense" THEN {} ELSE StubEmbedder) \cup HalfReturnedNothing \cup EmptyAnswers

\* run_detectors: the stub check stands aside for an empty dense half, the refusals of a run
\* without a generator are not counted, an external RAG has no merge to dominate.
RunDetectors ==
    (IF EmptyHalf = "dense" THEN {} ELSE StubEmbedder)
    \cup Duplicates \cup (IF world.external THEN {} ELSE Dominance)
    \cup (IF world.retrievalOnly THEN {} ELSE EmptyAnswers)
    \cup IncorrectRefusals \cup LayerBottleneck \cup UnverifiedCoverage \cup HalfReturnedNothing
    \cup AggregateDisagrees \cup ChunkIdCollision \cup ModelsDiffer \cup BrokenPromise
    \cup SegmentationsDiffer \cup TunedOnTheSet \cup ConstantNeverVaried

Open ==
    /\ stored # None /\ findings = None /\ findings' = RunDetectors
    /\ UNCHANGED <<world, config, earlier, questions, stored>>

-----------------------------------------------------------------------------
Init ==
    /\ world \in World /\ config \in Config /\ earlier \in SUBSET Config
    /\ questions = <<>> /\ stored = None /\ findings = None

Next ==
    \/ \E c \in Context, halves \in SUBSET Halves, reply \in Reply : Answer(c, halves, reply)
    \/ Store
    \/ \E i \in DOMAIN questions : Lose(i)
    \/ Open
    \/ findings # None /\ UNCHANGED vars

Spec == Init /\ [][Next]_vars

-----------------------------------------------------------------------------
Severity == {"error", "warn", "info"}

TypeOK ==
    /\ world \in World /\ config \in Config /\ earlier \subseteq Config
    /\ Len(questions) <= MaxQuestions
    /\ \A i \in DOMAIN questions : questions[i].halves \subseteq Halves
    /\ findings # None => \A f \in findings : f.severity \in Severity

Said(id) == findings # None /\ \E f \in findings : f.id = id
Errors == {f \in findings : f.severity = "error"}

\* Whatever the pipeline, nothing is wrong.
Healthy == [world EXCEPT !.pipeline = HealthyWorld.pipeline] = HealthyWorld

\* What can be answered was answered, and what cannot be was refused.
AnsweredWell ==
    \A i \in DOMAIN questions :
        questions[i].layer \in {"ok", "not_applicable"} /\ questions[i].refused # questions[i].answerable

\* A run in a healthy world, answered well and whole from the store, shows two errors at most, and
\* each for its questions: half of them could not be answered (detectors.py:385 counts refusals,
\* right or not), or the other half had nothing to say to any of them (detectors.py:294).
HealthyRunIsQuiet ==
    (findings # None /\ Healthy /\ stored.size = Len(questions) /\ AnsweredWell) =>
        \A f \in Errors :
            \/ f.id = "empty_answers" /\ Number(LAMBDA q : ~q.answerable) * 2 >= Len(questions)
            \/ f.id = "half_returned_nothing"
                /\ \A i \in DOMAIN questions : OtherHalf \notin questions[i].halves

\* detectors.py:1112: of an empty dense half the run page says that, and never that the
\* corpus was embedded by a stub.
OneVoicePerFault == Said("half_returned_nothing") /\ ~world.dense => ~Said("stub_embedder")

\* A half that holds nothing is named once three questions were answered from the other, and a
\* load record that says stub is repeated unless that half speaks.
PlantedFaultsSpeak ==
    findings # None =>
        /\ HasHalves /\ world.dense # world.other /\ Number(LAMBDA q : q.halves # {}) >= 3
             => Said("half_returned_nothing")
        /\ world.record = "stub" => Said("stub_embedder") \/ Said("half_returned_nothing")
        /\ world.retrievalOnly => ~Said("empty_answers") /\ ~Said("incorrect_refusals")

\* Of a run in which some sources were found and some were not, a question with a recall that does
\* not come back is heard of; and the means are called apart of no run that came back whole.
LostQuestionIsHeard ==
    findings # None =>
        /\ Scored # stored.scored /\ stored.found \notin {0, stored.scored}
             => Said("aggregate_disagrees")
        /\ Said("aggregate_disagrees") => Len(questions) < stored.size

-----------------------------------------------------------------------------
(* What the code, its tests or its documents say and the code does not keep (README). *)

\* detectors.py:1117: "the embedder cannot be judged from a half that answered nothing, so the
\* stub check stands aside": only a corpus indexed by a stub is called one.
StubBlamedOnlyForAStub == Said("stub_embedder") => world.embedder = "stub"

\* detectors.py:385: "a high refusal rate is sometimes the CORRECT behavior": and no error then.
RightRefusalsAreNoError ==
    findings # None /\ AnsweredWell /\ stored.size = Len(questions)
        => [id |-> "empty_answers", severity |-> "error"] \notin findings

\* detectors.py:280: "a half that finds nothing for some questions is a half that found nothing
\* relevant", and so is one that finds nothing for three: the half named holds no corpus.
SilentHalfHoldsNothing == Said("half_returned_nothing") => ~world.dense \/ ~world.other

\* detectors.py:316: "One half of a hybrid retriever supplies almost the whole context": of a
\* merge with the graph only the dense scores are read, whatever the graph supplied.
DominanceIsOfTheContext ==
    Said("bm25_dominance") => DenseOnly * 5 > Refs * 4 \/ OtherOnly * 5 > Refs * 4

\* detectors.py:804: "other configuration(s) were run ... before this one": others, not this one.
OthersAreOthers == Said("tuned_on_the_measurement_set") => earlier \ {config} # {}
=============================================================================
