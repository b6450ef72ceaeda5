----------------------------- MODULE ReviewProofs -----------------------------
(***************************************************************************)
(* Proofs about what becomes of an answered run: what the run page says of *)
(* it, for any worlds, contexts, configurations and number of questions,   *)
(* and what becomes of what a reviewer rules, for any number of reviewers, *)
(* chunks, traces and requests.                                            *)
(***************************************************************************)
EXTENDS MCReview, ListFacts

----------------------------------------------------------------------------
(* The detectors of the run page *)

Answers == [context : Contexts, layer : Detectors!Layer, halves : SUBSET {"dense", "sparse", "graph"},
            answerable : BOOLEAN, refusal : {Nil, 0, 1}, refused : BOOLEAN, recall : {Nil, 0, 1}]

\* What the world makes of an answer.
IsOfTheWorld(q) ==
    /\ q.halves \subseteq Detectors!Halves /\ Detectors!Heard(q.halves)
    /\ (world.retrievalOnly => q.refusal = Nil)
    /\ ~world.retrievalOnly => q.refusal = IF q.refused = q.answerable THEN 0 ELSE 1

\* What a lost question takes from the two counts the mean is made of.
HasLost(recall) ==
    /\ stored.found = Detectors!Found + IF recall = 1 THEN 1 ELSE 0
    /\ stored.scored = Detectors!Scored + IF recall = Nil THEN 0 ELSE 1

\* A run has the mean it was stored with, but for the question it lost.
StoredMean ==
    IF stored.size = Len(answered)
    THEN stored.found = Detectors!Found /\ stored.scored = Detectors!Scored
    ELSE Len(answered) < stored.size /\ \E recall \in {Nil, 0, 1} : HasLost(recall)

\* The answers are of one world, and the mean is theirs.
RunInv ==
    /\ world \in Detectors!World
    /\ answered \in Seq(Answers)
    /\ \A i \in DOMAIN answered : IsOfTheWorld(answered[i])
    /\ stored # Nil => StoredMean
    /\ findings # Nil => stored # Nil

\* What is right to say of the run as it came back.
Verdicts == Detectors!HealthyRunIsQuiet /\ Detectors!OneVoicePerFault
            /\ Detectors!PlantedFaultsSpeak /\ Detectors!LostQuestionIsHeard

DetectorsInv == RunInv /\ Verdicts

LEMMA RunStarts == Detectors!Init => RunInv
BY DEF Detectors!Init, RunInv

LEMMA NothingIsSaid == (findings = Nil => Verdicts) /\ (findings' = Nil => Verdicts')
BY DEF Verdicts, Detectors!HealthyRunIsQuiet, Detectors!OneVoicePerFault,
   Detectors!PlantedFaultsSpeak, Detectors!LostQuestionIsHeard, Detectors!Said

LEMMA QuestionIsAnswered ==
    ASSUME RunInv, NEW c \in Contexts, NEW halves \in SUBSET Detectors!Halves,
           NEW reply \in Outcomes, Detectors!Answer(c, halves, reply)
    PROVE  RunInv'
<1>1. PICK q : q = [context |-> c, layer |-> reply.layer, halves |-> halves,
           answerable |-> reply.answerable, refusal |-> Detectors!Refusal(reply),
           refused |-> world.retrievalOnly \/ reply.refused,
           recall |-> CASE reply.layer = "not_applicable" -> Nil
                        [] reply.layer = "retrieval" -> 0 [] OTHER -> 1]
  OBVIOUS
<1>2. /\ answered' = Append(answered, q) /\ UNCHANGED <<world, stored, findings>> /\ stored = Nil
      /\ Detectors!Heard(halves)
  BY <1>1 DEF Detectors!Answer
<1>3. /\ reply.layer \in Detectors!Layer /\ reply.answerable \in BOOLEAN
      /\ reply.refused \in BOOLEAN /\ world.retrievalOnly \in BOOLEAN
  BY DetectorsAssumption DEF Detectors!Assumptions, RunInv
<1>4. q.recall \in {Nil, 0, 1} /\ q.refusal \in {Nil, 0, 1} /\ q.refused \in BOOLEAN
  BY <1>1, <1>3 DEF Detectors!Refusal
<1>5. q \in Answers
  <2>1. halves \in SUBSET {"dense", "sparse", "graph"}
    BY DEF Detectors!Halves, Detectors!OtherHalf
  <2>2. QED
    BY <1>1, <1>3, <1>4, <2>1 DEF Answers
<1>6. IsOfTheWorld(q)
  BY <1>1, <1>2, <1>3 DEF IsOfTheWorld, Detectors!Refusal
<1>7. answered' \in Seq(Answers) /\ \A i \in DOMAIN answered' : IsOfTheWorld(answered'[i])
  BY <1>2, <1>5, <1>6 DEF RunInv
<1>8. \A i \in DOMAIN answered' : IsOfTheWorld(answered[i])'
  BY <1>2, <1>7 DEF IsOfTheWorld, Detectors!Heard, Detectors!HasHalves,
     Detectors!InHalf, Detectors!Halves, Detectors!OtherHalf, Detectors!OverGraph
<1>9. QED
  BY <1>2, <1>7, <1>8 DEF RunInv

LEMMA RunIsKept == ASSUME RunInv, Detectors!Store PROVE RunInv'
<1>1. stored' = [found |-> Detectors!Found, scored |-> Detectors!Scored, size |-> Len(answered)]
      /\ UNCHANGED <<world, answered, findings>> /\ stored = Nil
  BY DEF Detectors!Store
<1>2. Detectors!Found' = Detectors!Found /\ Detectors!Scored' = Detectors!Scored
  BY <1>1 DEF Detectors!Found, Detectors!Scored, Detectors!Number
<1>3. \A i \in DOMAIN answered' : IsOfTheWorld(answered[i])'
  BY <1>1 DEF RunInv, IsOfTheWorld, Detectors!Heard, Detectors!HasHalves,
     Detectors!InHalf, Detectors!Halves, Detectors!OtherHalf, Detectors!OverGraph
<1>4. StoredMean'
  BY <1>1, <1>2 DEF StoredMean
<1>5. findings' = Nil
  BY <1>1 DEF RunInv
<1>6. QED
  BY <1>1, <1>3, <1>4, <1>5 DEF RunInv

\* The instance counts as the library does.
LEMMA InstanceCounts == ASSUME NEW S PROVE Detectors!Cardinality(S) = Cardinality(S)
  BY DEF Detectors!Cardinality, Cardinality

\* The places of S among n, when the i-th is taken out.
LEMMA OneFewer ==
    ASSUME NEW n \in Nat, NEW i \in 1..n, NEW S \in SUBSET (1..n), NEW T,
           T = {k \in 1..(n - 1) : (IF k < i THEN k ELSE k + 1) \in S}
    PROVE  /\ Cardinality(T) \in Nat
           /\ Cardinality(S) = Cardinality(T) + IF i \in S THEN 1 ELSE 0
<1>1. IsFiniteSet(S)
  <2>1. IsFiniteSet(1..n)
    BY FS_Interval
  <2>2. QED
    BY <2>1, FS_Subset
<1>2. IsFiniteSet(S \ {i})
      /\ Cardinality(S \ {i}) = IF i \in S THEN Cardinality(S) - 1 ELSE Cardinality(S)
  BY <1>1, FS_RemoveElement
<1>3. PICK f : f = [k \in S \ {i} |-> IF k < i THEN k ELSE k - 1]
  OBVIOUS
<1>4. \A k \in S \ {i} : f[k] \in T
  BY <1>3
<1>5. \A k, l \in S \ {i} : f[k] = f[l] => k = l
  BY <1>3
<1>6. \A t \in T : \E k \in S \ {i} : f[k] = t
  <2> SUFFICES ASSUME NEW t \in T PROVE \E k \in S \ {i} : f[k] = t
    OBVIOUS
  <2>1. PICK k : k = IF t < i THEN t ELSE t + 1
    OBVIOUS
  <2>2. k \in S \ {i} /\ f[k] = t
    BY <1>3, <2>1
  <2>3. QED
    BY <2>2
<1>7. f \in Bijection(S \ {i}, T)
  <2>1. f \in [S \ {i} -> T]
    BY <1>3, <1>4
  <2>2. QED
    BY <1>5, <1>6, <2>1, Zenon DEF Bijection, Injection, Surjection, IsInjective
<1>8. Cardinality(T) = Cardinality(S \ {i})
  BY <1>2, <1>7, FS_Bijection DEF ExistsBijection
<1>9. Cardinality(S) \in Nat /\ Cardinality(S \ {i}) \in Nat
  BY <1>1, <1>2, FS_CardinalityType
<1>10. QED
  BY <1>2, <1>8, <1>9

LEMMA QuestionIsLost ==
    ASSUME RunInv, NEW i \in DOMAIN answered, Detectors!Lose(i) PROVE RunInv'
<1>1. answered' = Detectors!RemoveAt(answered, i) /\ UNCHANGED <<world, stored, findings>>
      /\ findings = Nil /\ stored.size = Len(answered)
  BY DEF Detectors!Lose
<1>2. Len(answered) - 1 \in Nat
  BY DEF RunInv
<1>3. /\ answered' \in Seq(Answers) /\ Len(answered') = Len(answered) - 1
      /\ \A k \in 1..(Len(answered) - 1) :
            answered'[k] = IF k < i THEN answered[k] ELSE answered[k + 1]
  <2>1. answered \in Seq(Answers) /\ i \in 1..Len(answered)
    BY DEF RunInv
  <2>2. answered' = SubSeq(answered, 1, i - 1) \o SubSeq(answered, i + 1, Len(answered))
    BY <1>1 DEF Detectors!RemoveAt
  <2>3. PICK a, b : a = SubSeq(answered, 1, i - 1) /\ b = SubSeq(answered, i + 1, Len(answered))
    OBVIOUS
  <2>4. a \in Seq(Answers) /\ Len(a) = i - 1 /\ \A k \in 1..(i - 1) : a[k] = answered[k]
    BY <2>1, <2>3
  <2>5. b \in Seq(Answers) /\ Len(b) = Len(answered) - i
        /\ \A k \in 1..(Len(answered) - i) : b[k] = answered[i + k]
    BY <2>1, <2>3
  <2>6. a \o b \in Seq(Answers) /\ Len(a \o b) = Len(answered) - 1
    BY <2>1, <2>4, <2>5
  <2>7. \A k \in 1..(Len(answered) - 1) :
          (a \o b)[k] = IF k < i THEN answered[k] ELSE answered[k + 1]
    BY <2>1, <2>4, <2>5
  <2>8. QED
    BY <2>2, <2>3, <2>6, <2>7
<1>4. \A k \in 1..(Len(answered) - 1) :
        \E l \in DOMAIN answered : answered'[k] = answered[l]
  BY <1>2, <1>3, SMTT(40) DEF RunInv
<1>5. \A k \in DOMAIN answered' : IsOfTheWorld(answered'[k])
  BY <1>3, <1>4 DEF RunInv
<1>6. \A k \in DOMAIN answered' : IsOfTheWorld(answered[k])'
  BY <1>1, <1>5 DEF IsOfTheWorld, Detectors!Heard, Detectors!HasHalves,
     Detectors!InHalf, Detectors!Halves, Detectors!OtherHalf, Detectors!OverGraph
<1>7. PICK recall : recall = answered[i].recall
  OBVIOUS
<1>8. Detectors!Found = Detectors!Found' + IF recall = 1 THEN 1 ELSE 0
  <2>1. PICK S, T : /\ S = {k \in DOMAIN answered : answered[k].recall = 1}
                    /\ T = {k \in DOMAIN answered' : answered'[k].recall = 1}
    OBVIOUS
  <2>2. T = {k \in 1..(Len(answered) - 1) : (IF k < i THEN k ELSE k + 1) \in S}
    BY <1>2, <1>3, <2>1 DEF RunInv
  <2>3. Len(answered) \in Nat /\ i \in 1..Len(answered) /\ S \in SUBSET (1..Len(answered))
    BY <2>1 DEF RunInv
  <2>4. Cardinality(S) = Cardinality(T) + IF i \in S THEN 1 ELSE 0
    BY <2>2, <2>3, OneFewer
  <2>5. Detectors!Found = Cardinality(S) /\ Detectors!Found' = Cardinality(T)
    BY <2>1, InstanceCounts DEF Detectors!Found, Detectors!Number
  <2>6. i \in S <=> recall = 1
    BY <1>7, <2>1
  <2>7. QED
    BY <2>4, <2>5, <2>6
<1>9. Detectors!Scored = Detectors!Scored' + IF recall = Nil THEN 0 ELSE 1
  <2>1. PICK S, T : /\ S = {k \in DOMAIN answered : answered[k].recall # Nil}
                    /\ T = {k \in DOMAIN answered' : answered'[k].recall # Nil}
    OBVIOUS
  <2>2. T = {k \in 1..(Len(answered) - 1) : (IF k < i THEN k ELSE k + 1) \in S}
    BY <1>2, <1>3, <2>1 DEF RunInv
  <2>3. Len(answered) \in Nat /\ i \in 1..Len(answered) /\ S \in SUBSET (1..Len(answered))
    BY <2>1 DEF RunInv
  <2>4. Cardinality(S) = Cardinality(T) + IF i \in S THEN 1 ELSE 0
    BY <2>2, <2>3, OneFewer
  <2>5. Detectors!Scored = Cardinality(S) /\ Detectors!Scored' = Cardinality(T)
    BY <2>1, InstanceCounts DEF Detectors!Scored, Detectors!Number
  <2>6. i \in S <=> recall # Nil
    BY <1>7, <2>1
  <2>7. QED
    BY <2>4, <2>5, <2>6
<1>10. recall \in {Nil, 0, 1} /\ HasLost(recall)'
  <2>1. recall \in {Nil, 0, 1}
    <3>1. answered[i] \in Answers
      BY DEF RunInv
    <3>2. QED
      BY <1>7, <3>1 DEF Answers
  <2>2. stored # Nil
    BY DEF Detectors!Lose
  <2>3. stored.found = Detectors!Found /\ stored.scored = Detectors!Scored
    BY <1>1, <2>2 DEF RunInv, StoredMean
  <2>4. QED
    BY <1>1, <1>8, <1>9, <2>1, <2>3 DEF HasLost
<1>11. StoredMean'
  BY <1>1, <1>2, <1>3, <1>10 DEF StoredMean
<1>12. QED
  BY <1>1, <1>3, <1>6, <1>11 DEF RunInv

\* The answers counted by p are as many as they are, and none of an empty set.
LEMMA NumberIsANumber ==
    ASSUME RunInv, NEW some \in SUBSET DOMAIN answered
    PROVE  Cardinality(some) \in Nat /\ (Cardinality(some) = 0 <=> some = {})
<1>1. IsFiniteSet(DOMAIN answered)
  <2>1. DOMAIN answered = 1..Len(answered) /\ Len(answered) \in Nat
    BY DEF RunInv
  <2>2. QED
    BY <2>1, FS_Interval
<1>2. IsFiniteSet(some)
  BY <1>1, FS_Subset
<1>3. QED
  BY <1>2, FS_CardinalityType, FS_EmptySet

\* A detector says one thing, under its own name.
LEMMA DetectorsKeepToTheirNames ==
    /\ \A f \in Detectors!StubEmbedder : f.id \in {"stub_embedder", "embedder_unverified"}
    /\ \A f \in Detectors!HalfReturnedNothing : f.id = "half_returned_nothing"
    /\ \A f \in Detectors!EmptyAnswers : f.id = "empty_answers"
    /\ \A f \in Detectors!IncorrectRefusals : f.id = "incorrect_refusals"
    /\ \A f \in Detectors!Duplicates \cup Detectors!Dominance \cup Detectors!LayerBottleneck
            \cup Detectors!UnverifiedCoverage \cup Detectors!ChunkIdCollision \cup Detectors!ModelsDiffer
            \cup Detectors!BrokenPromise \cup Detectors!SegmentationsDiffer
            \cup Detectors!TunedOnTheSet \cup Detectors!ConstantNeverVaried :
          f.id \notin {"stub_embedder", "embedder_unverified", "half_returned_nothing",
                      "empty_answers", "incorrect_refusals", "aggregate_disagrees"}
    /\ \A f \in Detectors!AggregateDisagrees : f.id = "aggregate_disagrees"
<1> USE DEF Detectors!Finding
<1>1. /\ \A f \in Detectors!StubEmbedder : f.id \in {"stub_embedder", "embedder_unverified"}
      /\ \A f \in Detectors!HalfReturnedNothing : f.id = "half_returned_nothing"
  BY DEF Detectors!StubEmbedder, Detectors!HalfReturnedNothing
<1>2. \A f \in Detectors!EmptyAnswers : f.id = "empty_answers"
  BY DEF Detectors!EmptyAnswers
<1>3. \A f \in Detectors!IncorrectRefusals : f.id = "incorrect_refusals"
  BY DEF Detectors!IncorrectRefusals
<1>4. \A f \in Detectors!Duplicates : f.id = "duplicates"
  BY DEF Detectors!Duplicates
<1>5. \A f \in Detectors!Dominance : f.id = "bm25_dominance"
  BY DEF Detectors!Dominance
<1>6. \A f \in Detectors!LayerBottleneck : f.id = "layer_bottleneck"
  BY DEF Detectors!LayerBottleneck
<1>7. \A f \in Detectors!UnverifiedCoverage : f.id = "unverified_coverage"
  BY DEF Detectors!UnverifiedCoverage
<1>8. \A f \in Detectors!AggregateDisagrees : f.id = "aggregate_disagrees"
  BY DEF Detectors!AggregateDisagrees
<1>9. \A f \in Detectors!ChunkIdCollision : f.id = "chunk_id_collision"
  BY DEF Detectors!ChunkIdCollision
<1>10. \A f \in Detectors!ModelsDiffer : f.id = "index_and_query_models_differ"
  BY DEF Detectors!ModelsDiffer
<1>11. \A f \in Detectors!BrokenPromise : f.id = "segmentation_broke_its_promise"
  BY DEF Detectors!BrokenPromise
<1>12. \A f \in Detectors!SegmentationsDiffer : f.id = "named_and_indexed_segmentation_differ"
  BY DEF Detectors!SegmentationsDiffer
<1>13. \A f \in Detectors!TunedOnTheSet :
         f.id = "tuned_on_the_measurement_set" /\ f.severity # "error"
  BY DEF Detectors!TunedOnTheSet
<1>14. \A f \in Detectors!ConstantNeverVaried : f.id = "fusion_constant_never_varied"
  BY DEF Detectors!ConstantNeverVaried
<1> HIDE DEF Detectors!Finding
<1>15. QED
  BY <1>1, <1>2, <1>3, <1>4, <1>5, <1>6, <1>7, <1>8, <1>9, <1>10, <1>11, <1>12, <1>13, <1>14

\* Which half is named: one that is in none of the three answers or more that have halves.
LEMMA EmptyHalfIsSilent ==
    ASSUME RunInv
    PROVE  /\ Detectors!EmptyHalf = Nil \/ Detectors!EmptyHalf \in Detectors!Halves
           /\ Detectors!EmptyHalf # Nil =>
                 /\ Detectors!HasHalves /\ Detectors!EmptyHalf \in Detectors!Silent
                 /\ \E i \in DOMAIN answered : answered[i].halves # {}
           /\ Detectors!HasHalves /\ world.dense # world.other
              /\ Detectors!Number(LAMBDA q : q.halves # {}) >= 3 => Detectors!EmptyHalf # Nil
<1>1. Cardinality(Detectors!Recorded) \in Nat
      /\ (Cardinality(Detectors!Recorded) = 0 <=> Detectors!Recorded = {})
  BY NumberIsANumber DEF Detectors!Recorded
<1>2. Detectors!Silent \subseteq Detectors!Halves /\ Nil \notin Detectors!Halves
  BY DetectorsAssumption DEF Detectors!Assumptions, Detectors!Halves, Detectors!OtherHalf,
     Detectors!Silent
<1>3. PICK one : one = CHOOSE h \in Detectors!Silent : TRUE
  OBVIOUS
<1>4. Detectors!Silent # {} => one \in Detectors!Silent
  BY <1>3
<1>5. Detectors!EmptyHalf =
        IF ~Detectors!HasHalves \/ Cardinality(Detectors!Recorded) < 3 \/ Detectors!Silent = {}
        THEN Nil ELSE one
  BY <1>3, InstanceCounts DEF Detectors!EmptyHalf
<1>6. Detectors!HasHalves =>
        \A i \in DOMAIN answered : \A h \in answered[i].halves : Detectors!InHalf(h)
  BY DEF RunInv, IsOfTheWorld, Detectors!Heard
<1>7. Detectors!Number(LAMBDA q : q.halves # {}) = Cardinality(Detectors!Recorded)
  BY InstanceCounts DEF Detectors!Number, Detectors!Recorded
<1>8. Detectors!EmptyHalf = Nil \/ Detectors!EmptyHalf \in Detectors!Halves
  BY <1>2, <1>4, <1>5
<1>9. ASSUME Detectors!EmptyHalf # Nil
      PROVE  /\ Detectors!HasHalves /\ Detectors!EmptyHalf \in Detectors!Silent
             /\ \E i \in DOMAIN answered : answered[i].halves # {}
  <2>1. Detectors!HasHalves /\ Detectors!Recorded # {} /\ Detectors!EmptyHalf \in Detectors!Silent
    BY <1>1, <1>4, <1>5, <1>9
  <2>2. QED
    BY <2>1 DEF Detectors!Recorded
<1>10. ASSUME Detectors!HasHalves, world.dense # world.other,
              Cardinality(Detectors!Recorded) >= 3
       PROVE  Detectors!EmptyHalf # Nil
  <2>1. world.dense \in BOOLEAN /\ world.other \in BOOLEAN
    BY DetectorsAssumption DEF RunInv, Detectors!Assumptions
  <2>2. Detectors!OtherHalf # "dense"
    BY DEF Detectors!OtherHalf
  <2>3. \E h \in Detectors!Halves : ~Detectors!InHalf(h)
    BY <1>10, <2>1, <2>2 DEF Detectors!Halves, Detectors!InHalf
  <2>4. Detectors!Silent # {}
    BY <1>6, <1>10, <2>3 DEF Detectors!Silent, Detectors!Recorded
  <2>5. ~(Cardinality(Detectors!Recorded) < 3)
    BY <1>1, <1>10
  <2>6. Detectors!EmptyHalf = one
    BY <1>5, <1>10, <2>4, <2>5
  <2>7. QED
    BY <1>2, <1>4, <2>4, <2>6
<1>11. QED
  BY <1>7, <1>8, <1>9, <1>10

\* The page opened now says this.
Says(id) == \E f \in Detectors!RunDetectors : f.id = id

\* Of an empty dense half the page says that, and the stub check stands aside.
LEMMA OneVoice ==
    ASSUME RunInv, ~world.dense, Says("half_returned_nothing") PROVE ~Says("stub_embedder")
<1>1. Detectors!HalfReturnedNothing # {}
  BY DetectorsKeepToTheirNames DEF Detectors!RunDetectors, Says
<1>2. Detectors!EmptyHalf # Nil
  BY <1>1 DEF Detectors!HalfReturnedNothing
<1>3. Detectors!EmptyHalf = "dense"
  <2>1. /\ Detectors!EmptyHalf \in Detectors!Halves /\ Detectors!HasHalves
        /\ Detectors!EmptyHalf \in Detectors!Silent
    BY <1>2, EmptyHalfIsSilent
  <2>2. PICK i \in DOMAIN answered : answered[i].halves # {}
    BY <1>2, EmptyHalfIsSilent
  <2>3. \A h \in answered[i].halves : Detectors!InHalf(h) /\ h # "dense"
    BY <2>1 DEF RunInv, IsOfTheWorld, Detectors!Heard, Detectors!InHalf
  <2>4. Detectors!EmptyHalf \notin answered[i].halves
    BY <2>1, <2>2 DEF Detectors!Silent, Detectors!Recorded
  <2>5. answered[i].halves \subseteq Detectors!Halves
    BY DEF RunInv, IsOfTheWorld
  <2>6. QED
    BY <2>1, <2>2, <2>3, <2>4, <2>5 DEF Detectors!Halves
<1>4. Says("stub_embedder") => Detectors!EmptyHalf # "dense"
  BY DetectorsKeepToTheirNames DEF Detectors!RunDetectors, Says
<1>5. QED
  BY <1>3, <1>4

\* A half that holds nothing is named, and a record that says stub is repeated.
LEMMA PlantedSpeak ==
    ASSUME RunInv
    PROVE  /\ Detectors!HasHalves /\ world.dense # world.other
                /\ Detectors!Number(LAMBDA q : q.halves # {}) >= 3 => Says("half_returned_nothing")
           /\ world.record = "stub" => Says("stub_embedder") \/ Says("half_returned_nothing")
           /\ world.retrievalOnly => ~Says("empty_answers") /\ ~Says("incorrect_refusals")
<1>2. ASSUME Detectors!EmptyHalf # Nil PROVE Says("half_returned_nothing")
  <2>1. Detectors!HalfReturnedNothing = Detectors!Finding("half_returned_nothing", "error")
    BY <1>2 DEF Detectors!HalfReturnedNothing
  <2>2. PICK f \in Detectors!HalfReturnedNothing : f.id = "half_returned_nothing"
    BY <2>1 DEF Detectors!Finding
  <2>3. QED
    BY <2>2 DEF Says, Detectors!RunDetectors
<1>3. ASSUME world.record = "stub"
      PROVE  Says("stub_embedder") \/ Says("half_returned_nothing")
  <2>1. CASE Detectors!EmptyHalf = "dense"
    <3>1. Nil # "dense"
      BY DetectorsAssumption DEF Detectors!Assumptions
    <3>2. QED
      BY <1>2, <2>1, <3>1
  <2>2. CASE Detectors!EmptyHalf # "dense"
    <3>1. Detectors!StubEmbedder = Detectors!Finding("stub_embedder", "error")
      BY <1>3 DEF Detectors!StubEmbedder
    <3>2. PICK f \in Detectors!StubEmbedder : f.id = "stub_embedder"
      BY <3>1 DEF Detectors!Finding
    <3>3. QED
      BY <2>2, <3>2 DEF Says, Detectors!RunDetectors
  <2>3. QED
    BY <2>1, <2>2
<1>4. ASSUME world.retrievalOnly
      PROVE  ~Says("empty_answers") /\ ~Says("incorrect_refusals")
  <2>1. Detectors!Number(LAMBDA q : q.refusal # Nil) = 0
    <3>1. {i \in DOMAIN answered : answered[i].refusal # Nil} = {}
      BY <1>4 DEF RunInv, IsOfTheWorld
    <3>2. QED
      BY <3>1, InstanceCounts, FS_EmptySet DEF Detectors!Number
  <2>2. Detectors!IncorrectRefusals = {}
    BY <2>1 DEF Detectors!IncorrectRefusals
  <2>3. \A f \in Detectors!RunDetectors : f.id \notin {"empty_answers", "incorrect_refusals"}
    BY <1>4, <2>2, DetectorsKeepToTheirNames DEF Detectors!RunDetectors
  <2>4. QED
    BY <2>3 DEF Says
<1>5. QED
  BY <1>2, <1>3, <1>4, EmptyHalfIsSilent

\* The mean of a run that came back whole is the one it was stored with.
LEMMA WholeRunAgrees ==
    ASSUME RunInv, stored # Nil, stored.size = Len(answered)
    PROVE  Detectors!AggregateDisagrees = {}
<1>1. stored.found = Detectors!Found /\ stored.scored = Detectors!Scored
  BY DEF RunInv, StoredMean
<1>2. Detectors!Scored \in Nat
  BY InstanceCounts, NumberIsANumber DEF Detectors!Scored, Detectors!Number
<1>3. QED
  BY <1>1, <1>2 DEF Detectors!AggregateDisagrees

\* A mean of some found and some missed is another one without any of them.
LEMMA AnyOneMovesTheMean ==
    ASSUME NEW f \in Nat, NEW n \in Nat, f # 0, f # n + 1,
           NEW g \in Nat, f = g \/ f = g + 1
    PROVE  g * (n + 1) # f * n
<1>1. g * (n + 1) = g * n + g
  OBVIOUS
<1>2. CASE f = g
  BY <1>1, <1>2
<1>3. CASE f = g + 1
  <2>1. f * n = g * n + n
    BY <1>3
  <2>2. QED
    BY <1>1, <1>3, <2>1
<1>4. QED
  BY <1>2, <1>3

\* A question with a recall is missed where the run found some and missed some.
LEMMA LossIsHeard ==
    ASSUME RunInv, stored # Nil
    PROVE  /\ Detectors!Scored # stored.scored /\ stored.found \notin {0, stored.scored}
                => Says("aggregate_disagrees")
           /\ Says("aggregate_disagrees") => Len(answered) < stored.size
<1>1. Detectors!Found \in Nat /\ Detectors!Scored \in Nat
  BY InstanceCounts, NumberIsANumber DEF Detectors!Found, Detectors!Scored, Detectors!Number
<1>2. ASSUME Detectors!Scored # stored.scored, stored.found \notin {0, stored.scored}
      PROVE  Says("aggregate_disagrees")
  <2>1. PICK recall \in {Nil, 0, 1} : HasLost(recall)
    BY <1>2 DEF RunInv, StoredMean
  <2>2. stored.scored = Detectors!Scored + 1
        /\ (stored.found = Detectors!Found \/ stored.found = Detectors!Found + 1)
    <3>1. recall # Nil
      BY <1>1, <1>2, <2>1 DEF HasLost
    <3>2. QED
      BY <1>1, <2>1, <3>1 DEF HasLost
  <2>3. Detectors!Found * stored.scored # stored.found * Detectors!Scored
    <3>1. PICK f, n, g : f = stored.found /\ n = Detectors!Scored /\ g = Detectors!Found
      OBVIOUS
    <3>2. g * (n + 1) # f * n
      BY <1>1, <1>2, <2>2, <3>1, AnyOneMovesTheMean
    <3>3. QED
      BY <2>2, <3>1, <3>2
  <2>4. answered # <<>>
    <3>1. SUFFICES ASSUME answered = <<>> PROVE FALSE
      OBVIOUS
    <3>2. Detectors!Scored = 0 /\ Detectors!Found = 0
      <4>1. DOMAIN answered = {}
        BY <3>1
      <4>2. QED
        BY <4>1, InstanceCounts, FS_EmptySet DEF Detectors!Found, Detectors!Scored, Detectors!Number
    <3>3. QED
      BY <1>2, <2>2, <3>2
  <2>5. stored.scored # 0
    BY <1>1, <2>2
  <2>6. PICK f \in Detectors!AggregateDisagrees : f.id = "aggregate_disagrees"
    BY <2>3, <2>4, <2>5 DEF Detectors!AggregateDisagrees, Detectors!Finding
  <2>7. QED
    BY <2>6 DEF Says, Detectors!RunDetectors
<1>3. ASSUME Says("aggregate_disagrees") PROVE Len(answered) < stored.size
  <2>1. Detectors!AggregateDisagrees # {}
    BY <1>3, DetectorsKeepToTheirNames DEF Says, Detectors!RunDetectors
  <2>2. stored.size # Len(answered)
    BY <2>1, WholeRunAgrees
  <2>3. QED
    BY <2>2 DEF RunInv, StoredMean
<1>4. QED
  BY <1>2, <1>3

\* Where nothing is wrong, all was answered well and nothing was lost, each detector is silent or
\* mild, but for the two that count questions of a kind.
LEMMA HealthyIsQuiet ==
    ASSUME RunInv, stored # Nil, Detectors!Healthy, stored.size = Len(answered),
           Detectors!AnsweredWell
    PROVE  \A f \in Detectors!RunDetectors : f.severity = "error" =>
             \/ f.id = "empty_answers"
                /\ Detectors!Number(LAMBDA q : ~q.answerable) * 2 >= Len(answered)
             \/ f.id = "half_returned_nothing"
                /\ \A i \in DOMAIN answered : Detectors!OtherHalf \notin answered[i].halves
<1>2. /\ world.record = "model" /\ world.dense /\ world.other /\ ~world.external
      /\ ~world.retrievalOnly /\ world.asking = world.indexing /\ world.named = world.cut
      /\ world.promise /\ ~world.collides /\ world.covered
  <2>1. PICK wrong \in WhatIsWrong : world = Detectors!But(wrong)
    BY DEF RunInv, Detectors!World
  <2>2. world = [f \in DOMAIN Detectors!HealthyWorld |-> world[f]]
    BY <2>1 DEF Detectors!But
  <2>3. \A f \in DOMAIN Detectors!HealthyWorld : f # "pipeline" => world[f] = Detectors!HealthyWorld[f]
    BY <2>2 DEF Detectors!Healthy
  <2>4. QED
    BY <2>3 DEF Detectors!HealthyWorld
<1>3. \A i \in DOMAIN answered : /\ answered[i].refused <=> ~answered[i].answerable
                                 /\ answered[i].refusal = 1
                                 /\ answered[i].layer \notin {"retrieval", "generation"}
  <2> SUFFICES ASSUME NEW i \in DOMAIN answered
               PROVE  /\ answered[i].refused <=> ~answered[i].answerable
                      /\ answered[i].refusal = 1
                      /\ answered[i].layer \notin {"retrieval", "generation"}
    OBVIOUS
  <2>1. /\ answered[i].layer \in {"ok", "not_applicable"}
        /\ answered[i].refused # answered[i].answerable
    BY DEF Detectors!AnsweredWell
  <2>2. answered[i] \in Answers
    BY DEF RunInv
  <2>3. answered[i].refused \in BOOLEAN /\ answered[i].answerable \in BOOLEAN
    BY <2>2 DEF Answers
  <2>4. answered[i].refusal = 1
    BY <1>2, <2>1 DEF RunInv, IsOfTheWorld
  <2>5. QED
    BY <2>1, <2>3, <2>4
<1>4. Len(answered) \in Nat
  BY DEF RunInv
<1>5. \A f \in Detectors!HalfReturnedNothing :
        f.id = "half_returned_nothing"
        /\ \A i \in DOMAIN answered : Detectors!OtherHalf \notin answered[i].halves
  <2> SUFFICES ASSUME Detectors!HalfReturnedNothing # {}, NEW i \in DOMAIN answered
               PROVE  Detectors!OtherHalf \notin answered[i].halves
    BY DetectorsKeepToTheirNames
  <2>1. /\ Detectors!HasHalves /\ Detectors!EmptyHalf \in Detectors!Silent
        /\ Detectors!EmptyHalf \in Detectors!Halves
    BY EmptyHalfIsSilent DEF Detectors!HalfReturnedNothing
  <2>2. "dense" \in answered[i].halves
    BY <1>2, <2>1 DEF RunInv, IsOfTheWorld, Detectors!Heard
  <2>3. Detectors!EmptyHalf \notin answered[i].halves
    BY <2>1, <2>2 DEF Detectors!Silent, Detectors!Recorded
  <2>4. QED
    BY <2>1, <2>2, <2>3 DEF Detectors!Halves
<1>7. \A g \in Detectors!StubEmbedder : g.severity # "error"
  BY <1>2 DEF Detectors!StubEmbedder
<1>8. \A g \in Detectors!Duplicates \cup Detectors!Dominance : g.severity # "error"
  BY DEF Detectors!Duplicates, Detectors!Dominance, Detectors!Finding
<1>9. \A f \in Detectors!EmptyAnswers : f.id = "empty_answers" /\ (f.severity = "error" =>
        Detectors!Number(LAMBDA q : ~q.answerable) * 2 >= Len(answered))
  <2>1. Detectors!Number(LAMBDA q : q.refused) = Detectors!Number(LAMBDA q : ~q.answerable)
    <3>1. {i \in DOMAIN answered : answered[i].refused}
          = {i \in DOMAIN answered : ~answered[i].answerable}
      BY <1>3
    <3>2. QED
      BY <3>1 DEF Detectors!Number
  <2>2. PICK bad : bad = Detectors!Number(LAMBDA q : q.refused)
    OBVIOUS
  <2>3. \A f \in Detectors!EmptyAnswers :
          f.severity = IF bad * 2 >= Len(answered) THEN "error" ELSE "warn"
    BY <2>2 DEF Detectors!EmptyAnswers, Detectors!Finding
  <2>4. QED
    BY <2>1, <2>2, <2>3, DetectorsKeepToTheirNames
<1>10. Detectors!IncorrectRefusals = {}
  <2>1. Detectors!Number(LAMBDA q : q.refusal = 0) = 0
    <3>1. {i \in DOMAIN answered : answered[i].refusal = 0} = {}
      BY <1>3
    <3>2. QED
      BY <3>1, InstanceCounts, FS_EmptySet DEF Detectors!Number
  <2>2. Detectors!Number(LAMBDA q : q.refusal # Nil) \in Nat
    BY InstanceCounts, NumberIsANumber DEF Detectors!Number
  <2>3. PICK scored, wrong : /\ scored = Detectors!Number(LAMBDA q : q.refusal # Nil)
                             /\ wrong = Detectors!Number(LAMBDA q : q.refusal = 0)
    OBVIOUS
  <2>4. scored = 0 \/ wrong * 5 < scored
    BY <2>1, <2>2, <2>3
  <2>5. QED
    BY <2>3, <2>4 DEF Detectors!IncorrectRefusals
<1>11. Detectors!LayerBottleneck = {}
  <2>1. \A l \in {"retrieval", "generation"} : Detectors!Number(LAMBDA q : q.layer = l) = 0
    <3>1. \A l \in {"retrieval", "generation"} : {i \in DOMAIN answered : answered[i].layer = l} = {}
      BY <1>3
    <3>2. QED
      BY <3>1, InstanceCounts, FS_EmptySet DEF Detectors!Number
  <2>2. {Detectors!Number(LAMBDA q : q.layer = l) : l \in {"retrieval", "generation"}} = {0}
    BY <2>1
  <2>3. Detectors!Max({0}) = 0
    BY DEF Detectors!Max
  <2>4. QED
    BY <2>2, <2>3 DEF Detectors!LayerBottleneck
<1>12. Detectors!AggregateDisagrees = {}
  BY WholeRunAgrees
<1>13. /\ Detectors!UnverifiedCoverage = {} /\ Detectors!ChunkIdCollision = {}
       /\ Detectors!ModelsDiffer = {} /\ Detectors!BrokenPromise = {}
       /\ Detectors!SegmentationsDiffer = {}
  BY <1>2 DEF Detectors!UnverifiedCoverage, Detectors!ChunkIdCollision, Detectors!ModelsDiffer,
     Detectors!BrokenPromise, Detectors!SegmentationsDiffer
<1>14. \A g \in Detectors!TunedOnTheSet \cup Detectors!ConstantNeverVaried : g.severity # "error"
  BY DEF Detectors!TunedOnTheSet, Detectors!ConstantNeverVaried, Detectors!Finding
<1>15. QED
  BY <1>5, <1>7, <1>8, <1>9, <1>10, <1>11, <1>12, <1>13, <1>14 DEF Detectors!RunDetectors

LEMMA RunStays ==
    ASSUME RunInv, UNCHANGED <<world, answered, stored>>, findings' # Nil => stored # Nil
    PROVE  RunInv'
<1>1. StoredMean' = StoredMean
  <2>1. Detectors!Found' = Detectors!Found /\ Detectors!Scored' = Detectors!Scored
    BY DEF Detectors!Found, Detectors!Scored, Detectors!Number
  <2>2. QED
    BY <2>1 DEF StoredMean, HasLost
<1>2. \A i \in DOMAIN answered' : IsOfTheWorld(answered[i])'
  BY DEF RunInv, IsOfTheWorld, Detectors!Heard, Detectors!HasHalves,
     Detectors!InHalf, Detectors!Halves, Detectors!OtherHalf, Detectors!OverGraph
<1>3. QED
  BY <1>1, <1>2 DEF RunInv

LEMMA RunIsOpened == ASSUME RunInv, Detectors!Open PROVE RunInv' /\ Verdicts'
<1>1. /\ UNCHANGED <<world, config, earlier, answered, stored>> /\ stored # Nil
      /\ findings' = Detectors!RunDetectors
  BY DEF Detectors!Open
<1>2. RunInv'
  BY <1>1, RunStays
<1>3. Detectors!HealthyRunIsQuiet'
  <2>1. Detectors!OtherHalf' = Detectors!OtherHalf
        /\ Detectors!Number(LAMBDA q : ~q.answerable)' = Detectors!Number(LAMBDA q : ~q.answerable)
    BY <1>1 DEF Detectors!OtherHalf, Detectors!OverGraph, Detectors!Number
  <2>2. Detectors!Healthy' = Detectors!Healthy /\ Detectors!AnsweredWell' = Detectors!AnsweredWell
    BY <1>1 DEF Detectors!Healthy, Detectors!AnsweredWell
  <2>3. QED
    BY <1>1, <2>1, <2>2, HealthyIsQuiet DEF Detectors!HealthyRunIsQuiet, Detectors!Errors
<1>4. Detectors!OneVoicePerFault'
  BY <1>1, OneVoice DEF Detectors!OneVoicePerFault, Detectors!Said, Says
<1>5. Detectors!PlantedFaultsSpeak'
  <2>1. Detectors!Number(LAMBDA q : q.halves # {})' = Detectors!Number(LAMBDA q : q.halves # {})
    BY <1>1 DEF Detectors!Number
  <2>2. QED
    BY <1>1, <2>1, PlantedSpeak DEF Detectors!PlantedFaultsSpeak, Detectors!Said, Says,
       Detectors!HasHalves
<1>6. Detectors!LostQuestionIsHeard'
  <2>1. Detectors!Scored' = Detectors!Scored
    BY <1>1 DEF Detectors!Scored, Detectors!Number
  <2>2. QED
    BY <1>1, <2>1, LossIsHeard DEF Detectors!LostQuestionIsHeard, Detectors!Said, Says
<1>7. QED
  BY <1>2, <1>3, <1>4, <1>5, <1>6 DEF Verdicts

LEMMA DetectorsStay == ASSUME DetectorsInv, UNCHANGED detectorsVars PROVE DetectorsInv'
<1>1. UNCHANGED <<world, config, earlier, answered, stored, findings>>
  BY DEF detectorsVars
<1>2. RunInv'
  BY <1>1, RunStays DEF DetectorsInv, RunInv
<1>3. Detectors!HealthyRunIsQuiet' /\ Detectors!OneVoicePerFault'
  <2>1. Detectors!OtherHalf' = Detectors!OtherHalf
        /\ Detectors!Number(LAMBDA q : ~q.answerable)' = Detectors!Number(LAMBDA q : ~q.answerable)
    BY <1>1 DEF Detectors!OtherHalf, Detectors!OverGraph, Detectors!Number
  <2>2. Detectors!Healthy' = Detectors!Healthy /\ Detectors!AnsweredWell' = Detectors!AnsweredWell
    BY <1>1 DEF Detectors!Healthy, Detectors!AnsweredWell
  <2>3. QED
    BY <1>1, <2>1, <2>2 DEF DetectorsInv, Verdicts, Detectors!HealthyRunIsQuiet,
       Detectors!OneVoicePerFault, Detectors!Said, Detectors!Errors
<1>4. Detectors!PlantedFaultsSpeak'
  <2>1. Detectors!Number(LAMBDA q : q.halves # {})' = Detectors!Number(LAMBDA q : q.halves # {})
    BY <1>1 DEF Detectors!Number
  <2>2. QED
    BY <1>1, <2>1 DEF DetectorsInv, Verdicts, Detectors!PlantedFaultsSpeak, Detectors!Said,
       Detectors!HasHalves
<1>5. Detectors!LostQuestionIsHeard'
  <2>1. Detectors!Scored' = Detectors!Scored
    BY <1>1 DEF Detectors!Scored, Detectors!Number
  <2>2. QED
    BY <1>1, <2>1 DEF DetectorsInv, Verdicts, Detectors!LostQuestionIsHeard, Detectors!Said
<1>6. QED
  BY <1>2, <1>3, <1>4, <1>5 DEF DetectorsInv, Verdicts

LEMMA DetectorsGoOn == ASSUME DetectorsInv, Detectors!Next PROVE DetectorsInv'
<1>1. CASE \E c \in Contexts, halves \in SUBSET Detectors!Halves, reply \in Outcomes :
        Detectors!Answer(c, halves, reply)
  <2>1. RunInv' /\ findings' = Nil
    BY <1>1, QuestionIsAnswered DEF DetectorsInv, RunInv, Detectors!Answer
  <2>2. QED
    BY <2>1, NothingIsSaid DEF DetectorsInv
<1>2. CASE Detectors!Store
  <2>1. RunInv' /\ findings' = Nil
    BY <1>2, RunIsKept DEF DetectorsInv, RunInv, Detectors!Store
  <2>2. QED
    BY <2>1, NothingIsSaid DEF DetectorsInv
<1>3. CASE \E i \in DOMAIN answered : Detectors!Lose(i)
  <2>1. RunInv' /\ findings' = Nil
    BY <1>3, QuestionIsLost DEF DetectorsInv, Detectors!Lose
  <2>2. QED
    BY <2>1, NothingIsSaid DEF DetectorsInv
<1>4. CASE Detectors!Open
  BY <1>4, RunIsOpened DEF DetectorsInv
<1>5. CASE UNCHANGED Detectors!vars
  BY <1>5, DetectorsStay DEF Detectors!vars, detectorsVars
<1>6. QED
  BY <1>1, <1>2, <1>3, <1>4, <1>5 DEF Detectors!Next

LEMMA DetectorsAlways == Spec => [](part = "detectors" => DetectorsInv)
<1>1. Init => (part = "detectors" => DetectorsInv)
  BY RunStarts, NothingIsSaid DEF Init, DetectorsInv, Detectors!Init
<1>2. (part = "detectors" => DetectorsInv) /\ [Next]_vars => (part = "detectors" => DetectorsInv)'
  <2> SUFFICES ASSUME part = "detectors" => DetectorsInv, [Next]_vars, part' = "detectors"
               PROVE  DetectorsInv'
    OBVIOUS
  <2>1. CASE DetectorsStep
    BY <2>1, DetectorsGoOn DEF DetectorsStep
  <2>2. CASE UNCHANGED vars
    BY <2>2, DetectorsStay DEF vars, detectorsVars
  <2>3. QED
    BY <2>1, <2>2 DEF Next, ScoreStep, JudgmentsStep, BundleStep, PromotionStep, PromoterStep,
       TriageStep
<1>3. QED
  BY <1>1, <1>2, PTL DEF Spec

\* Over a healthy run that was answered well and came back whole the run page raises an error only
\* where half of the questions cannot be answered or the half beside the dense one returned nothing
\* to any.  It speaks of an empty half with one voice, names the half that holds nothing and the
\* stub the load record tells of, and hears of a question lost from a run that found some and
\* missed some, for every world, any answers and any mean (core/eval/detectors.py, run_detectors).
THEOREM FaultsSpeak == Spec => []FaultsAreHeard
<1>1. (part = "detectors" => DetectorsInv) => FaultsAreHeard
  BY DEF FaultsAreHeard, DetectorsInv, Verdicts
<1>2. QED
  BY <1>1, DetectorsAlways, PTL

----------------------------------------------------------------------------
(* Bundles that are received and thresholds that are derived *)

Chunk == [unit : Units \cup {Nil}, text : AnchorTexts \cup {Blank}]

\* What is received was made of one entry and one index, the threshold of two sets of scores.
BundleInv ==
    /\ \E relevant, irrelevant \in Seq(Bundle!Judged), chunks \in Seq(Chunk) :
          received = Bundle!Received(relevant, irrelevant, chunks)
    /\ \E pos, neg \in SUBSET (Margin..MaxScore) :
          derived = [pos |-> pos, neg |-> neg, threshold |-> Bundle!Threshold(pos, neg)]

\* What a set of anchors says of an anchor in it is what the anchor itself resolves to.
LEMMA LookupIsResolve ==
    ASSUME NEW S, NEW anchors \in Seq(S), NEW chunks, NEW i \in DOMAIN anchors
    PROVE  Bundle!Lookup(anchors, chunks, anchors[i]) = Bundle!Resolve(anchors[i], chunks)
<1> DEFINE same == {k \in DOMAIN anchors : anchors[k] = anchors[i]}
<1>1. same \in SUBSET Int /\ IsFiniteSet(same) /\ same # {}
  <2>1. same \in SUBSET (1..Len(anchors)) /\ IsFiniteSet(1..Len(anchors)) /\ i \in same
    BY FS_Interval
  <2>2. QED
    BY <2>1, FS_Subset
<1>2. \E k \in same : \A j \in same : j <= k
  <2> HIDE DEF same
  <2>1. QED
    BY <1>1, LeastAndGreatest
<1>3. \E k \in same : \A j \in same : k >= j
  BY <1>1, <1>2
<1>4. Bundle!Max(same) \in same
  <2> HIDE DEF same
  <2>1. QED
    BY <1>3 DEF Bundle!Max
<1>5. anchors[Bundle!Max(same)] = anchors[i]
  BY <1>4
<1>6. QED
  BY <1>5 DEF Bundle!Lookup

\* An anchor of a text some chunk has resolves to a chunk with that text.
LEMMA TextResolves ==
    ASSUME NEW chunks \in Seq(Chunk), NEW a, NEW i \in DOMAIN chunks, chunks[i].text = a.hash
    PROVE  LET r == Bundle!Resolve(a, chunks)
           IN  r.match = "exact" /\ r.id \in DOMAIN chunks /\ chunks[r.id].text = a.hash
<1> DEFINE with == {k \in 1..Len(chunks) : chunks[k].text = a.hash}
<1>1. with \in SUBSET Int /\ IsFiniteSet(with) /\ with # {}
  <2>1. Len(chunks) \in Nat /\ i \in 1..Len(chunks)
    OBVIOUS
  <2>2. with \in SUBSET (1..Len(chunks)) /\ i \in with
    BY <2>1
  <2>3. IsFiniteSet(1..Len(chunks)) /\ (1..Len(chunks)) \in SUBSET Int
    BY <2>1, FS_Interval
  <2> HIDE DEF with
  <2>4. QED
    BY <2>2, <2>3, FS_Subset
<1>2. \E k \in with : \A j \in with : k <= j
  <2> HIDE DEF with
  <2>1. QED
    BY <1>1, LeastAndGreatest
<1>3. Bundle!Min(with) \in with
  <2> HIDE DEF with
  <2>1. QED
    BY <1>2 DEF Bundle!Min
<1>4. Bundle!First(chunks, LAMBDA c : c.text = a.hash) = Bundle!Min(with)
  BY <1>1 DEF Bundle!First, Bundle!SelectInSeq
<1>5. Bundle!Min(with) # 0
  BY <1>3
<1>6. PICK t : t = Bundle!Min(with)
  OBVIOUS
<1>7. t \in DOMAIN chunks /\ chunks[t].text = a.hash
  BY <1>3, <1>6
<1>8. Bundle!Resolve(a, chunks) = [id |-> t, match |-> "exact"]
  BY <1>4, <1>5, <1>6 DEF Bundle!Resolve
<1>9. QED
  BY <1>7, <1>8

LEMMA BundleIsReceived ==
    ASSUME NEW relevant \in Seq(Bundle!Judged), NEW irrelevant \in Seq(Bundle!Judged),
           NEW chunks \in Seq(Chunk), received = Bundle!Received(relevant, irrelevant, chunks)
    PROVE  Bundle!TextIsFoundAgain
<1>1. PICK all : all = relevant \o irrelevant
  OBVIOUS
<1>2. /\ all \in Seq(Bundle!Judged) /\ Len(all) = Len(relevant) + Len(irrelevant)
      /\ \A i \in DOMAIN relevant : i \in DOMAIN all /\ all[i] = relevant[i]
      /\ \A i \in DOMAIN irrelevant : Len(relevant) + i \in DOMAIN all
                                      /\ all[Len(relevant) + i] = irrelevant[i]
  BY <1>1
<1>3. PICK anchors : anchors = [i \in DOMAIN all |-> Bundle!Anchor(all[i])]
  OBVIOUS
<1>4. anchors \in Seq({anchors[i] : i \in DOMAIN all}) /\ DOMAIN anchors = DOMAIN all
  BY <1>2, <1>3
<1>5. \A i \in DOMAIN all : Bundle!Lookup(anchors, chunks, Bundle!Anchor(all[i]))
                            = Bundle!Resolve(Bundle!Anchor(all[i]), chunks)
  <2> TAKE i \in DOMAIN all
  <2>1. anchors[i] = Bundle!Anchor(all[i]) /\ i \in DOMAIN anchors
    BY <1>3
  <2>2. Bundle!Lookup(anchors, chunks, anchors[i]) = Bundle!Resolve(anchors[i], chunks)
    BY <1>4, <2>1, LookupIsResolve
  <2>3. QED
    BY <2>1, <2>2
<1> DEFINE Id(c) == Bundle!Resolve(Bundle!Anchor(c), chunks).id
<1>6. /\ received.relevant = relevant /\ received.irrelevant = irrelevant
      /\ received.chunks = chunks
      /\ received.found = [i \in DOMAIN all |-> Bundle!Resolve(Bundle!Anchor(all[i]), chunks)]
      /\ received.relevantIds =
            [i \in DOMAIN relevant |-> Bundle!Lookup(anchors, chunks, Bundle!Anchor(relevant[i])).id]
      /\ received.irrelevantIds =
            [i \in DOMAIN irrelevant |-> Bundle!Lookup(anchors, chunks, Bundle!Anchor(irrelevant[i])).id]
  BY <1>1, <1>3 DEF Bundle!Received
<1>7. Bundle!EntryIds = [i \in DOMAIN all |-> received.found[i].id]
  <2>1. received.relevantIds = [i \in DOMAIN relevant |-> Id(relevant[i])]
    BY <1>2, <1>5, <1>6
  <2>2. received.irrelevantIds = [i \in DOMAIN irrelevant |-> Id(irrelevant[i])]
    <3>1. \A i \in DOMAIN irrelevant :
            Bundle!Lookup(anchors, chunks, Bundle!Anchor(irrelevant[i]))
              = Bundle!Resolve(Bundle!Anchor(irrelevant[i]), chunks)
      BY <1>2, <1>5
    <3>2. QED
      BY <1>6, <3>1
  <2>3. [i \in DOMAIN all |-> received.found[i].id] = [i \in DOMAIN all |-> Id(all[i])]
    BY <1>6
  <2> HIDE DEF Id
  <2>4. PICK own, others : own = received.relevantIds /\ others = received.irrelevantIds
    OBVIOUS
  <2>5. /\ own \in Seq({Id(all[i]) : i \in DOMAIN all}) /\ Len(own) = Len(relevant)
        /\ others \in Seq({Id(all[i]) : i \in DOMAIN all}) /\ Len(others) = Len(irrelevant)
    <3>1. \A i \in DOMAIN relevant : Id(relevant[i]) \in {Id(all[k]) : k \in DOMAIN all}
      BY <1>2
    <3>2. \A i \in DOMAIN irrelevant : Id(irrelevant[i]) \in {Id(all[k]) : k \in DOMAIN all}
      BY <1>2
    <3>3. PICK U : U = {Id(all[k]) : k \in DOMAIN all}
      OBVIOUS
    <3>4. /\ own = [i \in 1..Len(relevant) |-> Id(relevant[i])]
          /\ others = [i \in 1..Len(irrelevant) |-> Id(irrelevant[i])]
      BY <2>1, <2>2, <2>4
    <3>5. own \in [1..Len(relevant) -> U] /\ others \in [1..Len(irrelevant) -> U]
      BY <3>1, <3>2, <3>3, <3>4
    <3>6. own \in Seq(U) /\ Len(own) = Len(relevant) /\ others \in Seq(U) /\ Len(others) = Len(irrelevant)
      BY <3>5, SequenceIsFunction, FunctionIsSequence
    <3>7. QED
      BY <3>3, <3>6
  <2>6. own \o others \in Seq({Id(all[i]) : i \in DOMAIN all}) /\ Len(own \o others) = Len(all)
    BY <1>2, <2>5
  <2>7. \A i \in 1..Len(all) : (own \o others)[i] = Id(all[i])
    <3> TAKE i \in 1..Len(all)
    <3>1. CASE i <= Len(relevant)
      <4>1. i \in DOMAIN relevant /\ (own \o others)[i] = own[i]
        BY <2>5, <3>1
      <4>2. QED
        BY <1>2, <2>1, <2>4, <4>1
    <3>2. CASE i > Len(relevant)
      <4>1. PICK k \in DOMAIN irrelevant : i = Len(relevant) + k
        <5>1. Len(relevant) \in Nat /\ Len(irrelevant) \in Nat /\ i \in Int /\ i <= Len(all)
          BY <1>2
        <5>2. PICK k \in Int : k = i - Len(relevant)
          BY <5>1
        <5>3. k \in 1..Len(irrelevant) /\ i = Len(relevant) + k
          BY <1>2, <3>2, <5>1, <5>2
        <5>4. DOMAIN irrelevant = 1..Len(irrelevant)
          OBVIOUS
        <5>5. QED
          BY <5>3, <5>4
      <4>2. (own \o others)[i] = others[k]
        BY <2>5, <3>2, <4>1
      <4>3. others[k] = Id(irrelevant[k])
        BY <2>2, <2>4
      <4>4. irrelevant[k] = all[i]
        BY <1>2, <4>1
      <4>5. QED
        BY <4>2, <4>3, <4>4
    <3>3. i <= Len(relevant) \/ i > Len(relevant)
      OBVIOUS
    <3>4. QED
      BY <3>1, <3>2, <3>3
  <2>8. own \o others = [i \in DOMAIN all |-> Id(all[i])]
    <3>1. PICK U, both : U = {Id(all[i]) : i \in DOMAIN all} /\ both = own \o others
      OBVIOUS
    <3>2. both \in [1..Len(all) -> U] /\ DOMAIN all = 1..Len(all)
      BY <1>2, <2>6, <3>1, SequenceIsFunction
    <3>3. both = [i \in 1..Len(all) |-> both[i]]
      BY <3>2
    <3>4. QED
      BY <2>7, <3>1, <3>2, <3>3
  <2>9. QED
    BY <2>3, <2>4, <2>8 DEF Bundle!EntryIds
<1>8. Bundle!TextIsFoundAgain
  <2> SUFFICES ASSUME NEW i \in DOMAIN all, Bundle!Holds(chunks, all[i]), ~all[i].bare
               PROVE  received.found[i].match = "exact"
                      /\ chunks[received.found[i].id].text = all[i].text
    <3>1. Bundle!AllJudged = all /\ received.chunks = chunks
      BY <1>1, <1>6 DEF Bundle!AllJudged
    <3>2. \A i \in DOMAIN all : Bundle!EntryIds[i] = received.found[i].id
      BY <1>7
    <3>3. QED
      BY <3>1, <3>2 DEF Bundle!TextIsFoundAgain
  <2>1. PICK a : a = Bundle!Anchor(all[i])
    OBVIOUS
  <2>2. a.hash = all[i].text /\ received.found[i] = Bundle!Resolve(a, chunks)
    BY <1>6, <2>1 DEF Bundle!Anchor
  <2>3. PICK k \in DOMAIN chunks : chunks[k].text = a.hash
    BY <2>2 DEF Bundle!Holds
  <2>4. QED
    BY <2>2, <2>3, TextResolves
<1>9. QED
  BY <1>8

LEMMA ThresholdIsDerived ==
    ASSUME NEW pos \in SUBSET (Margin..MaxScore), NEW neg \in SUBSET (Margin..MaxScore),
           derived = [pos |-> pos, neg |-> neg, threshold |-> Bundle!Threshold(pos, neg)]
    PROVE  Bundle!ThresholdAdmitsTheMatches
<1> SUFFICES ASSUME derived.threshold # Bundle!None, NEW p \in pos, NEW n \in neg
             PROVE  derived.threshold <= p /\ n < p
  BY DEF Bundle!ThresholdAdmitsTheMatches
<1>1. /\ pos # {} /\ neg # {} /\ ~(Bundle!Min(pos) <= Bundle!Max(neg))
      /\ derived.threshold = Bundle!Min(pos) - Margin
  BY DEF Bundle!Threshold
<1>2. Margin \in Nat /\ MaxScore \in Nat
  BY BundleAssumption DEF Bundle!Assumptions
<1>3. /\ pos \in SUBSET Int /\ IsFiniteSet(pos)
      /\ neg \in SUBSET Int /\ IsFiniteSet(neg)
  <2>1. IsFiniteSet(Margin..MaxScore) /\ (Margin..MaxScore) \in SUBSET Int
    BY <1>2, FS_Interval
  <2>2. QED
    BY <2>1, FS_Subset
<1>4. \E i \in pos : \A j \in pos : i <= j
  BY <1>1, <1>3, LeastAndGreatest
<1>5. Bundle!Min(pos) \in pos /\ \A j \in pos : Bundle!Min(pos) <= j
  BY <1>4 DEF Bundle!Min
<1>6. \E i \in neg : \A j \in neg : i >= j
  <2>1. \E i \in neg : \A j \in neg : j <= i
    BY <1>1, <1>3, LeastAndGreatest
  <2>2. QED
    BY <1>3, <2>1
<1>7. Bundle!Max(neg) \in neg /\ \A j \in neg : Bundle!Max(neg) >= j
  BY <1>6 DEF Bundle!Max
<1>8. PICK low \in Int, high \in Int : low = Bundle!Min(pos) /\ high = Bundle!Max(neg)
  BY <1>3, <1>5, <1>7
<1>9. low <= p /\ n <= high /\ ~(low <= high) /\ derived.threshold = low - Margin
  BY <1>1, <1>5, <1>7, <1>8
<1>10. p \in Int /\ n \in Int
  BY <1>3
<1>11. QED
  BY <1>2, <1>8, <1>9, <1>10

LEMMA BundleStarts == Bundle!Init => BundleInv
<1> SUFFICES ASSUME Bundle!Init PROVE BundleInv
  OBVIOUS
<1>1. <<>> \in Seq(Bundle!Judged) /\ <<>> \in Seq(Chunk)
  OBVIOUS
<1>2. Bundle!Threshold({}, {}) = Bundle!None
  BY DEF Bundle!Threshold
<1>3. QED
  BY <1>1, <1>2 DEF Bundle!Init, Bundle!Nothing, BundleInv

LEMMA BundleGoesOn == ASSUME BundleInv, Bundle!Next PROVE BundleInv'
<1>1. CASE Bundle!Receive
  <2>1. PICK n \in 1..MaxChunks : \E chunks \in [1..n -> Chunk],
             relevant \in Bundle!BoundedSeq(Bundle!Judged, 2),
             irrelevant \in Bundle!BoundedSeq(Bundle!Judged, 1) :
          received' = Bundle!Received(relevant, irrelevant, chunks) /\ UNCHANGED derived
    BY <1>1 DEF Bundle!Receive, Chunk
  <2>2. PICK chunks \in [1..n -> Chunk],
             relevant \in Bundle!BoundedSeq(Bundle!Judged, 2),
             irrelevant \in Bundle!BoundedSeq(Bundle!Judged, 1) :
          received' = Bundle!Received(relevant, irrelevant, chunks) /\ UNCHANGED derived
    BY <2>1
  <2>3. chunks \in Seq(Chunk) /\ relevant \in Seq(Bundle!Judged) /\ irrelevant \in Seq(Bundle!Judged)
    <3>1. /\ \E m \in 0..2 : relevant \in [1..m -> Bundle!Judged]
          /\ \E m \in 0..1 : irrelevant \in [1..m -> Bundle!Judged]
      BY DEF Bundle!BoundedSeq
    <3>2. QED
      BY <2>2, <3>1, FunctionIsSequence
  <2>4. QED
    BY <2>2, <2>3 DEF BundleInv
<1>2. CASE Bundle!Calibrate
  BY <1>2 DEF Bundle!Calibrate, BundleInv
<1>3. QED
  BY <1>1, <1>2 DEF Bundle!Next

LEMMA BundleAlways == Spec => [](part = "bundle" => BundleInv)
<1>1. Init => (part = "bundle" => BundleInv)
  BY BundleStarts DEF Init
<1>2. (part = "bundle" => BundleInv) /\ [Next]_vars => (part = "bundle" => BundleInv)'
  <2> SUFFICES ASSUME part = "bundle" => BundleInv, [Next]_vars, part' = "bundle"
               PROVE  BundleInv'
    OBVIOUS
  <2>1. CASE BundleStep
    BY <2>1, BundleGoesOn DEF BundleStep
  <2>2. CASE UNCHANGED vars
    BY <2>2 DEF vars, bundleVars, BundleInv
  <2>3. QED
    BY <2>1, <2>2 DEF Next, ScoreStep, DetectorsStep, JudgmentsStep, PromotionStep, PromoterStep,
       TriageStep
<1>3. QED
  BY <1>1, <1>2, PTL DEF Spec

----------------------------------------------------------------------------
(* The file of judgments *)

References == UNION {RefsOfChunk[c] : c \in JudgedChunks}
Line == [id : Nat \ {0}, question : JudgedQuestions, relevant : SUBSET JudgedChunks,
         irrelevant : SUBSET JudgedChunks, refs : SUBSET References, active : BOOLEAN]
Creation == [pc : {"relevant", "append"}, id : Nat \ {0}, question : JudgedQuestions,
             relevant : SUBSET JudgedChunks, irrelevant : SUBSET JudgedChunks,
             refs : SUBSET References]
Lines == Seq(Line \cup {Judgments!Bad})

\* No two lines and no creation still on its way have one id, and each has one that was drawn.
JudgmentsInv ==
    /\ lines \in Lines /\ made \in Nat /\ edits \in Nat
    /\ ~ended => lines # <<>>
    /\ \A i \in DOMAIN lines : lines[i].id \in 0..made
    /\ \A i, k \in DOMAIN lines : lines[i].id = lines[k].id /\ lines[i].id # 0 => i = k
    /\ request \in [Judging -> {Judgments!Free} \cup Creation]
    /\ \A r \in Judging : request[r] \in Creation =>
          request[r].id \in 1..made /\ \A i \in DOMAIN lines : lines[i].id # request[r].id
    /\ \A r, s \in Judging : request[r] \in Creation /\ request[s] \in Creation
                             /\ request[r].id = request[s].id => r = s

\* A line that does not parse is the one without an id.
LEMMA BadHasNoId ==
    /\ \A l \in Line \cup {Judgments!Bad} : l.id \in Nat /\ (l.id = 0 <=> l = Judgments!Bad)
    /\ \A l \in Line : l # Judgments!Bad
<1>1. Judgments!Bad.id = 0 /\ \A l \in Line : l.id \in Nat \ {0}
  BY DEF Judgments!Bad, Line
<1>2. QED
  BY <1>1

LEMMA FreeIsNoCreation == Judgments!Free \notin Creation /\ \A l \in Creation : l.pc # "free"
BY DEF Judgments!Free, Creation

\* The instance takes parts of a sequence as the module does.
LEMMA JudgmentsTakeOnly == ASSUME NEW s, NEW places PROVE Judgments!Only(s, places) = Only(s, places)
BY DEF Judgments!Only, Only, Judgments!Nth, Nth, Judgments!Cardinality, Cardinality

\* What is loaded of a file is what parses, each line once and in its place.
LEMMA LoadTakesWhatParses ==
    ASSUME NEW s \in Lines
    PROVE  /\ Judgments!Load(s) \in Seq(Line)
           /\ \E at \in [DOMAIN Judgments!Load(s) -> DOMAIN s] :
                 /\ \A k \in DOMAIN Judgments!Load(s) : Judgments!Load(s)[k] = s[at[k]]
                 /\ \A k, l \in DOMAIN Judgments!Load(s) : at[k] = at[l] => k = l
           /\ \A i \in DOMAIN s : s[i] # Judgments!Bad =>
                 \E k \in DOMAIN Judgments!Load(s) : Judgments!Load(s)[k] = s[i]
<1> DEFINE places == {i \in DOMAIN s : s[i] # Judgments!Bad}
<1>1. Judgments!Load(s) = Only(s, places)
  BY JudgmentsTakeOnly DEF Judgments!Load, Judgments!Where
<1>2. places \in SUBSET DOMAIN s /\ s \in Seq(Line \cup {Judgments!Bad})
  BY DEF Lines
<1> HIDE DEF places
<1>3. /\ Only(s, places) \in Seq(Line \cup {Judgments!Bad})
      /\ \A k \in DOMAIN Only(s, places) :
            Nth(places, k) \in places /\ Only(s, places)[k] = s[Nth(places, k)]
      /\ \A k, l \in DOMAIN Only(s, places) : Nth(places, k) = Nth(places, l) => k = l
      /\ \A i \in places : \E k \in DOMAIN Only(s, places) : Only(s, places)[k] = s[i]
  BY <1>2, OnlyTakesThePlaces
<1>4. PICK t : t = Only(s, places)
  OBVIOUS
<1>5. Len(t) \in Nat /\ DOMAIN t = 1..Len(t) /\ t \in [1..Len(t) -> Line \cup {Judgments!Bad}]
  BY <1>3, <1>4, SequenceIsFunction
<1>6. \A k \in 1..Len(t) : t[k] \in Line
  <2> TAKE k \in 1..Len(t)
  <2>1. Nth(places, k) \in places /\ t[k] = s[Nth(places, k)] /\ t[k] \in Line \cup {Judgments!Bad}
    BY <1>3, <1>4, <1>5
  <2>2. QED
    BY <2>1 DEF places
<1>7. t \in Seq(Line)
  <2>1. t \in [1..Len(t) -> Line]
    BY <1>5, <1>6
  <2>2. QED
    BY <1>5, <2>1, FunctionIsSequence
<1>8. PICK at : at = [k \in DOMAIN t |-> Nth(places, k)]
  OBVIOUS
<1>9. /\ at \in [DOMAIN t -> DOMAIN s]
      /\ \A k \in DOMAIN t : t[k] = s[at[k]]
      /\ \A k, l \in DOMAIN t : at[k] = at[l] => k = l
  BY <1>2, <1>3, <1>4, <1>8
<1>10. \A i \in DOMAIN s : s[i] # Judgments!Bad => \E k \in DOMAIN t : t[k] = s[i]
  BY <1>3, <1>4 DEF places
<1>11. QED
  BY <1>1, <1>4, <1>7, <1>9, <1>10

LEMMA LoadedIsWhatParses ==
    ASSUME NEW s \in Lines
    PROVE  Judgments!Range(Judgments!Load(s)) = {s[i] : i \in DOMAIN s} \ {Judgments!Bad}
<1>1. PICK t : t = Judgments!Load(s)
  OBVIOUS
<1>2. /\ t \in Seq(Line)
      /\ \A k \in DOMAIN t : \E i \in DOMAIN s : t[k] = s[i]
      /\ \A i \in DOMAIN s : s[i] # Judgments!Bad => \E k \in DOMAIN t : t[k] = s[i]
  BY <1>1, LoadTakesWhatParses
<1>3. \A k \in DOMAIN t : t[k] # Judgments!Bad
  <2>1. \A k \in DOMAIN t : t[k] \in Line
    BY <1>2, SequenceIsFunction
  <2>2. QED
    BY <2>1, BadHasNoId
<1>4. QED
  BY <1>1, <1>2, <1>3 DEF Judgments!Range

\* A file whose lines keep the ids of lines of before keeps what is known of them.
LEMMA LinesAreReplaced ==
    ASSUME JudgmentsInv, UNCHANGED <<request, made>>, edits' \in Nat, lines' \in Lines,
           ~ended' => lines' # <<>>, NEW at \in [DOMAIN lines' -> DOMAIN lines],
           \A k \in DOMAIN lines' : lines'[k].id \in {0, lines[at[k]].id},
           \A k, l \in DOMAIN lines' : at[k] = at[l] => k = l
    PROVE  JudgmentsInv'
<1>1. \A k \in DOMAIN lines' : lines'[k].id \in 0..made /\ at[k] \in DOMAIN lines
  BY DEF JudgmentsInv
<1>2. \A i, k \in DOMAIN lines' : lines'[i].id = lines'[k].id /\ lines'[i].id # 0 => i = k
  BY <1>1 DEF JudgmentsInv
<1>3. \A r \in Judging : request[r] \in Creation => \A k \in DOMAIN lines' : lines'[k].id # request[r].id
  BY <1>1 DEF JudgmentsInv
<1>4. QED
  BY <1>1, <1>2, <1>3 DEF JudgmentsInv

LEMMA JudgmentsStart == Judgments!Init => JudgmentsInv
<1> SUFFICES ASSUME Judgments!Init PROVE JudgmentsInv
  OBVIOUS
<1>1. lines \in Lines /\ DOMAIN lines = {}
  BY DEF Judgments!Init, Lines
<1>2. request \in [Judging -> {Judgments!Free}]
  BY DEF Judgments!Init
<1>3. QED
  BY <1>1, <1>2, FreeIsNoCreation DEF Judgments!Init, JudgmentsInv

LEMMA CreationGoesOn ==
    ASSUME JudgmentsInv, NEW r \in Judging, Judgments!Create(r) \/ Judgments!ResolveRelevant(r)
    PROVE  JudgmentsInv' /\ UNCHANGED lines
<1>1. UNCHANGED <<lines, ended, edits>>
  BY DEF Judgments!Create, Judgments!ResolveRelevant
<1>2. CASE Judgments!Create(r)
  <2>1. PICK q \in JudgedQuestions, relevant \in SUBSET JudgedChunks, irrelevant \in SUBSET JudgedChunks :
          request' = [request EXCEPT ![r] =
                        [pc |-> "relevant", id |-> made + 1, question |-> q, relevant |-> relevant,
                         irrelevant |-> irrelevant, refs |-> {}]]
    BY <1>2 DEF Judgments!Create
  <2>2. made' = made + 1 /\ made \in Nat
    BY <1>2 DEF Judgments!Create, JudgmentsInv
  <2>3. PICK new : new = [pc |-> "relevant", id |-> made + 1, question |-> q, relevant |-> relevant,
                          irrelevant |-> irrelevant, refs |-> {}]
    OBVIOUS
  <2>4. new \in Creation /\ new.id = made + 1
    BY <2>2, <2>3 DEF Creation
  <2>5. /\ request' \in [Judging -> {Judgments!Free} \cup Creation]
        /\ request'[r] = new /\ \A s \in Judging \ {r} : request'[s] = request[s]
    BY <2>1, <2>3, <2>4 DEF JudgmentsInv
  <2>6. \A s \in Judging : request'[s] \in Creation =>
          request'[s].id \in 1..made' /\ \A i \in DOMAIN lines : lines[i].id # request'[s].id
    BY <2>2, <2>4, <2>5 DEF JudgmentsInv
  <2>7. \A s, t \in Judging : request'[s] \in Creation /\ request'[t] \in Creation
                              /\ request'[s].id = request'[t].id => s = t
    BY <2>2, <2>4, <2>5 DEF JudgmentsInv
  <2>8. \A i \in DOMAIN lines : lines[i].id \in 0..made'
    BY <2>2 DEF JudgmentsInv
  <2>9. QED
    BY <1>1, <2>2, <2>5, <2>6, <2>7, <2>8 DEF JudgmentsInv
<1>3. CASE Judgments!ResolveRelevant(r)
  <2>1. PICK refs : /\ request' = [request EXCEPT ![r].pc = "append", ![r].refs = refs]
                    /\ refs \in {UNION {RefsOfChunk[c] : c \in request[r].relevant}, {}}
    BY <1>3 DEF Judgments!ResolveRelevant
  <2>2. made' = made /\ request[r].pc = "relevant"
    BY <1>3 DEF Judgments!ResolveRelevant
  <2>3. request[r] \in Creation
    BY <2>2 DEF JudgmentsInv, Judgments!Free
  <2>4. refs \in SUBSET References
    <3>1. request[r].relevant \in SUBSET JudgedChunks
      BY <2>3 DEF Creation
    <3>2. QED
      BY <2>1, <3>1 DEF References
  <2>5. PICK new : new = [request[r] EXCEPT !.pc = "append", !.refs = refs]
    OBVIOUS
  <2>6. new \in Creation /\ new.id = request[r].id
    BY <2>3, <2>4, <2>5 DEF Creation
  <2>7. /\ request' \in [Judging -> {Judgments!Free} \cup Creation]
        /\ request'[r] = new /\ \A s \in Judging \ {r} : request'[s] = request[s]
    BY <2>1, <2>5, <2>6 DEF JudgmentsInv
  <2>8. QED
    BY <1>1, <2>2, <2>3, <2>6, <2>7 DEF JudgmentsInv
<1>4. QED
  BY <1>1, <1>2, <1>3

\* What is appended is the last line, and breaks the one before it that has no newline.
LEMMA AppendIsLast ==
    ASSUME JudgmentsInv, NEW l \in Line \cup {Judgments!Bad}
    PROVE  /\ Judgments!Appended(l) \in Lines
           /\ \E n \in Nat : /\ DOMAIN Judgments!Appended(l) = 1..(n + 1)
                             /\ n \in {Len(lines), Len(lines) - 1}
                             /\ \A k \in 1..n : Judgments!Appended(l)[k] = lines[k]
                             /\ Judgments!Appended(l)[n + 1] \in {l, Judgments!Bad}
<1>1. lines \in Seq(Line \cup {Judgments!Bad}) /\ Judgments!Bad \in Line \cup {Judgments!Bad}
  BY DEF JudgmentsInv, Lines
<1>2. CASE ended
  <2>1. Judgments!Appended(l) = Append(lines, l)
    BY <1>2 DEF Judgments!Appended
  <2>2. QED
    BY <1>1, <2>1 DEF Lines
<1>3. CASE ~ended
  <2>1. Judgments!Appended(l) = Append(SubSeq(lines, 1, Len(lines) - 1), Judgments!Bad)
    BY <1>3 DEF Judgments!Appended, Judgments!Front
  <2>2. Len(lines) - 1 \in Nat
    BY <1>1, <1>3 DEF JudgmentsInv
  <2>3. PICK n \in Nat : n = Len(lines) - 1
    BY <2>2
  <2>4. PICK front : front = SubSeq(lines, 1, n)
    OBVIOUS
  <2>5. front \in Seq(Line \cup {Judgments!Bad}) /\ Len(front) = n /\ \A k \in 1..n : front[k] = lines[k]
    BY <1>1, <2>3, <2>4
  <2>6. PICK t : t = Append(front, Judgments!Bad)
    OBVIOUS
  <2>7. /\ t \in Seq(Line \cup {Judgments!Bad}) /\ DOMAIN t = 1..(n + 1) /\ t[n + 1] = Judgments!Bad
        /\ \A k \in 1..n : t[k] = lines[k]
    BY <1>1, <2>5, <2>6
  <2>8. QED
    BY <2>1, <2>3, <2>4, <2>6, <2>7 DEF Lines
<1>4. QED
  BY <1>2, <1>3

LEMMA CreationEnds ==
    ASSUME JudgmentsInv, NEW r \in Judging, Judgments!AppendLine(r) \/ Judgments!AppendTorn(r)
    PROVE  JudgmentsInv' /\ request' # request
<1>1. /\ request[r].pc = "append" /\ request' = [request EXCEPT ![r] = Judgments!Free]
      /\ UNCHANGED <<made, edits>>
  BY DEF Judgments!AppendLine, Judgments!AppendTorn
<1>2. request[r] \in Creation
  BY <1>1 DEF JudgmentsInv, Judgments!Free
<1>3. /\ request' \in [Judging -> {Judgments!Free} \cup Creation]
      /\ request'[r] = Judgments!Free /\ \A s \in Judging \ {r} : request'[s] = request[s]
  BY <1>1 DEF JudgmentsInv
<1>4. request' # request
  BY <1>2, <1>3, FreeIsNoCreation
<1>5. PICK l \in Line \cup {Judgments!Bad} :
        lines' = Judgments!Appended(l) /\ l.id \in {0, request[r].id}
  <2>1. CASE Judgments!AppendLine(r)
    <3>1. Judgments!LineOf(request[r]) \in Line /\ Judgments!LineOf(request[r]).id = request[r].id
      BY <1>2 DEF Judgments!LineOf, Creation, Line
    <3>2. QED
      BY <2>1, <3>1 DEF Judgments!AppendLine
  <2>2. CASE Judgments!AppendTorn(r)
    BY <2>2, BadHasNoId DEF Judgments!AppendTorn
  <2>3. QED
    BY <2>1, <2>2
<1>6. PICK n \in Nat : /\ DOMAIN lines' = 1..(n + 1) /\ n \in {Len(lines), Len(lines) - 1}
                       /\ \A k \in 1..n : lines'[k] = lines[k]
                       /\ lines'[n + 1] \in {l, Judgments!Bad}
  BY <1>5, AppendIsLast
<1>7. lines' \in Lines
  BY <1>5, AppendIsLast
<1>8. lines' # <<>>
  BY <1>6
<1>9. (1..n) \subseteq DOMAIN lines
  <2>1. Len(lines) \in Nat /\ DOMAIN lines = 1..Len(lines)
    BY SequenceIsFunction DEF JudgmentsInv, Lines
  <2>2. PICK m \in Nat : m = Len(lines)
    BY <2>1
  <2>3. n = m \/ n = m - 1
    BY <1>6, <2>2
  <2>4. n <= m
    BY <2>3
  <2>5. QED
    BY <2>1, <2>2, <2>4
<1>10. lines'[n + 1].id \in {0, request[r].id}
  BY <1>5, <1>6, BadHasNoId
<1>11. \A i \in DOMAIN lines' : i \in 1..n \/ i = n + 1
  BY <1>6
<1>12. request[r].id \in 1..made /\ \A i \in DOMAIN lines : lines[i].id # request[r].id
  BY <1>2 DEF JudgmentsInv
<1>13. \A i \in DOMAIN lines' : lines'[i].id \in 0..made
  <2>1. \A i \in 1..n : lines'[i].id \in 0..made
    BY <1>6, <1>9 DEF JudgmentsInv
  <2>2. lines'[n + 1].id \in 0..made
    BY <1>10, <1>12 DEF JudgmentsInv
  <2>3. QED
    BY <1>11, <2>1, <2>2
<1>14. \A i, k \in DOMAIN lines' : lines'[i].id = lines'[k].id /\ lines'[i].id # 0 => i = k
  <2>1. \A i, k \in 1..n : lines'[i].id = lines'[k].id /\ lines'[i].id # 0 => i = k
    BY <1>6, <1>9 DEF JudgmentsInv
  <2>2. \A i \in 1..n : lines'[i].id # request[r].id
    BY <1>6, <1>9, <1>12
  <2>3. QED
    BY <1>10, <1>11, <2>1, <2>2
<1>15. \A s \in Judging : request'[s] \in Creation =>
         s # r /\ request'[s] = request[s] /\ request[s].id # request[r].id
  BY <1>2, <1>3, FreeIsNoCreation DEF JudgmentsInv
<1>16. \A s \in Judging : request'[s] \in Creation =>
         request'[s].id \in 1..made /\ \A i \in DOMAIN lines' : lines'[i].id # request'[s].id
  <2> SUFFICES ASSUME NEW s \in Judging, request'[s] \in Creation, NEW i \in DOMAIN lines'
               PROVE  request'[s].id \in 1..made /\ lines'[i].id # request'[s].id
    BY <1>15 DEF JudgmentsInv
  <2>1. request[s] \in Creation /\ request'[s] = request[s] /\ request[s].id # request[r].id
    BY <1>15
  <2>2. request[s].id \in 1..made /\ \A k \in DOMAIN lines : lines[k].id # request[s].id
    BY <2>1 DEF JudgmentsInv
  <2>3. QED
    BY <1>6, <1>9, <1>10, <1>11, <2>1, <2>2
<1>17. \A s, t \in Judging : request'[s] \in Creation /\ request'[t] \in Creation
                             /\ request'[s].id = request'[t].id => s = t
  BY <1>15 DEF JudgmentsInv
<1>18. JudgmentsInv'
  BY <1>1, <1>3, <1>7, <1>8, <1>13, <1>14, <1>16, <1>17 DEF JudgmentsInv
<1>19. QED
  BY <1>1, <1>4, <1>18

\* A rewrite keeps the id of what it keeps, and what else was loaded.
LEMMA RewriteKeepsOthers ==
    ASSUME JudgmentsInv, Judgments!Patch \/ Judgments!Delete
    PROVE  /\ JudgmentsInv'
           /\ \E id : \A j \in Judgments!Readable :
                 j.id # id => j \in Judgments!Range(Judgments!Load(lines'))
<1>1. PICK js : js = Judgments!Load(lines)
  OBVIOUS
<1>2. lines \in Lines
  BY DEF JudgmentsInv
<1>3. PICK at \in [DOMAIN js -> DOMAIN lines] :
        /\ \A k \in DOMAIN js : js[k] = lines[at[k]]
        /\ \A k, l \in DOMAIN js : at[k] = at[l] => k = l
  BY <1>1, <1>2, LoadTakesWhatParses
<1>4. js \in Seq(Line)
  BY <1>1, <1>2, LoadTakesWhatParses
<1>5. /\ Len(js) \in Nat /\ DOMAIN js = 1..Len(js) /\ js \in [1..Len(js) -> Line]
      /\ \A k \in DOMAIN js : js[k] \in Line
  BY <1>4, SequenceIsFunction
<1>6. Judgments!Readable = {js[k] : k \in DOMAIN js}
  BY <1>1 DEF Judgments!Readable, Judgments!Range
<1>7. UNCHANGED <<request, made>> /\ ended' = TRUE /\ edits' \in Nat
  BY DEF Judgments!Patch, Judgments!Delete, Judgments!Rewritten, JudgmentsInv
<1>8. CASE Judgments!Patch
  <2>1. PICK id : lines' = Judgments!Patched(js, id)
    BY <1>1, <1>8 DEF Judgments!Patch, Judgments!Rewritten
  <2>2. lines' = [k \in DOMAIN js |-> IF js[k].id = id THEN [js[k] EXCEPT !.active = ~@] ELSE js[k]]
    BY <2>1 DEF Judgments!Patched
  <2>3. \A j \in Line : [j EXCEPT !.active = ~@] \in Line /\ [j EXCEPT !.active = ~@].id = j.id
    BY DEF Line
  <2>4. \A k \in DOMAIN js : lines'[k] \in Line /\ lines'[k].id = js[k].id
                             /\ (js[k].id # id => lines'[k] = js[k])
    BY <1>5, <2>2, <2>3
  <2>5. lines' \in [1..Len(js) -> Line \cup {Judgments!Bad}]
    BY <1>5, <2>2, <2>4
  <2>6. lines' \in Lines /\ DOMAIN lines' = DOMAIN js
    BY <1>5, <2>5, FunctionIsSequence DEF Lines
  <2>7. JudgmentsInv'
    BY <1>3, <1>7, <2>4, <2>6, LinesAreReplaced
  <2>8. \A j \in Judgments!Readable : j.id # id => j \in Judgments!Range(Judgments!Load(lines'))
    <3>1. \A k \in DOMAIN js : js[k].id # id => js[k] \in {lines'[i] : i \in DOMAIN lines'} \ {Judgments!Bad}
      BY <1>5, <2>4, <2>6, BadHasNoId
    <3>2. QED
      BY <1>6, <2>6, <3>1, LoadedIsWhatParses
  <2>9. QED
    BY <1>7, <2>7, <2>8
<1>9. CASE Judgments!Delete
  <2> DEFINE Kept(id) == {k \in DOMAIN js : js[k].id # id}
  <2>1. PICK id : lines' = Only(js, Kept(id))
    BY <1>1, <1>9, JudgmentsTakeOnly DEF Judgments!Delete, Judgments!Rewritten, Judgments!Where
  <2>2. PICK places : places = Kept(id)
    OBVIOUS
  <2>3. places \in SUBSET DOMAIN js /\ lines' = Only(js, places)
    BY <2>1, <2>2
  <2>4. /\ lines' \in Seq(Line)
        /\ \A k \in DOMAIN lines' : Nth(places, k) \in places /\ lines'[k] = js[Nth(places, k)]
        /\ \A k, l \in DOMAIN lines' : Nth(places, k) = Nth(places, l) => k = l
        /\ \A i \in places : \E k \in DOMAIN lines' : lines'[k] = js[i]
    BY <1>4, <2>3, OnlyTakesThePlaces
  <2>5. lines' \in Lines
    <3>1. /\ Len(lines') \in Nat /\ DOMAIN lines' = 1..Len(lines')
          /\ lines' \in [1..Len(lines') -> Line]
      BY <2>4, SequenceIsFunction
    <3>2. lines' \in [1..Len(lines') -> Line \cup {Judgments!Bad}]
      BY <3>1
    <3>3. QED
      BY <3>1, <3>2, FunctionIsSequence DEF Lines
  <2>6. PICK from : from = [k \in DOMAIN lines' |-> at[Nth(places, k)]]
    OBVIOUS
  <2>7. \A k \in DOMAIN lines' : Nth(places, k) \in DOMAIN js
    BY <2>3, <2>4
  <2>8. /\ from \in [DOMAIN lines' -> DOMAIN lines]
        /\ \A k \in DOMAIN lines' : lines'[k].id \in {0, lines[from[k]].id}
        /\ \A k, l \in DOMAIN lines' : from[k] = from[l] => k = l
    BY <1>3, <2>4, <2>6, <2>7
  <2>9. JudgmentsInv'
    BY <1>7, <2>5, <2>8, LinesAreReplaced
  <2>10. \A j \in Judgments!Readable : j.id # id => j \in Judgments!Range(Judgments!Load(lines'))
    <3>1. \A k \in DOMAIN js : js[k].id # id => js[k] \in {lines'[i] : i \in DOMAIN lines'} \ {Judgments!Bad}
      <4> SUFFICES ASSUME NEW k \in DOMAIN js, js[k].id # id
                   PROVE  js[k] \in {lines'[i] : i \in DOMAIN lines'} \ {Judgments!Bad}
        OBVIOUS
      <4>1. k \in places
        BY <2>2
      <4>2. QED
        BY <1>5, <2>4, <4>1, BadHasNoId
    <3>2. QED
      BY <1>6, <2>5, <3>1, LoadedIsWhatParses
  <2>11. QED
    BY <1>7, <2>9, <2>10
<1>10. QED
  BY <1>8, <1>9

\* A person who edits the file leaves every line its id or none.
LEMMA EditKeepsIds == ASSUME JudgmentsInv, Judgments!EditByHand PROVE JudgmentsInv'
<1>1. UNCHANGED <<request, made>> /\ lines # <<>> /\ edits' \in Nat
  BY DEF Judgments!EditByHand, JudgmentsInv
<1>2. lines \in Seq(Line \cup {Judgments!Bad})
  BY DEF JudgmentsInv, Lines
<1>3. \/ lines' = lines
      \/ \E i \in DOMAIN lines : lines' = [lines EXCEPT ![i] = Judgments!Bad]
  BY DEF Judgments!EditByHand
<1>4. /\ Len(lines) \in Nat /\ DOMAIN lines = 1..Len(lines)
      /\ lines \in [1..Len(lines) -> Line \cup {Judgments!Bad}]
  BY <1>2, SequenceIsFunction
<1>5. /\ lines' \in [1..Len(lines) -> Line \cup {Judgments!Bad}]
      /\ \A k \in DOMAIN lines : lines'[k] \in {Judgments!Bad, lines[k]}
  BY <1>3, <1>4
<1>6. lines' \in Lines /\ DOMAIN lines' = DOMAIN lines
  BY <1>4, <1>5, FunctionIsSequence DEF Lines
<1>7. lines' # <<>>
  <2>1. Len(lines) # 0
    BY <1>1, <1>2
  <2>2. QED
    BY <1>4, <1>6, <2>1
<1>8. PICK at : at = [k \in DOMAIN lines |-> k]
  OBVIOUS
<1>9. /\ at \in [DOMAIN lines' -> DOMAIN lines]
      /\ \A k \in DOMAIN lines' : lines'[k].id \in {0, lines[at[k]].id}
      /\ \A k, l \in DOMAIN lines' : at[k] = at[l] => k = l
  BY <1>5, <1>6, <1>8, BadHasNoId
<1>10. QED
  BY <1>1, <1>6, <1>7, <1>9, LinesAreReplaced

\* Of the judgments that can be read at most one has a given id.
LEMMA OneOfAnId ==
    ASSUME JudgmentsInv, NEW id, NEW S, S \subseteq {j \in Judgments!Readable : j.id = id}
    PROVE  Judgments!Cardinality(S) <= 1
<1>1. Judgments!Readable = {lines[i] : i \in DOMAIN lines} \ {Judgments!Bad}
  BY LoadedIsWhatParses DEF JudgmentsInv, Judgments!Readable
<1>2. \A i \in DOMAIN lines : lines[i] # Judgments!Bad => lines[i].id # 0
  <2>1. \A i \in DOMAIN lines : lines[i] \in Line \cup {Judgments!Bad}
    BY SequenceIsFunction DEF JudgmentsInv, Lines
  <2>2. QED
    BY <2>1, BadHasNoId
<1>3. \A a, b \in S : a = b
  BY <1>1, <1>2 DEF JudgmentsInv
<1>4. S = {} \/ \E a : S = {a}
  BY <1>3
<1>5. Cardinality(S) \in {0, 1}
  BY <1>4, FS_EmptySet, FS_Singleton
<1>6. QED
  BY <1>5 DEF Judgments!Cardinality, Cardinality

LEMMA JudgmentsGoOn ==
    ASSUME JudgmentsInv, Judgments!Next
    PROVE  JudgmentsInv' /\ Judgments!RewritesTouchOne
<1>1. \/ \E r \in Judging : Judgments!Create(r) \/ Judgments!ResolveRelevant(r)
      \/ \E r \in Judging : Judgments!AppendLine(r) \/ Judgments!AppendTorn(r)
      \/ Judgments!Patch \/ Judgments!Delete \/ Judgments!EditByHand
      \/ Judgments!Promote \/ Judgments!Publish
  BY DEF Judgments!Next
<1>2. ASSUME UNCHANGED lines PROVE Judgments!RewritesTouchOne
  <2>1. Judgments!Readable \ Judgments!Range(Judgments!Load(lines')) = {}
    BY <1>2 DEF Judgments!Readable
  <2>2. Judgments!Cardinality({}) <= 1
    BY OneOfAnId
  <2>3. QED
    BY <2>1, <2>2 DEF Judgments!RewritesTouchOne
<1>3. CASE \E r \in Judging : Judgments!Create(r) \/ Judgments!ResolveRelevant(r)
  BY <1>2, <1>3, CreationGoesOn
<1>4. CASE \E r \in Judging : Judgments!AppendLine(r) \/ Judgments!AppendTorn(r)
  BY <1>4, CreationEnds DEF Judgments!RewritesTouchOne
<1>5. CASE Judgments!Patch \/ Judgments!Delete
  <2>1. JudgmentsInv'
    BY <1>5, RewriteKeepsOthers
  <2>2. PICK id : \A j \in Judgments!Readable :
          j.id # id => j \in Judgments!Range(Judgments!Load(lines'))
    BY <1>5, RewriteKeepsOthers
  <2>3. Judgments!Cardinality(Judgments!Readable \ Judgments!Range(Judgments!Load(lines'))) <= 1
    BY <2>2, OneOfAnId
  <2>4. QED
    BY <2>1, <2>3 DEF Judgments!RewritesTouchOne
<1>6. CASE Judgments!EditByHand
  <2>1. edits' # edits
    BY <1>6 DEF Judgments!EditByHand, JudgmentsInv
  <2>2. QED
    BY <1>6, <2>1, EditKeepsIds DEF Judgments!RewritesTouchOne
<1>7. CASE Judgments!Promote \/ Judgments!Publish
  <2>1. UNCHANGED <<lines, ended, request, made, edits>>
    BY <1>7 DEF Judgments!Promote, Judgments!Publish
  <2>2. JudgmentsInv'
    BY <2>1 DEF JudgmentsInv
  <2>3. QED
    BY <1>2, <2>1, <2>2
<1>8. QED
  BY <1>1, <1>3, <1>4, <1>5, <1>6, <1>7

LEMMA JudgmentsStay ==
    ASSUME JudgmentsInv, UNCHANGED judgmentsVars
    PROVE  JudgmentsInv' /\ Judgments!RewritesTouchOne
<1>1. UNCHANGED <<lines, ended, request, made, edits>>
  BY DEF judgmentsVars
<1>2. JudgmentsInv'
  BY <1>1 DEF JudgmentsInv
<1>3. Judgments!Readable \ Judgments!Range(Judgments!Load(lines')) = {}
  BY <1>1 DEF Judgments!Readable
<1>4. Judgments!Cardinality({}) <= 1
  BY OneOfAnId
<1>5. QED
  BY <1>1, <1>2, <1>3, <1>4 DEF Judgments!RewritesTouchOne

\* A step of the whole about the judgments.
LEMMA JudgmentsStepOrStay ==
    ASSUME part = "judgments" => JudgmentsInv, [Next]_vars, part = "judgments"
    PROVE  JudgmentsInv' /\ Judgments!RewritesTouchOne
<1>1. CASE JudgmentsStep
  BY <1>1, JudgmentsGoOn DEF JudgmentsStep
<1>2. CASE UNCHANGED vars
  BY <1>2, JudgmentsStay DEF vars
<1>3. QED
  BY <1>1, <1>2 DEF Next, ScoreStep, DetectorsStep, BundleStep, PromotionStep, PromoterStep, TriageStep

LEMMA JudgmentsAlways == Spec => [](part = "judgments" => JudgmentsInv)
<1>1. Init => (part = "judgments" => JudgmentsInv)
  BY JudgmentsStart DEF Init
<1>2. [Next]_vars => part' = part
  BY DEF Next, vars, ScoreStep, DetectorsStep, JudgmentsStep, BundleStep, PromotionStep,
     PromoterStep, TriageStep
<1>3. (part = "judgments" => JudgmentsInv) /\ [Next]_vars => (part = "judgments" => JudgmentsInv)'
  BY <1>2, JudgmentsStepOrStay
<1>4. QED
  BY <1>1, <1>3, PTL DEF Spec

----------------------------------------------------------------------------
(* Feedback and its triage *)

\* A recommendation that needs no person names classes that are known and the lever of one.
Earned(r) ==
    (~r.manual /\ ~r.edited) =>
        /\ r.classes # <<>> /\ Triage!Range(r.classes) \subseteq Classes
        /\ IF \E c \in Triage!Range(r.classes) : LeversOfClass[c] # <<>>
           THEN \E c \in Triage!Range(r.classes) : r.lever \in Triage!Range(LeversOfClass[c])
           ELSE r.lever = Nil

SomeLevers == {Nil} \cup UNION {Triage!Range(LeversOfClass[c]) : c \in Classes}
SomeRefs == SUBSET (FinalRefs \cup DroppedRefs)
Result == {r \in [made : {TRUE}, of : Comments \cup {Nil}, classes : Seq(Classes), refs : SomeRefs,
                  manual : BOOLEAN, confirmed : BOOLEAN, lever : SomeLevers, edited : BOOLEAN] : Earned(r)}
Document == [there : {TRUE}, rating : Ratings \cup {Nil}, scores : SUBSET Dims,
             comment : Comments \cup {Nil}, result : {Triage!NoResult} \cup Result,
             status : {Nil, "proposed", "confirmed", "rejected", "edited"}]
Pending == [op : {"put", "triage", "decide"}, body : Triage!Bodies \cup {Triage!NoDoc},
            read : {Triage!NoDoc} \cup Document, at : Nat]

\* A request that began after the last write has read what is stored.
TriageInv ==
    /\ feedback \in {Triage!NoDoc} \cup Document /\ writes \in Nat
    /\ pages \in [Reviewers -> {Triage!Free} \cup Pending]
    /\ \A p \in Reviewers : pages[p] \in Pending =>
          /\ pages[p].at <= writes /\ (pages[p].at = writes => pages[p].read = feedback)
          /\ IF pages[p].op = "put" THEN pages[p].body \in Triage!Bodies ELSE pages[p].read \in Document

LEMMA FreeIsNotPending == Triage!Free \notin Pending /\ \A l \in Pending : l # Triage!Free /\ l.op # "free"
BY DEF Triage!Free, Pending

LEMMA NoDocIsNotThere == ~Triage!NoDoc.there /\ \A d \in Document : d.there
BY DEF Triage!NoDoc, Document

LEMMA TriageTakesOnly ==
    ASSUME NEW s, NEW places, NEW k
    PROVE  Triage!Only(s, places) = Only(s, places) /\ Triage!Nth(places, k) = Nth(places, k)
BY DEF Triage!Only, Only, Triage!Nth, Nth, Triage!Cardinality, Cardinality

\* The lever that is proposed is one of a class that has some, whichever classes there are.
LEMMA ProposedIsALever ==
    ASSUME NEW classes \in Seq(Classes)
    PROVE  /\ Triage!Proposed(classes) \in SomeLevers
           /\ IF \E c \in Triage!Range(classes) : LeversOfClass[c] # <<>>
              THEN \E c \in Triage!Range(classes) :
                      Triage!Proposed(classes) \in Triage!Range(LeversOfClass[c])
              ELSE Triage!Proposed(classes) = Nil
<1> DEFINE with == {i \in DOMAIN classes : classes[i] \in Classes /\ LeversOfClass[classes[i]] # <<>>}
<1>1. Len(classes) \in Nat /\ DOMAIN classes = 1..Len(classes) /\ \A i \in DOMAIN classes : classes[i] \in Classes
  BY SequenceIsFunction
<1>2. Triage!Proposed(classes) =
        IF with = {} THEN Nil ELSE Head(LeversOfClass[classes[Nth(with, 1)]])
  BY TriageTakesOnly DEF Triage!Proposed, Triage!Where
<1>3. Triage!Range(classes) = {classes[i] : i \in DOMAIN classes}
  BY DEF Triage!Range
<1>4. CASE with = {}
  <2>1. \A c \in Triage!Range(classes) : LeversOfClass[c] = <<>>
    BY <1>1, <1>3, <1>4
  <2>2. QED
    BY <1>2, <1>4, <2>1 DEF SomeLevers
<1>5. CASE with # {}
  <2>1. with \in SUBSET (1..Len(classes)) /\ IsFiniteSet(1..Len(classes)) /\ (1..Len(classes)) \in SUBSET Int
    BY <1>1, FS_Interval
  <2> HIDE DEF with
  <2>2. IsFiniteSet(with) /\ with \in SUBSET Int
    BY <2>1, FS_Subset
  <2>3. Cardinality(with) \in Nat /\ Cardinality(with) # 0
    BY <1>5, <2>2, FS_CardinalityType, FS_EmptySet
  <2>4. 1 \in 1..Cardinality(with)
    BY <2>3
  <2>5. PICK i : i = Nth(with, 1) /\ i \in with
    BY <2>2, <2>4, PlacesHaveRanks
  <2>6. i \in DOMAIN classes /\ classes[i] \in Classes /\ LeversOfClass[classes[i]] # <<>>
    BY <2>5 DEF with
  <2>7. LeversOfClass[classes[i]] \in Seq(Triage!Range(LeversOfClass[classes[i]]))
    BY <2>6, TriageAssumption DEF Triage!Assumptions
  <2>8. Head(LeversOfClass[classes[i]]) \in Triage!Range(LeversOfClass[classes[i]])
    BY <2>6, <2>7
  <2>9. Triage!Proposed(classes) \in Triage!Range(LeversOfClass[classes[i]])
    BY <1>2, <1>5, <2>5, <2>8
  <2>10. classes[i] \in Triage!Range(classes)
    BY <1>3, <2>6
  <2>11. Triage!Proposed(classes) \in SomeLevers
    BY <2>6, <2>9 DEF SomeLevers
  <2>12. QED
    BY <2>6, <2>9, <2>10, <2>11
<1>6. QED
  BY <1>4, <1>5

\* Whatever a model answers, what is made of it is a result.
LEMMA RepliesMakeResults ==
    ASSUME NEW comment \in Comments \cup {Nil}, NEW reply \in Triage!Replies, NEW layer \in BOOLEAN
    PROVE  Triage!ResultOf(comment, reply, layer) \in Result
<1>1. reply.classes \in Seq(Classes \cup {Foreign}) /\ reply.refs \in SomeRefs /\ reply.sure \in BOOLEAN
  <2>1. CASE reply = [json |-> FALSE, classes |-> <<>>, refs |-> {}, sure |-> FALSE]
    BY <2>1 DEF SomeRefs
  <2>2. CASE reply # [json |-> FALSE, classes |-> <<>>, refs |-> {}, sure |-> FALSE]
    <3> DEFINE named == {<<c>> : c \in Classes \cup {Foreign}} \cup {<<Foreign, c>> : c \in Classes}
                        \cup {<<c, d>> : c, d \in Classes}
               refs == {{}} \cup {{r} : r \in FinalRefs \cup DroppedRefs \cup {}}
               nothing == [json |-> FALSE, classes |-> <<>>, refs |-> {}, sure |-> FALSE]
    <3>1. Triage!Replies = {nothing} \cup [json : {TRUE}, classes : named, refs : refs, sure : BOOLEAN]
      BY DEF Triage!Replies
    <3>2. reply # nothing
      BY <2>2
    <3>3. reply.classes \in named /\ reply.refs \in refs /\ reply.sure \in BOOLEAN
      <4> HIDE DEF named, refs, nothing
      <4>1. QED
        BY <3>1, <3>2
    <3>4. /\ \A c \in Classes \cup {Foreign} : <<c>> \in Seq(Classes \cup {Foreign})
          /\ \A c, d \in Classes \cup {Foreign} : <<c, d>> \in Seq(Classes \cup {Foreign})
      OBVIOUS
    <3>5. named \subseteq Seq(Classes \cup {Foreign})
      <4> SUFFICES ASSUME NEW s \in named PROVE s \in Seq(Classes \cup {Foreign})
        OBVIOUS
      <4>1. \/ \E c \in Classes \cup {Foreign} : s = <<c>>
            \/ \E c, d \in Classes \cup {Foreign} : s = <<c, d>>
        OBVIOUS
      <4>2. CASE \E c \in Classes \cup {Foreign} : s = <<c>>
        <5> HIDE DEF named, refs, nothing
        <5>1. QED
          BY <3>4, <4>2, Zenon
      <4>3. CASE \E c, d \in Classes \cup {Foreign} : s = <<c, d>>
        <5> HIDE DEF named, refs, nothing
        <5>1. QED
          BY <3>4, <4>3, Zenon
      <4>4. QED
        BY <4>1, <4>2, <4>3
    <3>6. refs \subseteq SomeRefs
      BY DEF SomeRefs
    <3>7. QED
      <4> HIDE DEF named, refs, nothing
      <4>1. QED
        BY <3>3, <3>5, <3>6
  <2>3. QED
    BY <2>1, <2>2
<1> DEFINE known == {i \in DOMAIN reply.classes : reply.classes[i] \in Classes}
<1>2. PICK classes : classes = Only(reply.classes, known)
  OBVIOUS
<1>3. Triage!Parsed(reply) = [classes |-> classes, refs |-> reply.refs,
                              manual |-> classes = <<>> \/ ~reply.sure]
  BY <1>2, TriageTakesOnly DEF Triage!Parsed, Triage!Where
<1>4. classes \in Seq(Classes)
  <2>1. /\ classes \in Seq(Classes \cup {Foreign})
        /\ \A k \in DOMAIN classes : Nth(known, k) \in known /\ classes[k] = reply.classes[Nth(known, k)]
    <3>1. known \in SUBSET DOMAIN reply.classes
      OBVIOUS
    <3> HIDE DEF known
    <3>2. QED
      BY <1>1, <1>2, <3>1, OnlyTakesThePlaces
  <2>2. Len(classes) \in Nat /\ DOMAIN classes = 1..Len(classes) /\ classes \in [1..Len(classes) -> Classes \cup {Foreign}]
    BY <2>1, SequenceIsFunction
  <2>3. \A k \in 1..Len(classes) : classes[k] \in Classes
    BY <2>1, <2>2
  <2>4. classes \in [1..Len(classes) -> Classes]
    BY <2>2, <2>3
  <2>5. QED
    BY <2>2, <2>4, FunctionIsSequence
<1> HIDE DEF known
<1>5. PICK parsed : parsed = Triage!Parsed(reply)
  OBVIOUS
<1>6. /\ parsed.classes = classes /\ parsed.refs = reply.refs
      /\ parsed.manual = (classes = <<>> \/ ~reply.sure)
  BY <1>3, <1>5
<1>7. PICK r : r = Triage!ResultOf(comment, reply, layer)
  OBVIOUS
<1>8. r = [made |-> TRUE, of |-> comment, classes |-> classes, refs |-> reply.refs,
           manual |-> parsed.manual, confirmed |-> Triage!Confirmed(parsed, layer),
           lever |-> Triage!Proposed(classes), edited |-> FALSE]
  BY <1>5, <1>6, <1>7 DEF Triage!ResultOf
<1>9. Triage!Confirmed(parsed, layer) \in BOOLEAN /\ parsed.manual \in BOOLEAN
  BY <1>6 DEF Triage!Confirmed
<1>10. Triage!Proposed(classes) \in SomeLevers
  BY <1>4, ProposedIsALever
<1>11. Earned(r)
  <2>1. Triage!Range(classes) \subseteq Classes
    BY <1>4, SequenceIsFunction DEF Triage!Range
  <2>2. r.manual = parsed.manual /\ r.classes = classes /\ r.lever = Triage!Proposed(classes)
    BY <1>8
  <2>3. ~r.manual => classes # <<>>
    BY <1>6, <2>2
  <2>4. QED
    BY <1>4, <2>1, <2>2, <2>3, ProposedIsALever DEF Earned
<1>12. QED
  BY <1>1, <1>4, <1>7, <1>8, <1>9, <1>10, <1>11 DEF Result

LEMMA TriageStarts == Triage!Init => TriageInv
BY FreeIsNotPending DEF Triage!Init, TriageInv

\* A request that begins reads the document.
LEMMA RequestBegins ==
    ASSUME TriageInv, NEW p \in Reviewers,
           Triage!PutRead(p) \/ Triage!TriageRead(p) \/ Triage!DecideRead(p)
    PROVE  TriageInv' /\ UNCHANGED writes
<1>1. PICK op \in {"put", "triage", "decide"}, body \in Triage!Bodies \cup {Triage!NoDoc} :
        /\ Triage!Starts(p, Triage!Request(op, body))
        /\ op = "put" => body \in Triage!Bodies
        /\ op # "put" => feedback.there
  BY DEF Triage!PutRead, Triage!TriageRead, Triage!DecideRead
<1>2. PICK l0, l : l0 = Triage!Request(op, body) /\ l = [l0 EXCEPT !.read = feedback, !.at = writes]
  OBVIOUS
<1>3. pages' = [pages EXCEPT ![p] = l] /\ UNCHANGED <<feedback, writes>>
  BY <1>1, <1>2 DEF Triage!Starts
<1>4. l \in Pending /\ l.op = op /\ l.body = body /\ l.read = feedback /\ l.at = writes
  <2>1. l0 \in Pending /\ l0.op = op /\ l0.body = body
    BY <1>2 DEF Triage!Request, Pending
  <2>2. QED
    BY <1>2, <2>1 DEF TriageInv, Pending
<1>5. op # "put" => feedback \in Document
  BY <1>1, NoDocIsNotThere DEF TriageInv
<1>6. /\ pages' \in [Reviewers -> {Triage!Free} \cup Pending]
      /\ pages'[p] = l /\ \A q \in Reviewers \ {p} : pages'[q] = pages[q]
  BY <1>3, <1>4 DEF TriageInv
<1>7. \A q \in Reviewers : pages'[q] \in Pending =>
        /\ pages'[q].at <= writes /\ (pages'[q].at = writes => pages'[q].read = feedback)
        /\ IF pages'[q].op = "put" THEN pages'[q].body \in Triage!Bodies ELSE pages'[q].read \in Document
  BY <1>1, <1>4, <1>5, <1>6 DEF TriageInv
<1>8. QED
  BY <1>3, <1>6, <1>7 DEF TriageInv

\* When the document is written nobody has read what is stored now.
LEMMA DocumentIsReplaced ==
    ASSUME TriageInv, feedback' \in {Triage!NoDoc} \cup Document, writes' = writes + 1,
           pages' \in [Reviewers -> {Triage!Free} \cup Pending],
           \A q \in Reviewers : pages'[q] = pages[q] \/ pages'[q] = Triage!Free
    PROVE  TriageInv'
<1>1. \A q \in Reviewers : pages'[q] \in Pending =>
        /\ pages'[q] = pages[q] /\ pages[q].at \in Nat /\ pages[q].at <= writes
        /\ IF pages[q].op = "put" THEN pages[q].body \in Triage!Bodies ELSE pages[q].read \in Document
  BY FreeIsNotPending DEF TriageInv, Pending
<1>2. writes \in Nat /\ writes' \in Nat
  BY DEF TriageInv
<1>3. \A q \in Reviewers : pages'[q] \in Pending =>
        /\ pages'[q].at <= writes' /\ (pages'[q].at = writes' => pages'[q].read = feedback')
        /\ IF pages'[q].op = "put" THEN pages'[q].body \in Triage!Bodies ELSE pages'[q].read \in Document
  BY <1>1, <1>2
<1>4. QED
  BY <1>2, <1>3 DEF TriageInv

\* What a request writes is a document that keeps of the one it read what it does not set.
LEMMA RequestWrites ==
    ASSUME TriageInv, NEW p \in Reviewers,
           Triage!PutWrite(p) \/ Triage!TriageWrite(p) \/ Triage!DecideWrite(p)
    PROVE  /\ writes' = writes + 1 /\ feedback' \in Document /\ pages[p] \in Pending
           /\ pages' = [pages EXCEPT ![p] = Triage!Free]
           /\ LET old == pages[p].read IN
              old.there =>
                 /\ old.scores \subseteq feedback'.scores
                 /\ pages[p].op = "put" => feedback'.result = old.result /\ feedback'.status = old.status
                 /\ pages[p].op # "put" => feedback'.comment = old.comment /\ feedback'.rating = old.rating
<1>1. pages[p].op \in {"put", "triage", "decide"}
  BY DEF Triage!PutWrite, Triage!TriageWrite, Triage!DecideWrite
<1>2. pages[p] \in Pending
  BY <1>1 DEF TriageInv, Triage!Free
<1>3. PICK old : old = pages[p].read
  OBVIOUS
<1>4. writes' = writes + 1 /\ pages' = [pages EXCEPT ![p] = Triage!Free]
  BY DEF Triage!PutWrite, Triage!TriageWrite, Triage!DecideWrite, Triage!Writes
<1>5. CASE Triage!PutWrite(p)
  <2>1. PICK b \in Triage!Bodies : b = pages[p].body
    BY <1>2, <1>5 DEF TriageInv, Triage!PutWrite
  <2>2. pages[p].op = "put" /\ feedback' = Triage!Merged(old, b) /\ old \in {Triage!NoDoc} \cup Document
    BY <1>2, <1>3, <1>5, <2>1 DEF Triage!PutWrite, Triage!Writes, Pending
  <2>3. b.rating \in Ratings \cup {Nil} /\ b.scores \in SUBSET Dims /\ b.comment \in Comments \cup {Nil}
    BY <2>1 DEF Triage!Bodies
  <2>4. PICK base \in Document : /\ base = IF old.there THEN old ELSE Triage!Fresh
                                 /\ old.there => base = old
    <3>1. Triage!Fresh \in Document
      BY DEF Triage!Fresh, Document
    <3>2. QED
      BY <2>2, <3>1, NoDocIsNotThere
  <2>5. feedback' = [base EXCEPT !.rating = IF b.rating = Nil THEN @ ELSE b.rating,
                        !.scores = @ \cup b.scores, !.comment = IF b.comment = Nil THEN @ ELSE b.comment]
    BY <2>2, <2>4 DEF Triage!Merged
  <2>6. /\ feedback' \in Document /\ base.scores \subseteq feedback'.scores
        /\ feedback'.result = base.result /\ feedback'.status = base.status
    BY <2>3, <2>5 DEF Document
  <2>7. QED
    BY <1>2, <1>3, <1>4, <2>2, <2>4, <2>6
<1>6. ASSUME pages[p].op # "put" PROVE old \in Document
  BY <1>2, <1>3, <1>6 DEF TriageInv
<1>7. CASE Triage!TriageWrite(p)
  <2>1. pages[p].op = "triage"
    BY <1>7 DEF Triage!TriageWrite
  <2>2. PICK reply \in Triage!Replies, layer \in BOOLEAN :
          feedback' = [old EXCEPT !.result = Triage!ResultOf(old.comment, reply, layer), !.status = "proposed"]
    BY <1>3, <1>7 DEF Triage!TriageWrite, Triage!Writes
  <2>3. old \in Document /\ old.comment \in Comments \cup {Nil}
    BY <1>6, <2>1 DEF Document
  <2>4. Triage!ResultOf(old.comment, reply, layer) \in Result
    BY <2>3, RepliesMakeResults
  <2>5. /\ feedback' \in Document /\ old.scores = feedback'.scores
        /\ feedback'.comment = old.comment /\ feedback'.rating = old.rating
    BY <2>2, <2>3, <2>4 DEF Document
  <2>6. QED
    BY <1>2, <1>3, <1>4, <2>1, <2>5
<1>8. CASE Triage!DecideWrite(p)
  <2>1. pages[p].op = "decide"
    BY <1>8 DEF Triage!DecideWrite, Triage!Writes
  <2>2. old \in Document /\ old.result \in {Triage!NoResult} \cup Result
    BY <1>6, <2>1 DEF Document
  <2>3. PICK status \in {"confirmed", "rejected", "edited"}, result \in {Triage!NoResult} \cup Result :
          feedback' = [old EXCEPT !.status = status, !.result = result]
    <3>1. CASE \E ruling \in {"confirmed", "rejected"} : Triage!Writes(p, "decide", [old EXCEPT !.status = ruling])
      <4>1. PICK ruling \in {"confirmed", "rejected"} : feedback' = [old EXCEPT !.status = ruling]
        BY <3>1 DEF Triage!Writes
      <4>2. [old EXCEPT !.status = ruling] = [old EXCEPT !.status = ruling, !.result = old.result]
        BY <2>2 DEF Document
      <4>3. QED
        BY <2>2, <4>1, <4>2
    <3>2. ASSUME NEW c \in Classes,
                 Triage!Writes(p, "decide", [old EXCEPT !.status = "edited",
                    !.result = IF @.made THEN [@ EXCEPT !.classes = <<c>>, !.edited = TRUE] ELSE @])
          PROVE  \E status \in {"confirmed", "rejected", "edited"}, result \in {Triage!NoResult} \cup Result :
                    feedback' = [old EXCEPT !.status = status, !.result = result]
      <4>1. PICK result : result = IF old.result.made
                                   THEN [old.result EXCEPT !.classes = <<c>>, !.edited = TRUE] ELSE old.result
        OBVIOUS
      <4>2. feedback' = [old EXCEPT !.status = "edited", !.result = result]
        BY <2>2, <3>2, <4>1 DEF Triage!Writes, Document
      <4>3. CASE old.result \in Result
        <5>1. <<c>> \in Seq(Classes)
          OBVIOUS
        <5>2. result = [old.result EXCEPT !.classes = <<c>>, !.edited = TRUE]
          BY <4>1, <4>3 DEF Result
        <5>3. result.edited
          BY <4>3, <5>2 DEF Result
        <5>4. Earned(result)
          BY <5>3 DEF Earned
        <5>5. QED
          BY <4>2, <4>3, <5>1, <5>2, <5>4 DEF Result
      <4>4. CASE old.result = Triage!NoResult
        <5>1. result = old.result
          BY <4>1, <4>4 DEF Triage!NoResult
        <5>2. QED
          BY <4>2, <4>4, <5>1
      <4>5. QED
        BY <2>2, <4>3, <4>4
    <3>3. QED
      BY <1>3, <1>8, <3>1, <3>2 DEF Triage!DecideWrite
  <2>4. /\ feedback' \in Document /\ old.scores = feedback'.scores
        /\ feedback'.comment = old.comment /\ feedback'.rating = old.rating
    BY <2>2, <2>3 DEF Document
  <2>5. QED
    BY <1>2, <1>3, <1>4, <2>1, <2>4
<1>9. QED
  BY <1>5, <1>7, <1>8

LEMMA TriageGoesOn == ASSUME TriageInv, Triage!Next PROVE TriageInv' /\ Triage!AloneIsKept
<1>1. PICK p \in Reviewers :
        \/ Triage!PutRead(p) \/ Triage!TriageRead(p) \/ Triage!DecideRead(p)
        \/ Triage!PutWrite(p) \/ Triage!TriageWrite(p) \/ Triage!DecideWrite(p)
        \/ Triage!TriageFails(p) \/ Triage!Delete(p)
  BY DEF Triage!Next
<1>2. CASE Triage!PutRead(p) \/ Triage!TriageRead(p) \/ Triage!DecideRead(p)
  BY <1>2, RequestBegins DEF Triage!AloneIsKept, Triage!Written
<1>3. CASE Triage!PutWrite(p) \/ Triage!TriageWrite(p) \/ Triage!DecideWrite(p)
  <2>1. /\ writes' = writes + 1 /\ feedback' \in Document /\ pages[p] \in Pending
        /\ pages' = [pages EXCEPT ![p] = Triage!Free]
    BY <1>3, RequestWrites
  <2>2. /\ pages' \in [Reviewers -> {Triage!Free} \cup Pending]
        /\ \A q \in Reviewers : pages'[q] = IF q = p THEN Triage!Free ELSE pages[q]
    BY <2>1 DEF TriageInv
  <2>3. TriageInv'
    BY <2>1, <2>2, DocumentIsReplaced
  <2>4. Triage!AloneIsKept
    <3> SUFFICES ASSUME NEW q \in Reviewers, Triage!Written(q), pages[q].at = writes, feedback.there
                 PROVE  /\ feedback.scores \subseteq feedback'.scores
                        /\ pages[q].op = "put" => feedback'.result = feedback.result /\ feedback'.status = feedback.status
                        /\ pages[q].op # "put" => feedback'.comment = feedback.comment /\ feedback'.rating = feedback.rating
      BY DEF Triage!AloneIsKept
    <3>1. q = p
      BY <2>2 DEF Triage!Written
    <3>2. pages[p].read = feedback
      BY <2>1, <3>1 DEF TriageInv
    <3>3. QED
      BY <1>3, <3>1, <3>2, RequestWrites
  <2>5. QED
    BY <2>3, <2>4
<1>4. CASE Triage!TriageFails(p)
  <2>1. pages' = [pages EXCEPT ![p] = Triage!Free] /\ UNCHANGED <<feedback, writes>>
    BY <1>4 DEF Triage!TriageFails
  <2>2. /\ pages' \in [Reviewers -> {Triage!Free} \cup Pending]
        /\ \A q \in Reviewers : pages'[q] = IF q = p THEN Triage!Free ELSE pages[q]
    BY <2>1 DEF TriageInv
  <2>3. QED
    BY <2>1, <2>2, FreeIsNotPending DEF TriageInv, Triage!AloneIsKept, Triage!Written
<1>5. CASE Triage!Delete(p)
  <2>1. feedback' = Triage!NoDoc /\ writes' = writes + 1 /\ UNCHANGED pages
    BY <1>5 DEF Triage!Delete
  <2>2. TriageInv'
    BY <2>1, DocumentIsReplaced DEF TriageInv
  <2>3. QED
    BY <2>1, <2>2 DEF Triage!AloneIsKept, Triage!Written
<1>6. QED
  BY <1>1, <1>2, <1>3, <1>4, <1>5

LEMMA TriageStays == ASSUME TriageInv, UNCHANGED triageVars PROVE TriageInv' /\ Triage!AloneIsKept
BY DEF TriageInv, triageVars, Triage!AloneIsKept, Triage!Written

\* A step of the whole about the feedback.
LEMMA TriageStepOrStay ==
    ASSUME part = "triage" => TriageInv, [Next]_vars, part = "triage"
    PROVE  TriageInv' /\ Triage!AloneIsKept
<1>1. CASE TriageStep
  BY <1>1, TriageGoesOn DEF TriageStep
<1>2. CASE UNCHANGED vars
  BY <1>2, TriageStays DEF vars
<1>3. QED
  BY <1>1, <1>2 DEF Next, ScoreStep, DetectorsStep, JudgmentsStep, BundleStep, PromotionStep, PromoterStep

LEMMA PartStays == [Next]_vars => part' = part
BY DEF Next, vars, ScoreStep, DetectorsStep, JudgmentsStep, BundleStep, PromotionStep,
   PromoterStep, TriageStep

LEMMA TriageAlways == Spec => [](part = "triage" => TriageInv)
<1>1. Init => (part = "triage" => TriageInv)
  BY TriageStarts DEF Init
<1>2. (part = "triage" => TriageInv) /\ [Next]_vars => (part = "triage" => TriageInv)'
  BY PartStays, TriageStepOrStay
<1>3. QED
  BY <1>1, <1>2, PTL DEF Spec

LEMMA TrustedIsEarned == TriageInv => Triage!TrustedHasALever
<1> SUFFICES ASSUME TriageInv, feedback.there, feedback.result.made PROVE Earned(feedback.result)
  BY DEF Triage!TrustedHasALever, Earned
<1>1. feedback \in Document
  BY NoDocIsNotThere DEF TriageInv
<1>2. feedback.result \in Result
  BY <1>1 DEF Document, Triage!NoResult
<1>3. QED
  BY <1>2 DEF Result

----------------------------------------------------------------------------
(* Questions made from traces and reviewed answers *)

Entry == [id : Nat, text : Queries, trace : Traces \cup {Nil}, origin : {"generated", "manual", "feedback"}]
Entries == Seq(Entry)
Adds == [op : {"add"}, trace : Traces \cup {Nil}, text : Queries, origin : {"manual", "feedback"}]
Appends == [op : {"append"}, trace : Traces \cup {Nil}, text : Queries, origin : {"manual", "feedback"},
            read : Entries]
Collects == [op : {"collect"}, todo : SUBSET Traces]
Checks == [op : {"check"}, trace : Traces, id : Nat]
Marks == [op : {"mark"}, trace : Traces, wrote : Entries]
Deletes == [op : {"delete"}, id : Nat, read : Entries]
Confirms == [op : {"confirm"}, at : Nat, read : Entries]
Work == [op : {"free"}] \cup Collects \cup Checks \cup Adds \cup Appends \cup Marks \cup Deletes \cup Confirms

\* What is said of a request whatever others do: it marks what it wrote last.
Sound(l) ==
    /\ l.op = "mark" => l.wrote # <<>> /\ l.wrote[Len(l.wrote)].trace = l.trace
    /\ l.op = "confirm" => l.at \in DOMAIN l.read

\* What a request does, for any number of requests and any bounds: `l` is where it was and
\* `new` where it is then.
Asks(l, new) ==
    /\ l.op = "free" /\ UNCHANGED <<questions, mark, collected, erased, ids>>
    /\ \/ new \in Collects
       \/ \E t \in collected :
             \/ mark[t] = Nil /\ new = [op |-> "add", trace |-> t, text |-> TextOfTrace[t], origin |-> "manual"]
             \/ mark[t] # Nil /\ new = [op |-> "check", trace |-> t, id |-> mark[t]]
       \/ \E i \in DOMAIN questions : new = [op |-> "delete", id |-> questions[i].id, read |-> questions]
       \/ \E x \in Queries :
             /\ \A i \in DOMAIN questions : questions[i].text # x
             /\ new = [op |-> "add", trace |-> Nil, text |-> x, origin |-> "feedback"]
       \/ \E i \in DOMAIN questions : new = [op |-> "confirm", at |-> i, read |-> questions]
Stores(l, new) ==
    /\ l.op = "collect" /\ UNCHANGED <<questions, ids>>
    /\ \E t \in l.todo :
          /\ mark' = [mark EXCEPT ![t] = Nil] /\ collected' = collected \cup {t}
          /\ erased' = IF mark[t] # Nil THEN erased \cup {t} ELSE erased
          /\ new \in {Promotion!Free, [l EXCEPT !.todo = l.todo \ {t}]}
Looks(l, new) ==
    /\ l.op = "check" /\ UNCHANGED <<questions, mark, collected, erased, ids>>
    /\ \/ new = Promotion!Free
       \/ /\ \A i \in DOMAIN questions : questions[i].id # l.id
          /\ new = [op |-> "add", trace |-> l.trace, text |-> TextOfTrace[l.trace], origin |-> "manual"]
Reads(l, new) ==
    /\ l.op = "add" /\ UNCHANGED <<questions, mark, collected, erased, ids>>
    /\ new = [op |-> "append", trace |-> l.trace, text |-> l.text, origin |-> l.origin, read |-> questions]
Adding(l, new) ==
    /\ l.op = "append" /\ UNCHANGED <<mark, collected, erased>> /\ ids' = ids + 1
    /\ questions' = Append(l.read, [id |-> ids + 1, text |-> l.text, trace |-> l.trace, origin |-> l.origin])
    /\ new = IF l.trace = Nil THEN Promotion!Free
             ELSE [op |-> "mark", trace |-> l.trace, wrote |-> questions']
Leaves(l, new) ==
    /\ l.op = "mark" /\ UNCHANGED <<questions, collected, erased, ids>> /\ new = Promotion!Free
    /\ l \in Marks /\ Sound(l) => mark' = [mark EXCEPT ![l.trace] = l.wrote[Len(l.wrote)].id]
Removes(l, new) ==
    /\ l.op = "delete" /\ UNCHANGED <<mark, collected, erased, ids>> /\ new = Promotion!Free
    /\ questions' = Only(l.read, {i \in DOMAIN l.read : l.read[i].id # l.id})
Confirming(l, new) ==
    /\ l.op = "confirm" /\ UNCHANGED <<mark, collected, erased, ids>> /\ new = Promotion!Free
    /\ questions' = [l.read EXCEPT ![l.at].origin = "feedback"]
Drops(l, new) ==
    /\ UNCHANGED <<questions, mark, collected, ids>> /\ new = Promotion!Free
    /\ erased' = IF l.op = "mark" THEN erased \cup {l.trace} ELSE erased
Moves(l, new) ==
    \/ Asks(l, new) \/ Stores(l, new) \/ Looks(l, new) \/ Reads(l, new) \/ Adding(l, new)
    \/ Leaves(l, new) \/ Drops(l, new) \/ Removes(l, new) \/ Confirming(l, new)

Typed ==
    /\ questions \in Entries /\ mark \in [Traces -> Nat \cup {Nil}] /\ collected \subseteq Traces
    /\ erased \subseteq Traces /\ ids \in Nat

LEMMA PromotionConstants ==
    /\ Nil \notin Traces /\ Nil \notin Nat /\ TextOfTrace \in [Traces -> Queries]
    /\ Promotion!Free = [op |-> "free"] /\ Promoter!Free = [op |-> "free"]
    /\ Promotion!Free.op = "free" /\ Promotion!Free \in Work
BY PromotionAssumption DEF Promotion!Assumptions, Promotion!Free, Promoter!Free, Work

\* A request is what its operation says.
LEMMA WorkByOp ==
    ASSUME NEW l \in Work
    PROVE  /\ l.op = "free" => l = Promotion!Free
           /\ l.op = "collect" => l \in Collects
           /\ l.op = "check" => l \in Checks
           /\ l.op = "add" => l \in Adds
           /\ l.op = "append" => l \in Appends
           /\ l.op = "mark" => l \in Marks
           /\ l.op = "delete" => l \in Deletes
           /\ l.op = "confirm" => l \in Confirms
<1>1. CASE l \in [op : {"free"}]
  <2>1. l.op = "free" /\ l = [op |-> "free"]
    BY <1>1
  <2>2. QED
    BY <2>1, PromotionConstants
<1>2. CASE l \in Collects
  BY <1>2 DEF Collects
<1>3. CASE l \in Checks
  BY <1>3 DEF Checks
<1>4. CASE l \in Adds
  BY <1>4 DEF Adds
<1>5. CASE l \in Appends
  BY <1>5 DEF Appends
<1>6. CASE l \in Marks
  BY <1>6 DEF Marks
<1>7. CASE l \in Deletes
  BY <1>7 DEF Deletes
<1>8. CASE l \in Confirms
  BY <1>8 DEF Confirms
<1>9. QED
  BY <1>1, <1>2, <1>3, <1>4, <1>5, <1>6, <1>7, <1>8 DEF Work

\* Whatever a request does, the dataset and the marks keep their shape.
LEMMA MovesAreTyped ==
    ASSUME Typed, NEW l \in Work, NEW new, Sound(l), Moves(l, new)
    PROVE  Typed' /\ new \in Work /\ Sound(new)
<1>1. CASE Asks(l, new)
  <2>1. Typed'
    BY <1>1 DEF Asks, Typed
  <2>2. CASE new \in Collects
    BY <2>1, <2>2 DEF Collects, Work, Sound
  <2>3. ASSUME NEW t \in collected, mark[t] = Nil,
               new = [op |-> "add", trace |-> t, text |-> TextOfTrace[t], origin |-> "manual"]
        PROVE  new \in Work /\ Sound(new)
    <3>1. new \in Adds
      BY <2>3, PromotionConstants DEF Adds, Typed
    <3>2. QED
      BY <3>1 DEF Adds, Work, Sound
  <2>4. ASSUME NEW t \in collected, mark[t] # Nil, new = [op |-> "check", trace |-> t, id |-> mark[t]]
        PROVE  new \in Work /\ Sound(new)
    <3>1. new \in Checks
      BY <2>4 DEF Checks, Typed
    <3>2. QED
      BY <3>1 DEF Checks, Work, Sound
  <2>5. ASSUME NEW i \in DOMAIN questions, new = [op |-> "delete", id |-> questions[i].id, read |-> questions]
        PROVE  new \in Work /\ Sound(new)
    <3>1. questions[i] \in Entry
      BY SequenceIsFunction DEF Typed, Entries
    <3>2. new \in Deletes
      BY <2>5, <3>1 DEF Deletes, Typed, Entry
    <3>3. QED
      BY <3>2 DEF Deletes, Work, Sound
  <2>6. ASSUME NEW x \in Queries, new = [op |-> "add", trace |-> Nil, text |-> x, origin |-> "feedback"]
        PROVE  new \in Work /\ Sound(new)
    <3>1. new \in Adds
      BY <2>6 DEF Adds
    <3>2. QED
      BY <3>1 DEF Adds, Work, Sound
  <2>7. ASSUME NEW i \in DOMAIN questions, new = [op |-> "confirm", at |-> i, read |-> questions]
        PROVE  new \in Work /\ Sound(new)
    <3>1. i \in Nat
      BY SequenceIsFunction DEF Typed, Entries
    <3>2. new \in Confirms /\ new.at = i /\ new.read = questions
      BY <2>7, <3>1 DEF Confirms, Typed
    <3>3. QED
      BY <3>2 DEF Confirms, Work, Sound
  <2>8. QED
    BY <1>1, <2>1, <2>2, <2>3, <2>4, <2>5, <2>6, <2>7 DEF Asks
<1>2. CASE Stores(l, new)
  <2>1. l \in Collects
    BY <1>2, WorkByOp DEF Stores
  <2>2. PICK t \in l.todo :
          /\ mark' = [mark EXCEPT ![t] = Nil] /\ collected' = collected \cup {t}
          /\ erased' = IF mark[t] # Nil THEN erased \cup {t} ELSE erased
          /\ new \in {Promotion!Free, [l EXCEPT !.todo = l.todo \ {t}]}
    BY <1>2 DEF Stores
  <2>3. t \in Traces
    BY <2>1 DEF Collects
  <2>4. Typed'
    BY <1>2, <2>2, <2>3 DEF Stores, Typed
  <2>5. [l EXCEPT !.todo = l.todo \ {t}] \in Collects
    BY <2>1 DEF Collects
  <2>6. new = Promotion!Free \/ new \in Collects
    BY <2>2, <2>5
  <2>7. QED
    BY <2>4, <2>6, PromotionConstants DEF Work, Collects, Sound
<1>3. CASE Looks(l, new)
  <2>1. l \in Checks
    BY <1>3, WorkByOp DEF Looks
  <2>2. new = Promotion!Free \/ new \in Adds
    BY <1>3, <2>1, PromotionConstants DEF Looks, Checks, Adds
  <2>3. QED
    BY <1>3, <2>2, PromotionConstants DEF Looks, Typed, Work, Adds, Sound
<1>4. CASE Reads(l, new)
  <2>1. l \in Adds
    BY <1>4, WorkByOp DEF Reads
  <2>2. new \in Appends
    BY <1>4, <2>1 DEF Reads, Adds, Appends, Typed
  <2>3. QED
    BY <1>4, <2>2 DEF Reads, Typed, Work, Appends, Sound
<1>5. CASE Adding(l, new)
  <2>1. l \in Appends
    BY <1>5, WorkByOp DEF Adding
  <2>2. PICK e : e = [id |-> ids + 1, text |-> l.text, trace |-> l.trace, origin |-> l.origin]
    OBVIOUS
  <2>3. e \in Entry /\ e.trace = l.trace
    BY <2>1, <2>2 DEF Appends, Entry, Typed
  <2>4. questions' = Append(l.read, e) /\ l.read \in Seq(Entry)
    BY <1>5, <2>1, <2>2 DEF Adding, Appends, Entries
  <2>5. /\ questions' \in Seq(Entry) /\ questions' # <<>>
        /\ questions'[Len(questions')] = e
    BY <2>3, <2>4
  <2>6. Typed'
    BY <1>5, <2>5 DEF Adding, Typed, Entries
  <2>7. CASE l.trace = Nil
    BY <1>5, <2>6, <2>7, PromotionConstants DEF Adding, Sound
  <2>8. CASE l.trace # Nil
    <3>1. new = [op |-> "mark", trace |-> l.trace, wrote |-> questions']
      BY <1>5, <2>8 DEF Adding
    <3>2. new \in Marks /\ new.wrote = questions' /\ new.trace = l.trace
      BY <2>1, <2>5, <2>8, <3>1 DEF Marks, Appends, Entries
    <3>3. QED
      BY <2>3, <2>5, <2>6, <3>2 DEF Work, Marks, Sound
  <2>9. QED
    BY <2>7, <2>8
<1>6. CASE Leaves(l, new)
  <2>1. l \in Marks
    BY <1>6, WorkByOp DEF Leaves
  <2>2. mark' = [mark EXCEPT ![l.trace] = l.wrote[Len(l.wrote)].id]
    BY <1>6, <2>1 DEF Leaves
  <2>3. l.wrote \in Seq(Entry) /\ l.wrote # <<>>
    BY <1>6, <2>1 DEF Leaves, Marks, Sound, Entries
  <2>4. l.wrote[Len(l.wrote)] \in Entry
    BY <2>3
  <2>5. l.wrote[Len(l.wrote)].id \in Nat
    BY <2>4 DEF Entry
  <2>6. QED
    BY <1>6, <2>2, <2>5, PromotionConstants DEF Leaves, Typed, Sound
<1>7. CASE Removes(l, new)
  <2>1. l \in Deletes
    BY <1>7, WorkByOp DEF Removes
  <2>2. questions' \in Entries
    BY <1>7, <2>1, OnlyTakesThePlaces DEF Removes, Deletes, Entries
  <2>3. QED
    BY <1>7, <2>2, PromotionConstants DEF Removes, Typed, Sound
<1>8. CASE Confirming(l, new)
  <2>1. l \in Confirms /\ l.at \in DOMAIN l.read
    BY <1>8, WorkByOp DEF Confirming, Sound
  <2>2. /\ Len(l.read) \in Nat /\ DOMAIN l.read = 1..Len(l.read)
        /\ l.read \in [1..Len(l.read) -> Entry]
    BY <2>1, SequenceIsFunction DEF Confirms, Entries
  <2>3. questions' = [l.read EXCEPT ![l.at] = [l.read[l.at] EXCEPT !.origin = "feedback"]]
    BY <1>8 DEF Confirming
  <2>4. [l.read[l.at] EXCEPT !.origin = "feedback"] \in Entry
    BY <2>1, <2>2 DEF Entry
  <2>5. questions' \in [1..Len(l.read) -> Entry]
    BY <2>1, <2>2, <2>3, <2>4
  <2>6. questions' \in Entries
    BY <2>2, <2>5, FunctionIsSequence DEF Entries
  <2>7. QED
    BY <1>8, <2>6, PromotionConstants DEF Confirming, Typed, Sound
<1>9. CASE Drops(l, new)
  <2>1. l.op = "mark" => l.trace \in Traces
    BY WorkByOp DEF Marks
  <2>2. Typed'
    BY <1>9, <2>1 DEF Drops, Typed
  <2>3. QED
    BY <1>9, <2>2, PromotionConstants DEF Drops, Sound
<1>10. QED
  BY <1>1, <1>2, <1>3, <1>4, <1>5, <1>6, <1>7, <1>8, <1>9 DEF Moves

\* The question that is marked is the one that was written last.
LEMMA PromotionMarksTheLast ==
    ASSUME NEW l \in Marks, Sound(l), l.op = "mark"
    PROVE  Promotion!MarkOf(l.wrote, l.trace) = l.wrote[Len(l.wrote)].id
<1> DEFINE of == {i \in 1..Len(l.wrote) : l.wrote[i].trace = l.trace}
<1>1. PICK n \in Nat : n = Len(l.wrote) /\ n # 0
  BY DEF Marks, Entries, Sound
<1>2. n \in of /\ \A i \in of : i \in Nat /\ n >= i
  BY <1>1 DEF Sound
<1> HIDE DEF of
<1>3. Promotion!Max(of) = n
  <2>1. PICK m : m = Promotion!Max(of)
    OBVIOUS
  <2>2. m \in of /\ \A i \in of : m >= i
    BY <1>2, <2>1 DEF Promotion!Max
  <2>3. m \in Nat /\ m >= n /\ n >= m
    BY <1>2, <2>2
  <2>4. QED
    BY <2>1, <2>3
<1>4. Promotion!SelectLastInSeq(l.wrote, LAMBDA q : q.trace = l.trace) = n
  BY <1>2, <1>3 DEF Promotion!SelectLastInSeq, of
<1>5. QED
  BY <1>1, <1>4 DEF Promotion!MarkOf

\* A text is found where it is, and nowhere when it is in no question.
LEMMA PromotionFindsTheText ==
    ASSUME Typed, NEW x
    PROVE  LET at == Promotion!Existing(questions, x)
           IN  IF at = 0 THEN \A i \in DOMAIN questions : questions[i].text # x
               ELSE at \in DOMAIN questions
<1> DEFINE with == {i \in 1..Len(questions) : questions[i].text = x}
<1>1. Len(questions) \in Nat /\ DOMAIN questions = 1..Len(questions)
  BY SequenceIsFunction DEF Typed, Entries
<1>2. Promotion!Existing(questions, x) = IF with # {} THEN Promotion!Min(with) ELSE 0
  BY DEF Promotion!Existing, Promotion!SelectInSeq
<1>3. CASE with = {}
  BY <1>1, <1>2, <1>3
<1>4. CASE with # {}
  <2>1. with \in SUBSET (1..Len(questions)) /\ IsFiniteSet(1..Len(questions)) /\ (1..Len(questions)) \in SUBSET Int
    BY <1>1, FS_Interval
  <2> HIDE DEF with
  <2>2. \E i \in with : \A j \in with : i <= j
    BY <1>4, <2>1, FS_Subset, LeastAndGreatest
  <2>3. Promotion!Min(with) \in with
    BY <2>2 DEF Promotion!Min
  <2>4. QED
    <3>1. PICK at : at = Promotion!Min(with) /\ at \in 1..Len(questions)
      BY <2>1, <2>3
    <3>2. at # 0 /\ Promotion!Existing(questions, x) = at
      BY <1>2, <1>4, <3>1
    <3>3. QED
      BY <1>1, <3>1, <3>2
<1>5. QED
  BY <1>3, <1>4

\* What a request does that begins and makes nothing is the same whatever the bounds.
LEMMA RequestMoves ==
    ASSUME Typed, NEW W, page \in [W -> Work], NEW p \in W, Sound(page[p]),
           \/ Promotion!Store(p) \/ Promotion!CheckMark(p) \/ Promotion!Mark(p) \/ Promotion!Fail(p)
           \/ Promotion!AddRead(p) \/ Promotion!DeleteWrite(p) \/ Promotion!Confirm(p)
    PROVE  \E new : page' = [page EXCEPT ![p] = new] /\ Moves(page[p], new)
<1>1. page[p] \in Work /\ Sound(page[p])
  OBVIOUS
<1>2. CASE Promotion!Store(p)
  BY <1>2 DEF Promotion!Store, Promotion!Goto, Moves, Stores
<1>3. CASE Promotion!CheckMark(p)
  BY <1>3 DEF Promotion!CheckMark, Promotion!Goto, Promotion!Exists, Promotion!Live, Promotion!Adding,
     Moves, Looks
<1>4. CASE Promotion!Mark(p)
  <2>1. page[p].op = "mark" /\ UNCHANGED <<questions, collected, erased, ids>>
        /\ page' = [page EXCEPT ![p] = Promotion!Free]
        /\ mark' = [mark EXCEPT ![page[p].trace] = Promotion!MarkOf(page[p].wrote, page[p].trace)]
    BY <1>4 DEF Promotion!Mark, Promotion!Goto
  <2>2. page[p] \in Marks
    BY <1>1, <2>1, WorkByOp
  <2>3. Promotion!MarkOf(page[p].wrote, page[p].trace) = page[p].wrote[Len(page[p].wrote)].id
    BY <1>1, <2>1, <2>2, PromotionMarksTheLast
  <2>4. Leaves(page[p], Promotion!Free)
    BY <2>1, <2>3 DEF Leaves
  <2>5. QED
    BY <2>1, <2>4 DEF Moves
<1>5. CASE Promotion!AddRead(p)
  BY <1>5 DEF Promotion!AddRead, Promotion!Goto, Moves, Reads
<1>6. CASE Promotion!DeleteWrite(p)
  <2>1. /\ page[p].op = "delete" /\ UNCHANGED <<mark, collected, erased, ids>>
        /\ page' = [page EXCEPT ![p] = Promotion!Free]
        /\ questions' = Promotion!Only(page[p].read, {i \in DOMAIN page[p].read : page[p].read[i].id # page[p].id})
    BY <1>6 DEF Promotion!DeleteWrite, Promotion!Goto, Promotion!Where
  <2>2. \A s, places : Promotion!Only(s, places) = Only(s, places)
    BY DEF Promotion!Only, Only, Promotion!Nth, Nth, Promotion!Cardinality, Cardinality
  <2>3. QED
    BY <2>1, <2>2 DEF Moves, Removes
<1>7. CASE Promotion!Confirm(p)
  BY <1>7 DEF Promotion!Confirm, Promotion!Goto, Moves, Confirming
<1>8. CASE Promotion!Fail(p)
  BY <1>8 DEF Promotion!Fail, Promotion!Goto, Moves, Drops
<1>9. QED
  BY <1>2, <1>3, <1>4, <1>5, <1>6, <1>7, <1>8

LEMMA PromotionMoves ==
    ASSUME Typed, page \in [Promoters -> Work], \A p \in Promoters : Sound(page[p]), Promotion!Next
    PROVE  \E p \in Promoters : \E new : page' = [page EXCEPT ![p] = new] /\ Moves(page[p], new)
<1>1. PICK p \in Promoters :
        \/ Promotion!Collect(p) \/ Promotion!Store(p) \/ Promotion!Promote(p) \/ Promotion!CheckMark(p)
        \/ Promotion!Mark(p) \/ Promotion!Fail(p) \/ Promotion!AddRead(p) \/ Promotion!AddWrite(p) \/ Promotion!DeleteRead(p)
        \/ Promotion!DeleteWrite(p) \/ Promotion!Review(p) \/ Promotion!Confirm(p)
  BY DEF Promotion!Next
<1> SUFFICES \E new : page' = [page EXCEPT ![p] = new] /\ Moves(page[p], new)
  OBVIOUS
<1>2. page[p] \in Work /\ Sound(page[p])
  OBVIOUS
<1>3. page[p] = Promotion!Free => page[p].op = "free"
  BY PromotionConstants
<1>4. CASE Promotion!Collect(p)
  <2>1. PICK window \in SUBSET Traces : page' = [page EXCEPT ![p] = [op |-> "collect", todo |-> window]]
    BY <1>4 DEF Promotion!Collect, Promotion!Goto
  <2>2. [op |-> "collect", todo |-> window] \in Collects
    BY DEF Collects
  <2>3. UNCHANGED <<questions, mark, collected, erased, ids>> /\ page[p].op = "free"
    BY <1>3, <1>4 DEF Promotion!Collect
  <2>4. QED
    BY <2>1, <2>2, <2>3 DEF Moves, Asks
<1>5. CASE Promotion!Promote(p)
  BY <1>3, <1>5 DEF Promotion!Promote, Promotion!Goto, Promotion!Adding, Moves, Asks
<1>6. CASE Promotion!AddWrite(p)
  BY <1>6 DEF Promotion!AddWrite, Promotion!Goto, Promotion!NewQuestion, Promotion!Question, Moves, Adding
<1>7. CASE Promotion!DeleteRead(p)
  BY <1>3, <1>7 DEF Promotion!DeleteRead, Promotion!Goto, Moves, Asks
<1>8. CASE Promotion!Review(p)
  <2>1. PICK x \in Queries :
          page' = [page EXCEPT ![p] =
             IF Promotion!Existing(questions, x) = 0
             THEN [op |-> "add", trace |-> Nil, text |-> x, origin |-> "feedback"]
             ELSE [op |-> "confirm", at |-> Promotion!Existing(questions, x), read |-> questions]]
    BY <1>8 DEF Promotion!Review, Promotion!Goto, Promotion!Adding
  <2>2. UNCHANGED <<questions, mark, collected, erased, ids>> /\ page[p].op = "free"
    BY <1>3, <1>8 DEF Promotion!Review
  <2>3. CASE Promotion!Existing(questions, x) = 0
    BY <2>1, <2>2, <2>3, PromotionFindsTheText DEF Moves, Asks
  <2>4. CASE Promotion!Existing(questions, x) # 0
    BY <2>1, <2>2, <2>4, PromotionFindsTheText DEF Moves, Asks
  <2>5. QED
    BY <2>3, <2>4
<1>9. CASE \/ Promotion!Store(p) \/ Promotion!CheckMark(p) \/ Promotion!Mark(p) \/ Promotion!Fail(p)
            \/ Promotion!AddRead(p) \/ Promotion!DeleteWrite(p) \/ Promotion!Confirm(p)
  BY <1>2, <1>9, RequestMoves
<1>10. QED
  BY <1>1, <1>4, <1>5, <1>6, <1>7, <1>8, <1>9

\* The two instances find a text in the same place.
LEMMA ExistingIsTheSame == ASSUME NEW x PROVE Promoter!Existing(questions, x) = Promotion!Existing(questions, x)
BY DEF Promoter!Existing, Promoter!SelectInSeq, Promoter!Min, Promotion!Existing, Promotion!SelectInSeq,
   Promotion!Min

LEMMA PromoterMoves ==
    ASSUME Typed, page \in [{"p1"} -> Work], \A p \in {"p1"} : Sound(page[p]), Promoter!Next
    PROVE  \E p \in {"p1"} : \E new : page' = [page EXCEPT ![p] = new] /\ Moves(page[p], new)
<1>1. PICK p \in {"p1"} :
        \/ Promoter!Collect(p) \/ Promoter!Store(p) \/ Promoter!Promote(p) \/ Promoter!CheckMark(p)
        \/ Promoter!Mark(p) \/ Promoter!Fail(p) \/ Promoter!AddRead(p) \/ Promoter!AddWrite(p) \/ Promoter!DeleteRead(p)
        \/ Promoter!DeleteWrite(p) \/ Promoter!Review(p) \/ Promoter!Confirm(p)
  BY DEF Promoter!Next
<1> SUFFICES \E new : page' = [page EXCEPT ![p] = new] /\ Moves(page[p], new)
  OBVIOUS
<1>2. page[p] \in Work /\ Sound(page[p])
  OBVIOUS
<1>3. page[p] = Promoter!Free => page[p].op = "free"
  BY PromotionConstants
<1>4. CASE Promoter!Collect(p)
  <2>1. PICK window \in SUBSET Traces : page' = [page EXCEPT ![p] = [op |-> "collect", todo |-> window]]
    BY <1>4 DEF Promoter!Collect, Promoter!Goto
  <2>2. [op |-> "collect", todo |-> window] \in Collects
    BY DEF Collects
  <2>3. UNCHANGED <<questions, mark, collected, erased, ids>> /\ page[p].op = "free"
    BY <1>3, <1>4 DEF Promoter!Collect
  <2>4. QED
    BY <2>1, <2>2, <2>3 DEF Moves, Asks
<1>5. CASE Promoter!Promote(p)
  BY <1>3, <1>5 DEF Promoter!Promote, Promoter!Goto, Promoter!Adding, Moves, Asks
<1>6. CASE Promoter!AddWrite(p)
  BY <1>6 DEF Promoter!AddWrite, Promoter!Goto, Promoter!NewQuestion, Promoter!Question,
     Promoter!Free, Promotion!Free, Moves, Adding
<1>7. CASE Promoter!DeleteRead(p)
  BY <1>3, <1>7 DEF Promoter!DeleteRead, Promoter!Goto, Moves, Asks
<1>8. CASE Promoter!Review(p)
  <2>1. PICK x \in Queries :
          page' = [page EXCEPT ![p] =
             IF Promoter!Existing(questions, x) = 0
             THEN [op |-> "add", trace |-> Nil, text |-> x, origin |-> "feedback"]
             ELSE [op |-> "confirm", at |-> Promoter!Existing(questions, x), read |-> questions]]
    BY <1>8 DEF Promoter!Review, Promoter!Goto, Promoter!Adding
  <2>2. UNCHANGED <<questions, mark, collected, erased, ids>> /\ page[p].op = "free"
    BY <1>3, <1>8 DEF Promoter!Review
  <2>3. CASE Promoter!Existing(questions, x) = 0
    BY <2>1, <2>2, <2>3, ExistingIsTheSame, PromotionFindsTheText DEF Moves, Asks
  <2>4. CASE Promoter!Existing(questions, x) # 0
    BY <2>1, <2>2, <2>4, ExistingIsTheSame, PromotionFindsTheText DEF Moves, Asks
  <2>5. QED
    BY <2>3, <2>4
<1>9. CASE \/ Promoter!Store(p) \/ Promoter!CheckMark(p) \/ Promoter!Mark(p) \/ Promoter!Fail(p)
            \/ Promoter!AddRead(p) \/ Promoter!DeleteWrite(p) \/ Promoter!Confirm(p)
  <2>1. \/ Promotion!Store(p) \/ Promotion!CheckMark(p) \/ Promotion!Mark(p) \/ Promotion!Fail(p)
        \/ Promotion!AddRead(p) \/ Promotion!DeleteWrite(p) \/ Promotion!Confirm(p)
    BY <1>9 DEF
       Promoter!Store, Promoter!CheckMark, Promoter!Mark, Promoter!Fail, Promoter!AddRead, Promoter!DeleteWrite,
       Promoter!Confirm, Promoter!Goto, Promoter!Free, Promoter!Exists, Promoter!Live, Promoter!Adding,
       Promoter!MarkOf, Promoter!SelectLastInSeq, Promoter!Max, Promoter!Only, Promoter!Nth,
       Promoter!Where, Promoter!Cardinality,
       Promotion!Store, Promotion!CheckMark, Promotion!Mark, Promotion!Fail, Promotion!AddRead, Promotion!DeleteWrite,
       Promotion!Confirm, Promotion!Goto, Promotion!Free, Promotion!Exists, Promotion!Live, Promotion!Adding,
       Promotion!MarkOf, Promotion!SelectLastInSeq, Promotion!Max, Promotion!Only, Promotion!Nth,
       Promotion!Where, Promotion!Cardinality
  <2>2. QED
    BY <1>2, <2>1, RequestMoves
<1>10. QED
  BY <1>1, <1>4, <1>5, <1>6, <1>7, <1>8, <1>9

\* Whoever asks for what at once.
PromotionInv ==
    Typed /\ page \in [Promoters -> Work] /\ \A p \in Promoters : Sound(page[p])

LEMMA PromotionStarts == Promotion!Init => PromotionInv
<1> SUFFICES ASSUME Promotion!Init PROVE PromotionInv
  OBVIOUS
<1>1. PICK x \in Queries : questions = <<[id |-> 1, text |-> x, trace |-> Nil, origin |-> "generated"]>>
  BY DEF Promotion!Init, Promotion!Question
<1>2. questions \in Entries
  BY <1>1 DEF Entry, Entries
<1>3. QED
  BY <1>2, PromotionConstants DEF Promotion!Init, PromotionInv, Typed, Sound

LEMMA PromotionGoesOn == ASSUME PromotionInv, Promotion!Next PROVE PromotionInv' /\ Promotion!MarkIsOfThisPromotion
<1>0. PICK p \in Promoters : \E new : page' = [page EXCEPT ![p] = new] /\ Moves(page[p], new)
  BY PromotionMoves DEF PromotionInv
<1>1. PICK new : page' = [page EXCEPT ![p] = new] /\ Moves(page[p], new)
  BY <1>0
<1>2. page[p] \in Work /\ Sound(page[p])
  BY DEF PromotionInv
<1>3. Typed' /\ new \in Work /\ Sound(new)
  BY <1>1, <1>2, MovesAreTyped DEF PromotionInv
<1>4. /\ page' \in [Promoters -> Work] /\ page'[p] = new
      /\ \A q \in Promoters \ {p} : page'[q] = page[q]
  BY <1>1, <1>3 DEF PromotionInv
<1>5. PromotionInv'
  BY <1>3, <1>4 DEF PromotionInv, Sound
<1>6. Promotion!MarkIsOfThisPromotion
  <2> SUFFICES ASSUME NEW q \in Promoters, page[q].op = "mark", page'[q] = Promotion!Free, mark' # mark
               PROVE  mark'[page[q].trace] = page[q].wrote[Len(page[q].wrote)].id
    BY DEF Promotion!MarkIsOfThisPromotion, Promotion!Last
  <2>1. q = p
    BY <1>4, PromotionConstants
  <2>2. Leaves(page[p], new) /\ page[p] \in Marks
    BY <1>1, <1>2, <2>1, WorkByOp
       DEF Moves, Asks, Stores, Looks, Reads, Adding, Removes, Confirming, Drops
  <2>3. mark' = [mark EXCEPT ![page[p].trace] = page[p].wrote[Len(page[p].wrote)].id]
    BY <1>2, <2>2 DEF Leaves
  <2>4. page[p].trace \in Traces
    BY <2>2 DEF Marks
  <2>5. QED
    BY <2>1, <2>3, <2>4 DEF PromotionInv, Typed
<1>7. QED
  BY <1>5, <1>6

\* A step of the whole about promotions.
LEMMA PromotionStepOrStay ==
    ASSUME part = "promotion" => PromotionInv, [Next]_vars, part = "promotion"
    PROVE  PromotionInv' /\ Promotion!MarkIsOfThisPromotion
<1>1. CASE PromotionStep
  BY <1>1, PromotionGoesOn DEF PromotionStep
<1>2. CASE UNCHANGED vars
  <2>1. UNCHANGED <<questions, mark, collected, page, erased, ids>>
    BY <1>2 DEF vars, promotionVars
  <2>2. PromotionInv'
    BY <2>1 DEF PromotionInv, Typed, Sound
  <2>3. QED
    BY <2>1, <2>2, PromotionConstants DEF Promotion!MarkIsOfThisPromotion
<1>3. QED
  BY <1>1, <1>2 DEF Next, ScoreStep, DetectorsStep, JudgmentsStep, BundleStep, TriageStep, PromoterStep

LEMMA PromotionAlways == Spec => [](part = "promotion" => PromotionInv)
<1>1. Init => (part = "promotion" => PromotionInv)
  BY PromotionStarts DEF Init
<1>2. (part = "promotion" => PromotionInv) /\ [Next]_vars => (part = "promotion" => PromotionInv)'
  BY PartStays, PromotionStepOrStay
<1>3. QED
  BY <1>1, <1>2, PTL DEF Spec

\* By one request at a time: what it has in hand is what is stored, a trace whose mark was
\* not lost has one question, which its mark names once it is set, and one question of a text
\* came of no trace.
OneEach ==
    \A t \in Traces \ erased : \A i, k \in DOMAIN questions :
        questions[i].trace = t /\ questions[k].trace = t => i = k
TextsOnce ==
    \A i, k \in DOMAIN questions :
        questions[i].trace = Nil /\ questions[k].trace = Nil /\ questions[i].text = questions[k].text => i = k
Marked(l) ==
    \A t \in Traces \ erased : \A i \in DOMAIN questions :
        questions[i].trace = t => mark[t] = questions[i].id \/ (l.op = "mark" /\ l.trace = t)
InHand(l) ==
    /\ l.op \in {"append", "delete", "confirm"} => l.read = questions
    /\ l.op = "mark" => l.wrote = questions
    /\ l.op = "check" => l.id = mark[l.trace]
    /\ l.op \in {"add", "append"} =>
          IF l.trace = Nil THEN \A i \in DOMAIN questions : questions[i].text # l.text
          ELSE l.trace \in erased \/ \A i \in DOMAIN questions : questions[i].trace # l.trace
LoneInv(l) == OneEach /\ TextsOnce /\ Marked(l) /\ InHand(l)

\* A trace without a mark that did not lose it has no question, however it came to that.
LEMMA UnmarkedHasNone ==
    ASSUME Typed, NEW l, Marked(l), l.op # "mark", NEW t \in Traces \ erased, NEW m,
           mark[t] = m, m \notin {questions[i].id : i \in DOMAIN questions}
    PROVE  \A i \in DOMAIN questions : questions[i].trace # t
BY DEF Marked

LEMMA EntriesAreTyped == ASSUME Typed PROVE \A i \in DOMAIN questions : questions[i] \in Entry /\ questions[i].id \in Nat
<1>1. \A i \in DOMAIN questions : questions[i] \in Entry
  BY SequenceIsFunction DEF Typed, Entries
<1>2. QED
  BY <1>1 DEF Entry

LEMMA LoneGoesOn ==
    ASSUME Typed, NEW l \in Work, NEW new, Sound(l), Moves(l, new), LoneInv(l)
    PROVE  (OneEach /\ TextsOnce)' /\ Marked(new)' /\ InHand(new)'
<1>1. CASE Asks(l, new)
  <2>1. UNCHANGED <<questions, mark, erased>> /\ l.op = "free"
    BY <1>1 DEF Asks
  <2>2. (OneEach /\ TextsOnce)' /\ Marked(new)'
    BY <2>1 DEF LoneInv, OneEach, TextsOnce, Marked
  <2>3. ASSUME NEW t \in collected, mark[t] = Nil,
               new = [op |-> "add", trace |-> t, text |-> TextOfTrace[t], origin |-> "manual"]
        PROVE  InHand(new)'
    <3>1. t \in Traces /\ t # Nil
      BY PromotionConstants DEF Typed
    <3>2. Nil \notin {questions[i].id : i \in DOMAIN questions}
      BY EntriesAreTyped, PromotionConstants
    <3>3. t \in erased \/ \A i \in DOMAIN questions : questions[i].trace # t
      BY <2>1, <2>3, <3>1, <3>2, UnmarkedHasNone DEF LoneInv
    <3>4. QED
      BY <2>1, <2>3, <3>1, <3>3 DEF InHand
  <2>4. ASSUME NEW t \in collected, new = [op |-> "check", trace |-> t, id |-> mark[t]]
        PROVE  InHand(new)'
    BY <2>1, <2>4 DEF InHand
  <2>5. ASSUME new \in Collects PROVE InHand(new)'
    BY <2>5 DEF InHand, Collects
  <2>6. ASSUME NEW i \in DOMAIN questions, new = [op |-> "delete", id |-> questions[i].id, read |-> questions]
        PROVE  InHand(new)'
    BY <2>1, <2>6 DEF InHand
  <2>7. ASSUME NEW x \in Queries, \A i \in DOMAIN questions : questions[i].text # x,
               new = [op |-> "add", trace |-> Nil, text |-> x, origin |-> "feedback"]
        PROVE  InHand(new)'
    BY <2>1, <2>7 DEF InHand
  <2>8. ASSUME NEW i \in DOMAIN questions, new = [op |-> "confirm", at |-> i, read |-> questions]
        PROVE  InHand(new)'
    BY <2>1, <2>8 DEF InHand
  <2>9. InHand(new)'
    BY <1>1, <2>3, <2>4, <2>5, <2>6, <2>7, <2>8 DEF Asks
  <2>10. QED
    BY <2>2, <2>9
<1>2. CASE Stores(l, new)
  <2>1. l \in Collects /\ l.op = "collect" /\ UNCHANGED questions
    BY <1>2, WorkByOp DEF Stores
  <2>2. PICK t \in l.todo :
          /\ mark' = [mark EXCEPT ![t] = Nil]
          /\ erased' = IF mark[t] # Nil THEN erased \cup {t} ELSE erased
          /\ new \in {Promotion!Free, [l EXCEPT !.todo = l.todo \ {t}]}
    BY <1>2 DEF Stores
  <2>3. t \in Traces /\ erased \subseteq erased'
    BY <2>1, <2>2 DEF Collects
  <2>4. new.op \in {"free", "collect"}
    BY <2>1, <2>2, PromotionConstants DEF Collects
  <2>5. (OneEach /\ TextsOnce)'
    BY <2>1, <2>3 DEF LoneInv, OneEach, TextsOnce
  <2>6. Marked(new)'
    <3> SUFFICES ASSUME NEW s \in Traces \ erased', NEW i \in DOMAIN questions, questions[i].trace = s
                 PROVE  mark'[s] = questions[i].id
      BY <2>1 DEF Marked
    <3>1. s \notin erased /\ mark[s] = questions[i].id
      BY <2>1, <2>3 DEF LoneInv, Marked
    <3>2. s # t
      BY <2>2, <3>1, EntriesAreTyped, PromotionConstants
    <3>3. QED
      BY <2>2, <2>3, <3>1, <3>2 DEF Typed
  <2>7. InHand(new)'
    BY <2>4 DEF InHand
  <2>8. QED
    BY <2>5, <2>6, <2>7
<1>3. CASE Looks(l, new)
  <2>1. UNCHANGED <<questions, mark, erased>> /\ l \in Checks /\ l.op = "check"
    BY <1>3, WorkByOp DEF Looks
  <2>2. (OneEach /\ TextsOnce)' /\ Marked(new)'
    BY <2>1 DEF LoneInv, OneEach, TextsOnce, Marked
  <2>3. CASE new = Promotion!Free
    BY <2>2, <2>3, PromotionConstants DEF InHand
  <2>4. CASE /\ \A i \in DOMAIN questions : questions[i].id # l.id
             /\ new = [op |-> "add", trace |-> l.trace, text |-> TextOfTrace[l.trace], origin |-> "manual"]
    <3>1. l.trace \in Traces /\ l.trace # Nil /\ mark[l.trace] = l.id
      BY <2>1, PromotionConstants DEF Checks, LoneInv, InHand
    <3>2. l.trace \in erased \/ \A i \in DOMAIN questions : questions[i].trace # l.trace
      BY <2>1, <2>4, <3>1, UnmarkedHasNone DEF LoneInv
    <3>3. InHand(new)'
      BY <2>1, <2>4, <3>1, <3>2 DEF InHand
    <3>4. QED
      BY <2>2, <3>3
  <2>5. QED
    BY <1>3, <2>3, <2>4 DEF Looks
<1>4. CASE Reads(l, new)
  <2>1. /\ UNCHANGED <<questions, mark, erased>> /\ l \in Adds /\ l.op = "add"
        /\ new = [op |-> "append", trace |-> l.trace, text |-> l.text, origin |-> l.origin, read |-> questions]
    BY <1>4, WorkByOp DEF Reads
  <2>2. (OneEach /\ TextsOnce)' /\ Marked(new)'
    BY <2>1 DEF LoneInv, OneEach, TextsOnce, Marked
  <2>3. InHand(new)'
    BY <2>1 DEF LoneInv, InHand
  <2>4. QED
    BY <2>2, <2>3
<1>5. CASE Adding(l, new)
  <2>1. UNCHANGED <<mark, erased>> /\ l \in Appends /\ l.op = "append" /\ l.read = questions
    BY <1>5, WorkByOp DEF Adding, LoneInv, InHand
  <2>2. PICK e : e = [id |-> ids + 1, text |-> l.text, trace |-> l.trace, origin |-> l.origin]
    OBVIOUS
  <2>3. questions' = Append(questions, e) /\ e.text = l.text /\ e.trace = l.trace
    BY <1>5, <2>1, <2>2 DEF Adding
  <2>4. questions \in Seq(Entry) /\ e \in Entry
    BY <2>1, <2>2 DEF Typed, Entries, Entry, Appends
  <2>5. PICK n \in Nat : /\ DOMAIN questions = 1..n /\ DOMAIN questions' = 1..(n + 1)
                         /\ questions'[n + 1] = e /\ \A i \in 1..n : questions'[i] = questions[i]
    <3>1. PICK n \in Nat : n = Len(questions)
      BY <2>4
    <3>2. DOMAIN questions = 1..n
      BY <2>4, <3>1
    <3>3. DOMAIN questions' = 1..(n + 1) /\ questions'[n + 1] = e
      BY <2>3, <2>4, <3>1
    <3>4. \A i \in 1..n : questions'[i] = questions[i]
      BY <2>3, <2>4, <3>1
    <3>5. QED
      BY <3>2, <3>3, <3>4
  <2>6. \A i \in 1..(n + 1) : i \in 1..n \/ i = n + 1
    BY <2>5
  <2>7. IF l.trace = Nil THEN \A i \in 1..n : questions[i].text # l.text
        ELSE l.trace \in erased \/ \A i \in 1..n : questions[i].trace # l.trace
    BY <2>1, <2>5 DEF LoneInv, InHand
  <2>8. OneEach'
    <3> SUFFICES ASSUME NEW t \in Traces \ erased, NEW i \in 1..(n + 1), NEW k \in 1..(n + 1),
                        questions'[i].trace = t, questions'[k].trace = t
                 PROVE  i = k
      BY <2>1, <2>5 DEF OneEach
    <3>1. CASE i \in 1..n /\ k \in 1..n
      BY <2>5, <3>1 DEF LoneInv, OneEach
    <3>2. CASE i = n + 1 \/ k = n + 1
      BY <2>3, <2>5, <2>6, <2>7, <3>2, PromotionConstants
    <3>3. QED
      BY <2>6, <3>1, <3>2
  <2>9. TextsOnce'
    <3> SUFFICES ASSUME NEW i \in 1..(n + 1), NEW k \in 1..(n + 1),
                        questions'[i].trace = Nil, questions'[k].trace = Nil,
                        questions'[i].text = questions'[k].text
                 PROVE  i = k
      BY <2>5 DEF TextsOnce
    <3>1. CASE i \in 1..n /\ k \in 1..n
      BY <2>5, <3>1 DEF LoneInv, TextsOnce
    <3>2. CASE i = n + 1 \/ k = n + 1
      BY <2>3, <2>5, <2>6, <2>7, <3>2
    <3>3. QED
      BY <2>6, <3>1, <3>2
  <2>10. new.op = IF l.trace = Nil THEN "free" ELSE "mark"
    BY <1>5, PromotionConstants DEF Adding
  <2>11. new.op = "mark" => new.trace = l.trace /\ new.wrote = questions'
    BY <1>5, <2>10 DEF Adding
  <2>12. Marked(new)'
    <3> SUFFICES ASSUME NEW t \in Traces \ erased, NEW i \in 1..(n + 1), questions'[i].trace = t
                 PROVE  mark[t] = questions'[i].id \/ (new.op = "mark" /\ new.trace = t)
      BY <2>1, <2>5 DEF Marked
    <3>1. CASE i \in 1..n
      BY <2>1, <2>5, <3>1 DEF LoneInv, Marked
    <3>2. CASE i = n + 1
      BY <2>3, <2>5, <2>10, <2>11, <3>2, PromotionConstants
    <3>3. QED
      BY <2>6, <3>1, <3>2
  <2>13. InHand(new)'
    BY <2>10, <2>11 DEF InHand
  <2>14. QED
    BY <2>8, <2>9, <2>12, <2>13
<1>6. CASE Leaves(l, new)
  <2>1. /\ UNCHANGED <<questions, erased>> /\ l \in Marks /\ l.op = "mark" /\ l.wrote = questions
        /\ new = Promotion!Free
    BY <1>6, WorkByOp DEF Leaves, LoneInv, InHand
  <2>2. /\ mark' = [mark EXCEPT ![l.trace] = questions[Len(questions)].id]
        /\ questions # <<>> /\ questions[Len(questions)].trace = l.trace
    BY <1>6, <2>1 DEF Leaves, Sound
  <2>3. Len(questions) \in DOMAIN questions
    BY <2>2 DEF Typed, Entries
  <2>4. (OneEach /\ TextsOnce)'
    BY <2>1 DEF LoneInv, OneEach, TextsOnce
  <2>5. Marked(new)'
    <3> SUFFICES ASSUME NEW t \in Traces \ erased, NEW i \in DOMAIN questions, questions[i].trace = t
                 PROVE  mark'[t] = questions[i].id
      BY <2>1 DEF Marked
    <3>1. CASE t = l.trace
      <4>1. i = Len(questions)
        BY <2>2, <2>3, <3>1 DEF LoneInv, OneEach
      <4>2. QED
        BY <2>2, <3>1, <4>1 DEF Typed
    <3>2. CASE t # l.trace
      BY <2>2, <3>2 DEF LoneInv, Marked, Typed
    <3>3. QED
      BY <3>1, <3>2
  <2>6. InHand(new)'
    BY <2>1, PromotionConstants DEF InHand
  <2>7. QED
    BY <2>4, <2>5, <2>6
<1>7. CASE Removes(l, new) \/ Confirming(l, new)
  <2>1. /\ UNCHANGED <<mark, erased>> /\ new = Promotion!Free /\ l.read = questions
        /\ l.op \in {"delete", "confirm"}
    BY <1>7 DEF Removes, Confirming, LoneInv, InHand
  <2>2. PICK from \in [DOMAIN questions' -> DOMAIN questions] :
          /\ \A k \in DOMAIN questions' : /\ questions'[k].trace = questions[from[k]].trace
                                          /\ questions'[k].text = questions[from[k]].text
                                          /\ questions'[k].id = questions[from[k]].id
          /\ \A i, k \in DOMAIN questions' : from[i] = from[k] => i = k
    <3>1. CASE Removes(l, new)
      <4>1. PICK places : places = {i \in DOMAIN questions : questions[i].id # l.id}
        OBVIOUS
      <4>2. questions' = Only(questions, places) /\ places \in SUBSET DOMAIN questions
        BY <2>1, <3>1, <4>1 DEF Removes
      <4>3. /\ \A k \in DOMAIN questions' :
                  Nth(places, k) \in places /\ questions'[k] = questions[Nth(places, k)]
            /\ \A i, k \in DOMAIN questions' : Nth(places, i) = Nth(places, k) => i = k
        BY <4>2, OnlyTakesThePlaces DEF Typed, Entries
      <4>4. PICK from : from = [k \in DOMAIN questions' |-> Nth(places, k)]
        OBVIOUS
      <4>5. /\ from \in [DOMAIN questions' -> DOMAIN questions]
            /\ \A k \in DOMAIN questions' : questions'[k] = questions[from[k]]
            /\ \A i, k \in DOMAIN questions' : from[i] = from[k] => i = k
        BY <4>2, <4>3, <4>4
      <4>6. QED
        BY <4>5
    <3>2. CASE Confirming(l, new)
      <4>1. l.at \in DOMAIN questions
        BY <2>1, <3>2 DEF Sound, Confirming
      <4>2. questions' = [questions EXCEPT ![l.at] = [questions[l.at] EXCEPT !.origin = "feedback"]]
        BY <2>1, <3>2 DEF Confirming
      <4>3. DOMAIN questions' = DOMAIN questions
        BY <4>2
      <4>4. \A e \in Entry : LET f == [e EXCEPT !.origin = "feedback"]
                             IN f.trace = e.trace /\ f.text = e.text /\ f.id = e.id
        BY DEF Entry
      <4>5. \A k \in DOMAIN questions' : /\ questions'[k].trace = questions[k].trace
                                         /\ questions'[k].text = questions[k].text
                                         /\ questions'[k].id = questions[k].id
        BY <4>1, <4>2, <4>3, <4>4, EntriesAreTyped
      <4>6. PICK from : from = [k \in DOMAIN questions |-> k]
        OBVIOUS
      <4>7. QED
        BY <4>3, <4>5, <4>6
    <3>3. QED
      BY <1>7, <3>1, <3>2
  <2>3. \A k \in DOMAIN questions' : from[k] \in DOMAIN questions
    BY <2>2
  <2>4. OneEach'
    BY <2>1, <2>2, <2>3 DEF LoneInv, OneEach
  <2>5. TextsOnce'
    BY <2>2, <2>3 DEF LoneInv, TextsOnce
  <2>6. Marked(new)'
    BY <2>1, <2>2, <2>3 DEF LoneInv, Marked
  <2>7. InHand(new)'
    BY <2>1, PromotionConstants DEF InHand
  <2>8. QED
    BY <2>4, <2>5, <2>6, <2>7
<1>8. CASE Drops(l, new)
  <2>1. /\ UNCHANGED <<questions, mark>> /\ new = Promotion!Free
        /\ erased' = IF l.op = "mark" THEN erased \cup {l.trace} ELSE erased
    BY <1>8 DEF Drops
  <2>2. \A t \in Traces \ erased' : t \in Traces \ erased /\ ~(l.op = "mark" /\ l.trace = t)
    BY <2>1
  <2>3. (OneEach /\ TextsOnce)' /\ Marked(new)'
    BY <2>1, <2>2 DEF LoneInv, OneEach, TextsOnce, Marked
  <2>4. InHand(new)'
    BY <2>1, PromotionConstants DEF InHand
  <2>5. QED
    BY <2>3, <2>4
<1>9. QED
  BY <1>1, <1>2, <1>3, <1>4, <1>5, <1>6, <1>7, <1>8 DEF Moves

PromoterInv ==
    Typed /\ page \in [{"p1"} -> Work] /\ Sound(page["p1"]) /\ LoneInv(page["p1"])

LEMMA PromoterStarts == Promoter!Init => PromoterInv
<1> SUFFICES ASSUME Promoter!Init PROVE PromoterInv
  OBVIOUS
<1>1. PICK x \in Queries : questions = <<[id |-> 1, text |-> x, trace |-> Nil, origin |-> "generated"]>>
  BY DEF Promoter!Init, Promoter!Question
<1>2. questions \in Entries /\ DOMAIN questions = {1} /\ questions[1].trace = Nil
  BY <1>1 DEF Entry, Entries
<1>3. page["p1"] = [op |-> "free"] /\ page["p1"].op = "free" /\ page \in [{"p1"} -> Work]
  BY PromotionConstants DEF Promoter!Init
<1>4. Typed
  BY <1>2 DEF Promoter!Init, Typed
<1>5. LoneInv(page["p1"])
  BY <1>2, <1>3, PromotionConstants DEF LoneInv, OneEach, TextsOnce, Marked, InHand
<1>6. QED
  BY <1>3, <1>4, <1>5 DEF PromoterInv, Sound

LEMMA PromoterGoesOn == ASSUME PromoterInv, Promoter!Next PROVE PromoterInv'
<1>1. PICK new : page' = [page EXCEPT !["p1"] = new] /\ Moves(page["p1"], new)
  BY PromoterMoves DEF PromoterInv
<1>2. page["p1"] \in Work
  BY DEF PromoterInv
<1>3. Typed' /\ new \in Work /\ Sound(new)
  BY <1>1, <1>2, MovesAreTyped DEF PromoterInv
<1>4. page' \in [{"p1"} -> Work] /\ page'["p1"] = new
  BY <1>1, <1>3 DEF PromoterInv
<1>5. (OneEach /\ TextsOnce)' /\ Marked(new)' /\ InHand(new)'
  BY <1>1, <1>2, LoneGoesOn DEF PromoterInv
<1>6. LoneInv(page["p1"])'
  BY <1>4, <1>5 DEF LoneInv, Marked, InHand
<1>7. QED
  BY <1>3, <1>4, <1>6 DEF PromoterInv, Sound

LEMMA PromoterAlways == Spec => [](part = "one promoter" => PromoterInv)
<1>1. Init => (part = "one promoter" => PromoterInv)
  BY PromoterStarts DEF Init
<1>2. (part = "one promoter" => PromoterInv) /\ [Next]_vars => (part = "one promoter" => PromoterInv)'
  <2> SUFFICES ASSUME part = "one promoter" => PromoterInv, [Next]_vars, part' = "one promoter"
               PROVE  PromoterInv'
    OBVIOUS
  <2>1. CASE PromoterStep
    BY <2>1, PromoterGoesOn DEF PromoterStep
  <2>2. CASE UNCHANGED vars
    <3>1. UNCHANGED <<questions, mark, collected, page, erased, ids>> /\ PromoterInv
      BY <2>2 DEF vars, promotionVars
    <3>2. Typed' /\ page' \in [{"p1"} -> Work] /\ Sound(page["p1"])'
      BY <3>1 DEF PromoterInv, Typed, Sound
    <3>3. OneEach' /\ TextsOnce'
      BY <3>1 DEF PromoterInv, LoneInv, OneEach, TextsOnce
    <3>4. Marked(page["p1"])'
      BY <3>1 DEF PromoterInv, LoneInv, Marked
    <3>5. InHand(page["p1"])'
      BY <3>1 DEF PromoterInv, LoneInv, InHand
    <3>6. QED
      BY <3>2, <3>3, <3>4, <3>5 DEF PromoterInv, LoneInv
  <2>3. QED
    BY <2>1, <2>2 DEF Next, ScoreStep, DetectorsStep, JudgmentsStep, BundleStep, PromotionStep,
       TriageStep
<1>3. QED
  BY <1>1, <1>2, PTL DEF Spec

\* A set of which every two members are one has at most one.
LEMMA AtMostOne == ASSUME NEW S, \A i, k \in S : i = k PROVE Promoter!Cardinality(S) <= 1
<1>1. S = {} \/ \E a : S = {a}
  OBVIOUS
<1>2. Cardinality(S) \in {0, 1}
  BY <1>1, FS_EmptySet, FS_Singleton
<1>3. QED
  BY <1>2 DEF Promoter!Cardinality, Cardinality

LEMMA LonePromoterKeepsItsWord ==
    PromoterInv => Promoter!TwiceOnlyUnmarked /\ Promoter!ReviewedIsOneEntry
<1> SUFFICES ASSUME PromoterInv PROVE Promoter!TwiceOnlyUnmarked /\ Promoter!ReviewedIsOneEntry
  OBVIOUS
<1>1. \A t \in Traces \ erased : Promoter!Cardinality({i \in DOMAIN questions : questions[i].trace = t}) <= 1
  BY AtMostOne DEF PromoterInv, LoneInv, OneEach
<1>2. \A x : Promoter!Cardinality({i \in DOMAIN questions : questions[i].text = x /\ questions[i].trace = Nil}) <= 1
  BY AtMostOne DEF PromoterInv, LoneInv, TextsOnce
<1>3. QED
  BY <1>1, <1>2 DEF Promoter!TwiceOnlyUnmarked, Promoter!ReviewedIsOneEntry, Promoter!Of

----------------------------------------------------------------------------
(* What the runs check, for every value of the constants *)

\* What a reviewer ruled comes back where it belongs: whatever bundle is received into an
\* index that holds a judged chunk, the entry names a chunk with its text, and a threshold
\* admits every match; with any traces, texts, outages, failures and deletions one promoter at
\* a time makes a second question of a trace only where the mark of the first was collected
\* away or never written, and no second entry of a reviewed text; and whatever a model
\* answers, a recommendation that needs no person has a lever of its classes (core/bundle,
\* routers/production.py, routers/feedback.py, core/eval/triage.py).
THEOREM RulingsReach == Spec => []RulingsReachTheirPlace
<1>1. (part = "bundle" => BundleInv) =>
        (part = "bundle" => Bundle!TextIsFoundAgain /\ Bundle!ThresholdAdmitsTheMatches)
  BY BundleIsReceived, ThresholdIsDerived DEF BundleInv
<1>2. (part = "one promoter" => PromoterInv) =>
        (part = "one promoter" => Promoter!TwiceOnlyUnmarked /\ Promoter!ReviewedIsOneEntry)
  BY LonePromoterKeepsItsWord
<1>3. (part = "triage" => TriageInv) => (part = "triage" => Triage!TrustedHasALever)
  BY TrustedIsEarned
<1>4. /\ (part = "bundle" => BundleInv)
      /\ (part = "one promoter" => PromoterInv) /\ (part = "triage" => TriageInv)
      => RulingsReachTheirPlace
  BY <1>1, <1>2, <1>3 DEF RulingsReachTheirPlace
<1>5. QED
  BY <1>4, BundleAlways, PromoterAlways, TriageAlways, PTL

\* One write changes what it was asked to: whoever else is writing, a rewrite of the file of
\* judgments costs at most the one it names, and a promotion is marked with the question it
\* made; a request about feedback keeps the fields it does not set where nothing was written
\* between its read and its write (core/judgments/store.py, routers/production.py,
\* routers/feedback.py).
THEOREM WritesTouch == Spec => WritesTouchTheirOwn
<1> DEFINE Inv == /\ part = "judgments" => JudgmentsInv
                  /\ part = "promotion" => PromotionInv
                  /\ part = "triage" => TriageInv
           Kept == /\ part = "judgments" => Judgments!RewritesTouchOne
                   /\ part = "promotion" => Promotion!MarkIsOfThisPromotion
                   /\ part = "triage" => Triage!AloneIsKept
<1>1. Inv /\ [Next]_vars => Kept
  BY JudgmentsStepOrStay, PromotionStepOrStay, TriageStepOrStay
<1>2. WritesTouchTheirOwn <=> [][Kept]_vars
  BY DEF WritesTouchTheirOwn
<1> HIDE DEF Kept
<1>3. QED
  BY <1>1, <1>2, JudgmentsAlways, PromotionAlways, TriageAlways, PTL DEF Spec

----------------------------------------------------------------------------

(* Shares *)
LEMMA DivisionIs ==
    ASSUME NEW a \in Nat, NEW d \in Nat \ {0}, NEW c \in Nat
    PROVE  a \div d \in Nat /\ (a \div d >= c <=> a >= c * d)
<1> DEFINE q == a \div d
           r == a % d
<1>1. q \in Int /\ r \in 0..(d - 1) /\ a = d * q + r
  OBVIOUS
<1> HIDE DEF q, r
<1>2. q \in Nat
  <2> SUFFICES ASSUME q < 0 PROVE FALSE
    BY <1>1
  <2>1. -q \in Nat \ {0} /\ -q >= 1
    BY <1>1
  <2>2. d * (-q) >= d
    BY <2>1, <1>1
  <2> QED BY <2>2, <1>1
<1>3. ASSUME q >= c PROVE a >= c * d
  <2>1. PICK e \in Nat : q = c + e
    BY <1>3, <1>2
  <2>2. d * (c + e) = d * c + d * e /\ d * e \in Nat /\ d * c = c * d /\ d * c \in Nat
    OBVIOUS
  <2> QED BY <2>1, <2>2, <1>1
<1>4. ASSUME ~(q >= c) PROVE ~(a >= c * d)
  <2>1. PICK e \in Nat : c = q + 1 + e
    <3>1. c - q - 1 \in Nat /\ c = q + 1 + (c - q - 1)
      BY <1>4, <1>2
    <3> QED BY <3>1
  <2>2. d * (q + 1 + e) = d * q + d + d * e /\ d * e \in Nat /\ d * c = c * d /\ d * q \in Nat
    BY <1>2
  <2> QED BY <2>1, <2>2, <1>1
<1>5. a \div d = q
  BY DEF q
<1> QED BY <1>2, <1>3, <1>4, <1>5

LEMMA UnitIs == Score!Unit \in Nat \ {0} /\ Score!Unit = 60
BY DEF Score!Unit

\* A share of a part lies between none and the whole, and one of enough is at least one.
LEMMA ShareIsAShare ==
    ASSUME NEW d \in Nat \ {0}, NEW n \in 0..d
    PROVE  /\ Score!Share(n, d) \in 0..Score!Unit
           /\ \A c \in Nat : Score!Share(n, d) >= c <=> Score!Unit * n >= c * d
<1>1. PICK u \in Nat \ {0} : u = Score!Unit
  BY UnitIs
<1>2. u * n \in Nat /\ u * n <= u * d
  <2>1. PICK e \in Nat : d = n + e
    <3>1. d - n \in Nat /\ d = n + (d - n)
      OBVIOUS
    <3> QED BY <3>1
  <2>2. u * (n + e) = u * n + u * e /\ u * n \in Nat /\ u * e \in Nat
    OBVIOUS
  <2> QED BY <2>1, <2>2
<1> DEFINE a == u * n
<1>3. a \in Nat
  BY <1>2
<1>4. Score!Share(n, d) = a \div d
  BY <1>1 DEF Score!Share
<1> HIDE DEF a
<1>5. \A c \in Nat : a \div d \in Nat /\ (a \div d >= c <=> a >= c * d)
  BY <1>3, DivisionIs, Zenon
<1>6. a \div d <= u
  <2>1. PICK v \in Nat : v = a \div d
    BY <1>5
  <2>2. v >= u + 1 <=> a >= (u + 1) * d
    BY <1>5, <2>1
  <2>3. (u + 1) * d = u * d + d /\ u * d \in Nat
    OBVIOUS
  <2>4. a < (u + 1) * d
    BY <2>3, <1>2, <1>3 DEF a
  <2>5. (u + 1) * d \in Nat
    BY <2>3
  <2> QED BY <2>1, <2>2, <2>4, <2>5, <1>3
<1>7. a \div d \in 0..u
  BY <1>5, <1>6
<1>8. \A c \in Nat : a \div d >= c <=> u * n >= c * d
  BY <1>5 DEF a
<1> QED BY <1>1, <1>4, <1>7, <1>8

LEMMA SharesGrow ==
    ASSUME NEW d \in Nat \ {0}, NEW n \in 0..d, NEW m \in 0..d, m <= n
    PROVE  Score!Share(m, d) <= Score!Share(n, d)
<1>1. PICK u \in Nat \ {0} : u = Score!Unit
  BY UnitIs
<1>2. PICK x \in Nat, y \in Nat : x = Score!Share(m, d) /\ y = Score!Share(n, d)
  BY ShareIsAShare, <1>1
<1>3. x >= x => Score!Unit * m >= x * d
  BY <1>2, ShareIsAShare
<1>4. y >= x <=> Score!Unit * n >= x * d
  BY <1>2, ShareIsAShare
<1>5. u * n >= u * m
  <2>1. PICK e \in Nat : n = m + e
    <3>1. n - m \in Nat /\ n = m + (n - m)
      OBVIOUS
    <3> QED BY <3>1
  <2>2. u * (m + e) = u * m + u * e /\ u * m \in Nat /\ u * e \in Nat
    OBVIOUS
  <2> QED BY <2>1, <2>2
<1>6. u * n \in Nat /\ u * m \in Nat /\ x * d \in Nat
  OBVIOUS
<1> QED BY <1>1, <1>2, <1>3, <1>4, <1>5, <1>6

(* Lists *)

\* What the scoring module takes from the libraries is what they give.
LEMMA SameOperators ==
    /\ \A S : Score!Cardinality(S) = Cardinality(S)
    /\ \A s, places : Score!Only(s, places) = Only(s, places)
<1>1. ASSUME NEW S PROVE Score!Cardinality(S) = Cardinality(S)
  BY DEF Score!Cardinality, Cardinality, Score!IsFiniteSet, IsFiniteSet
<1>2. ASSUME NEW s, NEW places PROVE Score!Only(s, places) = Only(s, places)
  BY DEF Score!Only, Only, Score!Nth, Nth, Score!Cardinality, Cardinality, Score!IsFiniteSet, IsFiniteSet
<1> QED BY <1>1, <1>2

\* A list has as many members as places at most.
LEMMA ListIsFinite ==
    ASSUME NEW S, NEW s \in Seq(S)
    PROVE  /\ IsFiniteSet(Score!Range(s)) /\ Score!Range(s) \in SUBSET S
           /\ Cardinality(Score!Range(s)) \in Nat /\ Cardinality(Score!Range(s)) <= Len(s)
           /\ s # <<>> => Score!Range(s) # {}
<1> DEFINE T == Score!Range(s)
<1>1. Len(s) \in Nat /\ DOMAIN s = 1..Len(s) /\ s \in [1..Len(s) -> S]
  OBVIOUS
<1>2. T = {s[i] : i \in 1..Len(s)}
  BY <1>1 DEF Score!Range
<1> HIDE DEF T
<1>3. s \in [1..Len(s) -> T]
  BY <1>1, <1>2
<1>4. s \in Surjection(1..Len(s), T)
  BY <1>2, <1>3 DEF Surjection
<1>5. IsFiniteSet(1..Len(s)) /\ Cardinality(1..Len(s)) = Len(s)
  BY <1>1, FS_Interval
<1>6. IsFiniteSet(T) /\ Cardinality(T) <= Len(s)
  BY <1>4, <1>5, FS_Surjection
<1>7. Cardinality(T) \in Nat
  BY <1>6, FS_CardinalityType
<1>8. T \in SUBSET S
  BY <1>1, <1>2
<1>9. s # <<>> => T # {}
  <2>1. s # <<>> => 1 \in 1..Len(s)
    BY <1>1
  <2> QED BY <2>1, <1>2
<1> QED BY <1>6, <1>7, <1>8, <1>9 DEF T

\* A cut list is the head of it, and all of it when it is no longer.
LEMMA CutIsPart ==
    ASSUME NEW S, NEW s \in Seq(S), NEW k \in Nat
    PROVE  /\ Score!Cut(s, k) \in Seq(S)
           /\ Len(Score!Cut(s, k)) <= k /\ Len(Score!Cut(s, k)) <= Len(s)
           /\ Score!Range(Score!Cut(s, k)) \subseteq Score!Range(s)
           /\ Len(s) <= k => Score!Cut(s, k) = s
<1>1. PICK n \in Nat : n = IF k < Len(s) THEN k ELSE Len(s)
  OBVIOUS
<1>2. n <= k /\ n <= Len(s) /\ (Len(s) <= k => n = Len(s)) /\ Len(s) \in Nat
  BY <1>1
<1>3. Score!Cut(s, k) = SubSeq(s, 1, n)
  BY <1>1 DEF Score!Cut
<1> DEFINE t == SubSeq(s, 1, n)
<1>4. t \in Seq(S) /\ Len(t) = n /\ DOMAIN t = 1..n /\ \A i \in 1..n : t[i] = s[i]
  BY <1>2
<1> HIDE DEF t
<1>5. Score!Range(t) \subseteq Score!Range(s)
  <2>1. 1..n \subseteq DOMAIN s
    BY <1>2
  <2> QED BY <1>4, <2>1 DEF Score!Range
<1>6. n = Len(s) => t = s
  BY <1>4, <1>2
<1> QED BY <1>2, <1>3, <1>4, <1>5, <1>6 DEF t

\* The references of a list are what its fragments are cited by, in as many places at most.
LEMMA RefsAreCited ==
    ASSUME NEW S, NEW list \in Seq(S)
    PROVE  LET cited == {Score!RefId(f) : f \in Score!Range(list)} \ {Nil} IN
           /\ Score!Refs(list) \in Seq(cited)
           /\ Len(Score!Refs(list)) <= Len(list)
           /\ Score!Range(Score!Refs(list)) = cited
<1> DEFINE cited == {Score!RefId(f) : f \in Score!Range(list)} \ {Nil}
           cites == [i \in DOMAIN list |-> Score!RefId(list[i])]
           places == {i \in DOMAIN cites : cites[i] # Nil}
<1>1. PICK n \in Nat : n = Len(list) /\ DOMAIN list = 1..n
  OBVIOUS
<1>2. DOMAIN cites = 1..n /\ \A i \in 1..n : cites[i] = Score!RefId(list[i])
  BY <1>1
<1>3. Score!Range(list) = {list[i] : i \in 1..n}
  BY <1>1 DEF Score!Range
<1>4. Score!Refs(list) = Only(cites, places)
  BY SameOperators DEF Score!Refs
<1>5. PICK T : T = {Score!RefId(f) : f \in Score!Range(list)} \cup {Nil}
  OBVIOUS
<1>6. \A i \in 1..n : cites[i] \in T
  BY <1>2, <1>3, <1>5
<1>7. cites = [i \in 1..n |-> cites[i]]
  BY <1>1
<1>8. places = {i \in 1..n : cites[i] # Nil}
  BY <1>2
<1>9. cited = {cites[i] : i \in 1..n} \ {Nil}
  BY <1>2, <1>3
<1> HIDE DEF cites, places, cited
<1>10. cites \in Seq(T)
  BY <1>6, <1>7
<1>11. places \in SUBSET DOMAIN cites /\ places \in SUBSET (1..n)
  BY <1>2, <1>8
<1> DEFINE o == Only(cites, places)
<1>12. /\ \A k \in DOMAIN o : Nth(places, k) \in places /\ o[k] = cites[Nth(places, k)]
       /\ \A i \in places : \E k \in DOMAIN o : o[k] = cites[i]
       /\ o \in Seq(T)
  BY <1>10, <1>11, OnlyTakesThePlaces
<1>13. Len(o) <= n
  <2>1. IsFiniteSet(1..n) /\ Cardinality(1..n) = n
    BY FS_Interval
  <2>2. Cardinality(places) \in Nat /\ Cardinality(places) <= n
    BY <2>1, <1>11, FS_Subset, FS_CardinalityType
  <2>3. Len(o) = Cardinality(places)
    BY <2>2 DEF Only
  <2> QED BY <2>2, <2>3
<1> HIDE DEF o
<1>14. \A k \in DOMAIN o : o[k] \in cited
  BY <1>12, <1>11, <1>8, <1>9
<1>15. o \in Seq(cited)
  BY <1>12, <1>14
<1>16. Score!Range(o) = cited
  <2>1. Score!Range(o) \subseteq cited
    BY <1>14 DEF Score!Range
  <2>2. ASSUME NEW r \in cited PROVE r \in Score!Range(o)
    <3>1. PICK i \in places : r = cites[i]
      BY <1>8, <1>9
    <3> QED BY <3>1, <1>12 DEF Score!Range
  <2> QED BY <2>1, <2>2
<1>17. Score!Refs(list) = o
  BY <1>4 DEF o
<1> QED BY <1>1, <1>13, <1>15, <1>16, <1>17 DEF cited

\* Recall is a share, of the cited references that are asked for.
Hits(expected, retrieved, k) == Score!Range(Score!Cut(retrieved, k)) \cap Score!Range(expected)

LEMMA RecallIsAShare ==
    ASSUME NEW S, NEW T, NEW expected \in Seq(S), NEW retrieved \in Seq(T), NEW k \in Nat, expected # <<>>
    PROVE  /\ IsFiniteSet(Hits(expected, retrieved, k)) /\ Len(expected) \in Nat \ {0}
           /\ Cardinality(Hits(expected, retrieved, k)) \in 0..Len(expected)
           /\ Score!RecallAtK(expected, retrieved, k) =
                 Score!Share(Cardinality(Hits(expected, retrieved, k)), Len(expected))
<1> DEFINE hit == Hits(expected, retrieved, k)
<1>1. /\ IsFiniteSet(Score!Range(expected)) /\ Cardinality(Score!Range(expected)) \in Nat
      /\ Cardinality(Score!Range(expected)) <= Len(expected)
  BY ListIsFinite
<1>2. hit \in SUBSET Score!Range(expected)
  BY DEF Hits
<1>3. Len(expected) \in Nat \ {0}
  OBVIOUS
<1>4. Score!RecallAtK(expected, retrieved, k) = Score!Share(Cardinality(hit), Len(expected))
  BY SameOperators DEF Score!RecallAtK, Hits
<1> HIDE DEF hit
<1>5. IsFiniteSet(hit) /\ Cardinality(hit) <= Cardinality(Score!Range(expected)) /\ Cardinality(hit) \in Nat
  BY <1>1, <1>2, FS_Subset, FS_CardinalityType
<1>6. Cardinality(hit) \in 0..Len(expected)
  BY <1>1, <1>3, <1>5
<1> QED BY <1>3, <1>4, <1>5, <1>6 DEF hit

\* The lists over S in which nothing is twice.
Singles(S) == {s \in Seq(S) : \A i, k \in DOMAIN s : s[i] = s[k] => i = k}

LEMMA DedupedHasSingles ==
    ASSUME NEW S, NEW list \in Seq(S)
    PROVE  Score!Deduped(list) \in Singles(S)
<1>1. PICK n \in Nat : list \in [1..n -> S]
  OBVIOUS
<1> DEFINE join(acc, x) == IF x \in Score!Range(acc) THEN acc ELSE Append(acc, x)
<1>2. PICK A : A = Singles(S)
  OBVIOUS
<1>3. \A acc \in A, x \in S : join(acc, x) \in A
  <2> SUFFICES ASSUME NEW acc \in A, NEW x \in S, x \notin Score!Range(acc) PROVE Append(acc, x) \in A
    OBVIOUS
  <2>1. acc \in Seq(S) /\ \A i, k \in DOMAIN acc : acc[i] = acc[k] => i = k
    BY <1>2 DEF Singles
  <2>2. \A i \in DOMAIN acc : acc[i] # x
    BY DEF Score!Range
  <2>3. PICK m \in Nat : m = Len(acc) /\ DOMAIN acc = 1..m
    BY <2>1
  <2>4. /\ Append(acc, x) \in Seq(S) /\ DOMAIN Append(acc, x) = 1..(m + 1)
        /\ \A i \in 1..m : Append(acc, x)[i] = acc[i]
        /\ Append(acc, x)[m + 1] = x
    BY <2>1, <2>3
  <2>5. ASSUME NEW i \in 1..(m + 1), NEW k \in 1..(m + 1), Append(acc, x)[i] = Append(acc, x)[k] PROVE i = k
    <3>1. (i \in 1..m \/ i = m + 1) /\ (k \in 1..m \/ k = m + 1)
      OBVIOUS
    <3> QED BY <2>1, <2>2, <2>3, <2>4, <2>5, <3>1
  <2>6. Append(acc, x) \in Singles(S)
    BY <2>4, <2>5 DEF Singles
  <2> QED BY <1>2, <2>6
<1>4. <<>> \in A
  BY <1>2 DEF Singles
<1> HIDE DEF join
<1>5. PICK step : step = [x \in 1..n |-> [a \in A |-> join(a, list[x])]]
  OBVIOUS
<1>6. step \in [1..n -> [A -> A]]
  BY <1>1, <1>3, <1>5
<1>7. PICK f \in [SUBSET (1..n) -> A] : FoldsPlaces(f, n, <<>>, step)
  <2>1. PICK base : base = <<>>
    OBVIOUS
  <2>2. base \in A
    BY <1>4, <2>1
  <2> QED BY <2>1, <2>2, <1>6, FoldsByPlaces
<1>8. \A s \in SUBSET (1..n) : f[s] = IF s = {} THEN <<>> ELSE join(f[s \ {Score!Max(s)}], list[Score!Max(s)])
  <2> SUFFICES ASSUME NEW s \in SUBSET (1..n) PROVE f[s] = IF s = {} THEN <<>> ELSE join(f[s \ {Max(s)}], list[Max(s)])
    BY DEF Score!Max, Max
  <2>1. CASE s = {}
    BY <1>7, <2>1 DEF FoldsPlaces
  <2>2. CASE s # {}
    <3>1. f[s \ {Max(s)}] \in A /\ Max(s) \in 1..n
      BY <2>2, LastPlaces
    <3>2. f[s] = step[Max(s)][f[s \ {Max(s)}]]
      BY <1>7, <2>2 DEF FoldsPlaces
    <3> QED BY <1>5, <2>2, <3>1, <3>2
  <2> QED BY <2>1, <2>2
<1>9. DOMAIN list = 1..n
  BY <1>1
<1> DEFINE iter[s \in SUBSET DOMAIN list] ==
             IF s = {} THEN <<>> ELSE LET x == Score!Max(s) IN join(iter[s \ {x}], list[x])
<1>10. Score!Deduped(list) = iter[DOMAIN list]
  BY DEF Score!Deduped, Score!FoldLeft, Score!MapThenFoldSet, join
<1>11. f = [s \in SUBSET DOMAIN list |->
             IF s = {} THEN <<>> ELSE LET x == Score!Max(s) IN join(f[s \ {x}], list[x])]
  BY <1>8, <1>9
<1>12. iter = [s \in SUBSET DOMAIN list |->
             IF s = {} THEN <<>> ELSE LET x == Score!Max(s) IN join(iter[s \ {x}], list[x])]
  BY <1>11, Zenon
<1> HIDE DEF iter
<1>13. \A s \in SUBSET (1..n) : iter[s] = IF s = {} THEN <<>> ELSE join(iter[s \ {Max(s)}], list[Max(s)])
  BY <1>9, <1>12 DEF Score!Max, Max
<1>14. iter[1..n] \in A
  <2>1. iter[{}] \in A
    <3>1. {} \in SUBSET (1..n)
      OBVIOUS
    <3>2. iter[{}] = <<>>
      BY <1>13, <3>1
    <3> QED BY <1>4, <3>2
  <2>2. ASSUME NEW i \in 1..n, iter[1..(i - 1)] \in A PROVE iter[1..i] \in A
    <3>1. 1..i \in SUBSET (1..n) /\ 1..i # {} /\ Max(1..i) = i /\ (1..i) \ {i} = 1..(i - 1)
      BY PlacesUpTo
    <3>2. iter[1..i] = join(iter[1..(i - 1)], list[i])
      BY <1>13, <3>1
    <3> QED BY <1>1, <1>3, <2>2, <3>2
  <2> QED BY <2>1, <2>2, FoldStays
<1> QED BY <1>2, <1>9, <1>10, <1>14

LEMMA PrecisionIsAShare ==
    ASSUME NEW S, NEW T, NEW expected \in Seq(S), NEW retrieved \in Seq(T), NEW k \in Nat
    PROVE  Score!PrecisionAtK(expected, retrieved, k) \in 0..Score!Unit
<1>1. PICK top : top = Score!Deduped(Score!Cut(retrieved, k))
  OBVIOUS
<1>2. top \in Singles(T)
  BY <1>1, CutIsPart, DedupedHasSingles
<1>3. top \in Seq(T)
  BY <1>2 DEF Singles
<1>4. Score!PrecisionAtK(expected, retrieved, k) =
        IF top = <<>> THEN 0 ELSE Score!Share(Cardinality(Score!Range(top) \cap Score!Range(expected)), Len(top))
  BY <1>1, SameOperators DEF Score!PrecisionAtK
<1>5. CASE top = <<>>
  BY <1>4, <1>5, UnitIs
<1>6. CASE top # <<>>
  <2>1. PICK hit : hit = Score!Range(top) \cap Score!Range(expected)
    OBVIOUS
  <2>2. hit \in SUBSET Score!Range(top)
    BY <2>1
  <2>3. IsFiniteSet(Score!Range(top)) /\ Cardinality(Score!Range(top)) \in Nat /\ Cardinality(Score!Range(top)) <= Len(top)
    BY <1>3, ListIsFinite
  <2>4. Cardinality(hit) \in Nat /\ Cardinality(hit) <= Cardinality(Score!Range(top))
    BY <2>2, <2>3, FS_Subset, FS_CardinalityType
  <2>5. Len(top) \in Nat \ {0}
    BY <1>3, <1>6
  <2>6. Cardinality(hit) \in 0..Len(top)
    BY <2>3, <2>4, <2>5
  <2>7. PICK d, c : d = Len(top) /\ c = Cardinality(hit)
    OBVIOUS
  <2>8. Score!Share(c, d) \in 0..Score!Unit
    BY <2>5, <2>6, <2>7, ShareIsAShare
  <2> QED BY <1>4, <1>6, <2>1, <2>7, <2>8
<1> QED BY <1>5, <1>6

\* A sum over a finite set whose terms are at most u is at most u for each of its elements.
LEMMA SumIsBounded ==
    ASSUME NEW S, IsFiniteSet(S), NEW u \in Nat, NEW f \in [S -> 0..u], NEW iter,
           \A s \in SUBSET S : iter[s] = IF s = {} THEN 0 ELSE f[CHOOSE x \in s : TRUE] + iter[s \ {CHOOSE x \in s : TRUE}]
    PROVE  iter[S] \in Nat /\ iter[S] <= u * Cardinality(S)
<1> DEFINE Bounded(s) == iter[s] \in Nat /\ iter[s] <= u * Cardinality(s)
           T == {n \in Nat : \A s \in SUBSET S : Cardinality(s) = n => Bounded(s)}
<1>1. \A s \in SUBSET S : IsFiniteSet(s) /\ Cardinality(s) \in Nat /\ (Cardinality(s) = 0 <=> s = {})
  BY FS_Subset, FS_CardinalityType, FS_EmptySet
<1>2. 0 \in T
  <2> SUFFICES ASSUME NEW s \in SUBSET S, Cardinality(s) = 0 PROVE Bounded(s)
    OBVIOUS
  <2>1. s = {}
    BY <1>1
  <2>2. iter[s] = 0
    BY <2>1
  <2> QED BY <2>2
<1>3. ASSUME NEW n \in Nat, n \in T PROVE n + 1 \in T
  <2> SUFFICES ASSUME NEW s \in SUBSET S, Cardinality(s) = n + 1 PROVE Bounded(s)
    BY <1>3
  <2>1. s # {} /\ IsFiniteSet(s)
    BY <1>1
  <2>2. PICK x \in s : x = CHOOSE y \in s : TRUE
    BY <2>1
  <2>3. iter[s] = f[x] + iter[s \ {x}]
    BY <2>1, <2>2
  <2>4. Cardinality(s \ {x}) = Cardinality(s) - 1
    BY <2>1, FS_RemoveElement
  <2>5. Cardinality(s \ {x}) = n
    BY <2>4
  <2>6. s \ {x} \in SUBSET S
    OBVIOUS
  <2>7. Bounded(s \ {x})
    BY <1>3, <2>5, <2>6
  <2>8. PICK a \in Nat, b \in 0..u : a = iter[s \ {x}] /\ b = f[x]
    BY <2>7
  <2>9. u * (n + 1) = u * n + u /\ u * n \in Nat
    OBVIOUS
  <2>10. a <= u * n
    BY <2>5, <2>7, <2>8
  <2>11. b + a \in Nat /\ b + a <= u * (n + 1)
    BY <2>8, <2>9, <2>10
  <2> QED BY <2>3, <2>8, <2>11
<1> HIDE DEF T
<1>4. Nat \subseteq T
  BY <1>2, <1>3, NumbersByStep
<1>5. Cardinality(S) \in T
  BY <1>1, <1>4
<1>6. Bounded(S)
  BY <1>5 DEF T
<1> QED BY <1>6

LEMMA AverageIsAShare ==
    ASSUME NEW S, NEW T, NEW expected \in Seq(S), NEW retrieved \in Seq(T)
    PROVE  Score!AveragePrecision(expected, retrieved) \in 0..Score!Unit
<1>1. PICK seen : seen = Score!Deduped(retrieved)
  OBVIOUS
<1>2. seen \in Singles(T)
  BY <1>1, DedupedHasSingles
<1>3. PICK n \in Nat : DOMAIN seen = 1..n
  BY <1>2 DEF Singles
<1> DEFINE hits(i) == Score!Cardinality({k \in 1..i : seen[k] \in Score!Range(expected)})
           at == {i \in DOMAIN seen : seen[i] \in Score!Range(expected)}
           Picked(s) == CHOOSE x \in s : TRUE
           iter[s \in SUBSET at] == IF s = {} THEN 0
                                    ELSE LET x == Picked(s) IN Score!Share(hits(x), x) + iter[s \ {x}]
<1>4. Score!AveragePrecision(expected, retrieved) = IF at = {} THEN 0 ELSE iter[at] \div Score!Cardinality(Score!Range(expected))
  BY <1>1 DEF Score!AveragePrecision, Score!MapThenSumSet, Score!MapThenFoldSet
<1>5. PICK u \in Nat : u = Score!Unit
  BY UnitIs
<1>6. \A x \in 1..n : Score!Share(hits(x), x) \in 0..u
  <2> SUFFICES ASSUME NEW x \in 1..n PROVE Score!Share(hits(x), x) \in 0..u
    OBVIOUS
  <2>1. PICK h : h = {k \in 1..x : seen[k] \in Score!Range(expected)}
    OBVIOUS
  <2>2. h \in SUBSET (1..x)
    BY <2>1
  <2>3. IsFiniteSet(1..x) /\ Cardinality(1..x) = x
    BY FS_Interval
  <2>4. Cardinality(h) \in Nat /\ Cardinality(h) <= x
    BY <2>2, <2>3, FS_Subset, FS_CardinalityType
  <2>5. PICK c \in 0..x : c = Cardinality(h)
    BY <2>4
  <2>6. Score!Share(c, x) \in 0..u
    BY <1>5, ShareIsAShare
  <2>7. hits(x) = Cardinality(h)
    BY <2>1, SameOperators
  <2> QED BY <2>5, <2>6, <2>7
<1>7. at \in SUBSET (1..n) /\ IsFiniteSet(at)
  <2>1. at \in SUBSET (1..n)
    BY <1>3
  <2>2. IsFiniteSet(1..n)
    BY FS_Interval
  <2> HIDE DEF at
  <2> QED BY <2>1, <2>2, FS_Subset
<1>8. PICK f : f = [x \in at |-> Score!Share(hits(x), x)]
  OBVIOUS
<1> HIDE DEF hits
<1>9. f \in [at -> 0..u] /\ \A x \in at : f[x] = Score!Share(hits(x), x)
  BY <1>6, <1>7, <1>8
<1>10. CASE at = {}
  BY <1>4, <1>5, <1>10
<1>11. CASE at # {}
  <2>1. Picks([s \in SUBSET at |-> Picked(s)], at)
    <3>1. \A s \in SUBSET at : s # {} => Picked(s) \in s
      OBVIOUS
    <3> HIDE DEF Picked, at
    <3> QED BY <3>1 DEF Picks
  <2>2. PICK g \in [SUBSET at -> Nat] : \A s \in SUBSET at : g[s] = IF s = {} THEN 0 ELSE f[Picked(s)] + g[s \ {Picked(s)}]
    <3> HIDE DEF at, Picked, iter
    <3>1. PICK step : step = [x \in at |-> [a \in Nat |-> f[x] + a]]
      OBVIOUS
    <3>2. step \in [at -> [Nat -> Nat]]
      <4>1. \A x \in at : f[x] \in Nat
        BY <1>9
      <4>2. \A x \in at, a \in Nat : f[x] + a \in Nat
        BY <4>1
      <4> QED BY <3>1, <4>2
    <3>3. PICK pick : pick = [s \in SUBSET at |-> Picked(s)]
      OBVIOUS
    <3>4. Picks(pick, at)
      BY <2>1, <3>3
    <3>5. PICK g \in [SUBSET at -> Nat] : IsFold(g, at, 0, step, pick)
      BY <1>7, <3>2, <3>4, FoldExists
    <3>6. ASSUME NEW s \in SUBSET at PROVE g[s] = IF s = {} THEN 0 ELSE f[Picked(s)] + g[s \ {Picked(s)}]
      <4>1. CASE s = {}
        BY <3>5, <4>1 DEF IsFold
      <4>2. CASE s # {}
        <5>1. g[s] = step[pick[s]][g[s \ {pick[s]}]]
          BY <3>5, <4>2 DEF IsFold
        <5>2. pick[s] = Picked(s) /\ pick[s] \in at /\ g[s \ {pick[s]}] \in Nat
          BY <3>3, <3>4, <4>2 DEF Picks
        <5> QED BY <3>1, <4>2, <5>1, <5>2
      <4> QED BY <4>1, <4>2
    <3> QED BY <3>6
  <2>3. g = [s \in SUBSET at |-> IF s = {} THEN 0 ELSE LET x == Picked(s) IN Score!Share(hits(x), x) + g[s \ {x}]]
    <3>1. \A s \in SUBSET at : s # {} => Picked(s) \in at
      OBVIOUS
    <3> HIDE DEF at, Picked, iter
    <3> QED BY <2>2, <3>1, <1>9
  <2>4. iter = [s \in SUBSET at |-> IF s = {} THEN 0 ELSE LET x == Picked(s) IN Score!Share(hits(x), x) + iter[s \ {x}]]
    BY <2>3, Zenon
  <2>5. \A s \in SUBSET at : iter[s] = IF s = {} THEN 0 ELSE f[CHOOSE x \in s : TRUE] + iter[s \ {CHOOSE x \in s : TRUE}]
    <3>1. \A s \in SUBSET at : s # {} => Picked(s) \in at
      OBVIOUS
    <3>2. \A s \in SUBSET at : iter[s] = IF s = {} THEN 0 ELSE f[Picked(s)] + iter[s \ {Picked(s)}]
      <4> HIDE DEF at, Picked, iter
      <4> QED BY <2>4, <3>1, <1>9
    <3> HIDE DEF at, iter
    <3> QED BY <3>2 DEF Picked
  <2> HIDE DEF iter
  <2>6. iter[at] \in Nat /\ iter[at] <= u * Cardinality(at)
    <3> HIDE DEF at
    <3> QED BY <1>7, <1>9, <2>5, SumIsBounded
  <2>7. /\ Cardinality(at) \in Nat /\ Cardinality(Score!Range(expected)) \in Nat
        /\ Cardinality(at) <= Cardinality(Score!Range(expected)) /\ Cardinality(at) # 0
    <3>1. PICK E : E = Score!Range(expected)
      OBVIOUS
    <3>2. IsFiniteSet(E) /\ Cardinality(E) \in Nat
      BY <3>1, ListIsFinite
    <3>3. PICK h : h = [i \in at |-> seen[i]]
      OBVIOUS
    <3>4. h \in Injection(at, E)
      <4>1. h \in [at -> E]
        BY <3>1, <3>3
      <4>2. \A i, k \in at : h[i] = h[k] => i = k
        BY <3>3, <1>2 DEF Singles
      <4> HIDE DEF at
      <4> QED BY <4>1, <4>2 DEF Injection, IsInjective
    <3> HIDE DEF at
    <3>5. Cardinality(at) <= Cardinality(E)
      BY <3>2, <3>4, FS_Injection
    <3>6. Cardinality(at) \in Nat /\ Cardinality(at) # 0
      BY <1>7, <1>11, FS_CardinalityType, FS_EmptySet
    <3> QED BY <3>1, <3>2, <3>5, <3>6
  <2>8. PICK a, c, e : a = iter[at] /\ c = Cardinality(at) /\ e = Cardinality(Score!Range(expected))
    OBVIOUS
  <2>9. a \in Nat /\ c \in Nat \ {0} /\ e \in Nat \ {0} /\ c <= e /\ a <= u * c
    BY <2>6, <2>7, <2>8
  <2>10. u * c <= u * e /\ u * e \in Nat /\ u * c \in Nat
    <3>1. PICK x \in Nat : e = c + x
      <4>1. e - c \in Nat /\ e = c + (e - c)
        BY <2>9
      <4> QED BY <4>1
    <3>2. u * (c + x) = u * c + u * x /\ u * x \in Nat /\ u * c \in Nat
      BY <2>9
    <3> QED BY <3>1, <3>2
  <2>11. a < (u + 1) * e
    <3>1. (u + 1) * e = u * e + e
      BY <2>9
    <3> QED BY <2>9, <2>10, <3>1
  <2>12. a \div e \in 0..u
    <3>1. \A k \in Nat : a \div e \in Nat /\ (a \div e >= k <=> a >= k * e)
      BY <2>9, DivisionIs
    <3>2. PICK v \in Nat : v = a \div e
      BY <3>1
    <3>3. v >= u + 1 <=> a >= (u + 1) * e
      BY <3>1, <3>2
    <3>4. (u + 1) * e \in Nat
      BY <2>9
    <3> QED BY <2>9, <2>11, <3>2, <3>3, <3>4
  <2> QED BY <1>4, <1>5, <1>11, <2>8, <2>12, SameOperators
<1> QED BY <1>10, <1>11

(* What is recorded of a question *)

\* The questions of the run's data set.
QuestionsAsked == Score!Question

OfRanking == {"retrieval_recall_at_k", "retrieval_precision_at_k", "retrieval_average_precision",
              "pre_rerank_recall_at_k"}
OfText == {"answer_similarity", "answer_relevance", "context_support", "grounded_in_correct_source",
           "citation_number_coverage"}

LEMMA RecordedHas ==
    ASSUME NEW f, NEW n
    PROVE  /\ n \in DOMAIN Score!Recorded(f) <=> n \in DOMAIN f /\ f[n] # Nil
           /\ n \in DOMAIN Score!Recorded(f) => Score!Recorded(f)[n] = f[n]
BY DEF Score!Recorded

LEMMA NothingHasNothing == ASSUME NEW n PROVE n \notin DOMAIN <<>>
OBVIOUS

Refusal(q, a, s) ==
    [correct_refusal |->
        IF s.retrievalOnly THEN Nil
        ELSE IF Score!Refuses(a) = (Score!Answerability(q) = "answerable") THEN 0 ELSE Score!Unit]

\* A metric of a question is one of the three kinds, where the kind is recorded at all.
LEMMA MetricIsOfAKind ==
    ASSUME NEW q, NEW a, NEW l, NEW s, NEW n \in DOMAIN Score!Evaluated(q, a, l, s)
    PROVE  LET v == Score!Evaluated(q, a, l, s)[n] IN
           /\ v # Nil
           /\ \/ n = "correct_refusal" /\ ~s.retrievalOnly /\ v \in {0, Score!Unit}
              \/ /\ Score!Answerability(q) = "answerable" /\ q.scope # "global"
                 /\ n \in OfRanking /\ v = Score!RetrievalScores(q, l)[n]
              \/ /\ Score!Answerability(q) = "answerable" /\ ~s.retrievalOnly
                 /\ n \in OfText /\ v = Score!AnswerScores(q, a, l, q.scope # "global")[n]
<1> DEFINE e == Score!Evaluated(q, a, l, s)
           ofRefusal == Score!Recorded(Refusal(q, a, s))
           ofRanking == IF q.scope # "global" THEN Score!Recorded(Score!RetrievalScores(q, l)) ELSE <<>>
           ofText == IF s.retrievalOnly THEN <<>>
                     ELSE Score!Recorded(Score!AnswerScores(q, a, l, q.scope # "global"))
<1>1. e = IF Score!Answerability(q) # "answerable" THEN ofRefusal
          ELSE Score!Joined(ofRefusal, Score!Joined(ofRanking, ofText))
  BY DEF Score!Evaluated, Refusal
<1>2. \A m \in DOMAIN ofRefusal :
         m = "correct_refusal" /\ ofRefusal[m] # Nil /\ ~s.retrievalOnly /\ ofRefusal[m] \in {0, Score!Unit}
  <2>1. PICK x : x = Refusal(q, a, s)
    OBVIOUS
  <2>2. DOMAIN x = {"correct_refusal"} /\ (x["correct_refusal"] # Nil => ~s.retrievalOnly /\ x["correct_refusal"] \in {0, Score!Unit})
    BY <2>1 DEF Refusal
  <2>3. ASSUME NEW m \in DOMAIN ofRefusal PROVE m \in DOMAIN x /\ x[m] # Nil /\ ofRefusal[m] = x[m]
    BY <2>1, <2>3, RecordedHas, Zenon
  <2> HIDE DEF ofRefusal
  <2> QED BY <2>2, <2>3
<1>3. \A m \in DOMAIN ofRanking :
         ofRanking[m] # Nil /\ q.scope # "global" /\ m \in OfRanking /\ ofRanking[m] = Score!RetrievalScores(q, l)[m]
  <2>1. DOMAIN Score!RetrievalScores(q, l) = OfRanking
    BY DEF Score!RetrievalScores, OfRanking
  <2>2. ASSUME NEW m \in DOMAIN ofRanking
        PROVE  /\ q.scope # "global" /\ m \in DOMAIN Score!RetrievalScores(q, l)
               /\ Score!RetrievalScores(q, l)[m] # Nil /\ ofRanking[m] = Score!RetrievalScores(q, l)[m]
    BY <2>2, NothingHasNothing, RecordedHas, Zenon
  <2> HIDE DEF ofRanking
  <2> QED BY <2>1, <2>2
<1>4. \A m \in DOMAIN ofText :
         /\ ofText[m] # Nil /\ ~s.retrievalOnly /\ m \in OfText
         /\ ofText[m] = Score!AnswerScores(q, a, l, q.scope # "global")[m]
  <2>1. DOMAIN Score!AnswerScores(q, a, l, q.scope # "global") = OfText
    BY DEF Score!AnswerScores, OfText
  <2>2. PICK x : x = Score!AnswerScores(q, a, l, q.scope # "global")
    OBVIOUS
  <2>3. DOMAIN x = OfText
    BY <2>1, <2>2
  <2>4. ofText = IF s.retrievalOnly THEN <<>> ELSE Score!Recorded(x)
    BY <2>2
  <2>5. \A m \in DOMAIN ofText : ofText[m] # Nil /\ ~s.retrievalOnly /\ m \in OfText /\ ofText[m] = x[m]
    <3>1. ASSUME NEW m \in DOMAIN ofText PROVE ~s.retrievalOnly /\ m \in DOMAIN x /\ x[m] # Nil /\ ofText[m] = x[m]
      <4>1. CASE s.retrievalOnly
        <5>1. ofText = <<>>
          BY <2>4, <4>1
        <5> QED BY <3>1, <5>1, NothingHasNothing, Zenon
      <4>2. CASE ~s.retrievalOnly
        <5>1. ofText = Score!Recorded(x)
          BY <2>4, <4>2
        <5> HIDE DEF ofText
        <5>2. m \in DOMAIN Score!Recorded(x) /\ ofText[m] = Score!Recorded(x)[m]
          BY <3>1, <5>1
        <5> QED BY <4>2, <5>2, RecordedHas
      <4> QED BY <4>1, <4>2
    <3> HIDE DEF ofText
    <3> QED BY <2>3, <3>1
  <2> QED BY <2>2, <2>5
<1> HIDE DEF e, ofRefusal, ofRanking, ofText
<1>5. CASE Score!Answerability(q) # "answerable"
  BY <1>1, <1>2, <1>5 DEF e
<1>6. CASE Score!Answerability(q) = "answerable"
  <2>1. PICK rest : rest = Score!Joined(ofRanking, ofText)
    OBVIOUS
  <2>2. e = Score!Joined(ofRefusal, rest)
    BY <1>1, <1>6, <2>1
  <2>3. n \in DOMAIN ofRefusal \/ n \in DOMAIN rest \ DOMAIN ofRefusal
    <3>1. n \in DOMAIN e
      BY DEF e
    <3> QED BY <3>1, <2>2 DEF Score!Joined
  <2>4. CASE n \in DOMAIN ofRefusal
    <3>1. e[n] = ofRefusal[n]
      BY <2>2, <2>4 DEF Score!Joined
    <3> QED BY <3>1, <2>4, <1>2 DEF e
  <2>5. CASE n \in DOMAIN rest \ DOMAIN ofRefusal
    <3>1. e[n] = rest[n]
      BY <2>2, <2>5 DEF Score!Joined
    <3>2. n \in DOMAIN ofRanking \/ n \in DOMAIN ofText \ DOMAIN ofRanking
      BY <2>1, <2>5 DEF Score!Joined
    <3>3. CASE n \in DOMAIN ofRanking
      <4>1. e[n] = ofRanking[n]
        BY <2>1, <3>1, <3>3 DEF Score!Joined
      <4> QED BY <4>1, <3>3, <1>3, <1>6 DEF e
    <3>4. CASE n \in DOMAIN ofText \ DOMAIN ofRanking
      <4>1. e[n] = ofText[n]
        BY <2>1, <3>1, <3>4 DEF Score!Joined
      <4> QED BY <4>1, <3>4, <1>4, <1>6 DEF e
    <3> QED BY <3>2, <3>3, <3>4
  <2> QED BY <2>3, <2>4, <2>5
<1> QED BY <1>5, <1>6 DEF e

\* Of an answerable question whose sources are named, each metric of the ranking that there is.
LEMMA RankingIsRecorded ==
    ASSUME NEW q, NEW a, NEW l, NEW s, Score!Answerability(q) = "answerable", q.scope # "global",
           NEW n \in OfRanking, Score!RetrievalScores(q, l)[n] # Nil
    PROVE  n \in DOMAIN Score!Evaluated(q, a, l, s)
             /\ Score!Evaluated(q, a, l, s)[n] = Score!RetrievalScores(q, l)[n]
<1> DEFINE ofRefusal == Score!Recorded(Refusal(q, a, s))
           ofRanking == Score!Recorded(Score!RetrievalScores(q, l))
           ofText == IF s.retrievalOnly THEN <<>>
                     ELSE Score!Recorded(Score!AnswerScores(q, a, l, q.scope # "global"))
<1>1. Score!Evaluated(q, a, l, s) = Score!Joined(ofRefusal, Score!Joined(ofRanking, ofText))
  BY DEF Score!Evaluated, Refusal
<1>2. n \notin DOMAIN ofRefusal
  <2>1. DOMAIN Refusal(q, a, s) = {"correct_refusal"} /\ n # "correct_refusal"
    BY DEF Refusal, OfRanking
  <2>2. n \notin DOMAIN Refusal(q, a, s)
    BY <2>1
  <2> QED BY <2>2, RecordedHas, Zenon
<1>3. n \in DOMAIN ofRanking /\ ofRanking[n] = Score!RetrievalScores(q, l)[n]
  <2>1. DOMAIN Score!RetrievalScores(q, l) = OfRanking
    BY DEF Score!RetrievalScores, OfRanking
  <2> QED BY <2>1, RecordedHas, Zenon
<1> HIDE DEF ofRefusal, ofRanking, ofText
<1>4. PICK rest : rest = Score!Joined(ofRanking, ofText)
  OBVIOUS
<1>5. n \in DOMAIN rest /\ rest[n] = ofRanking[n]
  BY <1>3, <1>4 DEF Score!Joined
<1>6. n \in DOMAIN Score!Joined(ofRefusal, rest) /\ Score!Joined(ofRefusal, rest)[n] = rest[n]
  BY <1>2, <1>5 DEF Score!Joined
<1> QED BY <1>1, <1>3, <1>4, <1>5, <1>6

(* Every metric is a share *)

FoundLists == [window : Seq(Fragments), preRerank : Seq(Fragments), final : Seq(Fragments)]

LEMMA QuestionIs ==
    ASSUME NEW q \in QuestionsAsked
    PROVE  q.refs \in Seq(Score!Range(q.refs)) /\ Len(q.refs) <= Score!Unit /\ Nil \notin Score!Range(q.refs)
BY ScoreAssumption DEF Score!Assumptions, QuestionsAsked

LEMMA BoundsAreNumbers == TopK \in Nat \ {0} /\ Widened \in Nat \ {0}
BY ScoreAssumption DEF Score!Assumptions

LEMMA RecallOfAList ==
    ASSUME NEW q \in QuestionsAsked, NEW list \in Seq(Fragments)
    PROVE  Score!RecallAtK(q.refs, Score!Refs(list), TopK) \in 0..Score!Unit
<1>1. CASE q.refs = <<>>
  BY <1>1, UnitIs DEF Score!RecallAtK
<1>2. CASE q.refs # <<>>
  <2>1. PICK S, T, k, e, r : /\ S = Score!Range(q.refs) /\ k = TopK /\ e = q.refs /\ r = Score!Refs(list)
                             /\ T = {Score!RefId(f) : f \in Score!Range(list)} \ {Nil}
    OBVIOUS
  <2>2. e \in Seq(S) /\ e # <<>> /\ r \in Seq(T) /\ k \in Nat
    BY <1>2, <2>1, QuestionIs, BoundsAreNumbers, RefsAreCited
  <2>3. /\ Cardinality(Hits(e, r, k)) \in 0..Len(e) /\ Len(e) \in Nat \ {0}
        /\ Score!RecallAtK(e, r, k) = Score!Share(Cardinality(Hits(e, r, k)), Len(e))
    BY <2>2, RecallIsAShare
  <2>4. Score!Share(Cardinality(Hits(e, r, k)), Len(e)) \in 0..Score!Unit
    BY <2>3, ShareIsAShare, Zenon
  <2> QED BY <2>1, <2>3, <2>4
<1> QED BY <1>1, <1>2

LEMMA RecallIsANumber ==
    ASSUME NEW q \in QuestionsAsked, NEW list \in Seq(Fragments)
    PROVE  Score!RecallAtK(q.refs, Score!Refs(list), TopK) \in Nat
<1>1. PICK u \in Nat : u = Score!Unit
  BY UnitIs
<1>2. \A x \in 0..u : x \in Nat
  OBVIOUS
<1> QED BY <1>1, <1>2, RecallOfAList, Zenon

LEMMA SupportIsACosine ==
    ASSUME NEW a, NEW fragments
    PROVE  Score!ContextSupport(a, fragments) \in (-Score!Unit)..Score!Unit
BY UnitIs DEF Score!ContextSupport

LEMMA CitationIsAShare ==
    ASSUME NEW a, NEW list \in Seq(Fragments), NEW expected,
           Score!CitationCoverage(a, list, expected) # Nil
    PROVE  Score!CitationCoverage(a, list, expected) \in 0..Score!Unit
<1> DEFINE matching == {g \in Score!Range(list) : Score!RefId(g) \in Score!Range(expected)}
           numbers == {f.label : f \in matching} \ {Nil}
<1>1. IsFiniteSet(numbers)
  <2>1. PICK m : m = matching
    OBVIOUS
  <2>2. IsFiniteSet(m)
    <3>1. IsFiniteSet(Score!Range(list))
      BY ListIsFinite
    <3>2. m \in SUBSET Score!Range(list)
      BY <2>1
    <3> QED BY <3>1, <3>2, FS_Subset
  <2>3. PICK all : all = {f.label : f \in m}
    OBVIOUS
  <2>4. PICK h : h = [f \in m |-> f.label]
    OBVIOUS
  <2>5. h \in Surjection(m, all)
    BY <2>3, <2>4 DEF Surjection
  <2>6. IsFiniteSet(all)
    BY <2>2, <2>5, FS_Surjection
  <2>7. numbers \in SUBSET all
    BY <2>1, <2>3
  <2> HIDE DEF numbers
  <2> QED BY <2>6, <2>7, FS_Subset
<1>2. Score!CitationCoverage(a, list, expected) =
        IF numbers = {} THEN Nil ELSE Score!Share(Cardinality(numbers \cap a.numbers), Cardinality(numbers))
  BY SameOperators DEF Score!CitationCoverage
<1> HIDE DEF numbers
<1>3. numbers # {}
  BY <1>2
<1>4. PICK hit : hit = numbers \cap a.numbers
  OBVIOUS
<1>5. hit \in SUBSET numbers
  BY <1>4
<1>6. Cardinality(numbers) \in Nat \ {0} /\ Cardinality(hit) \in 0..Cardinality(numbers)
  BY <1>1, <1>3, <1>5, FS_Subset, FS_CardinalityType, FS_EmptySet
<1>7. Score!Share(Cardinality(hit), Cardinality(numbers)) \in 0..Score!Unit
  BY <1>6, ShareIsAShare, Zenon
<1> QED BY <1>2, <1>3, <1>4, <1>7

LEMMA MetricIsInRange ==
    ASSUME NEW q \in QuestionsAsked, NEW a, a.similar \in (-Score!Unit)..Score!Unit, NEW l \in FoundLists, NEW s,
           NEW n \in DOMAIN Score!Evaluated(q, a, l, s)
    PROVE  Score!Evaluated(q, a, l, s)[n] \in (IF n \in Score!Cosines THEN -Score!Unit ELSE 0)..Score!Unit
<1> DEFINE bounded == q.scope # "global"
<1>1. PICK v : v = Score!Evaluated(q, a, l, s)[n]
  OBVIOUS
<1>2. /\ v # Nil
      /\ \/ v \in {0, Score!Unit}
         \/ n \in OfRanking /\ v = Score!RetrievalScores(q, l)[n]
         \/ n \in OfText /\ v = Score!AnswerScores(q, a, l, bounded)[n]
  BY <1>1, MetricIsOfAKind
<1>3. l.final \in Seq(Fragments) /\ l.preRerank \in Seq(Fragments)
  BY DEF FoundLists
<1>7. 0..Score!Unit \subseteq (IF n \in Score!Cosines THEN -Score!Unit ELSE 0)..Score!Unit
  <2>1. PICK u \in Nat : u = Score!Unit
    BY UnitIs
  <2> QED BY <2>1
<1>4. CASE v \in {0, Score!Unit}
  BY <1>1, <1>4, <1>7, UnitIs
<1>5. CASE n \in OfRanking /\ v = Score!RetrievalScores(q, l)[n]
  <2>1. Score!RecallAtK(q.refs, Score!Refs(l.final), TopK) \in 0..Score!Unit
    BY <1>3, RecallOfAList
  <2>2. Score!RecallAtK(q.refs, Score!Refs(l.preRerank), TopK) \in 0..Score!Unit
    BY <1>3, RecallOfAList
  <2>3. PICK S, T, k, e, r : /\ S = Score!Range(q.refs) /\ k = TopK /\ e = q.refs /\ r = Score!Refs(l.final)
                             /\ T = {Score!RefId(f) : f \in Score!Range(l.final)} \ {Nil}
    OBVIOUS
  <2>4. e \in Seq(S) /\ r \in Seq(T) /\ k \in Nat
    BY <1>3, <2>3, QuestionIs, BoundsAreNumbers, RefsAreCited
  <2>5. Score!PrecisionAtK(e, r, k) \in 0..Score!Unit /\ Score!AveragePrecision(e, r) \in 0..Score!Unit
    BY <2>4, PrecisionIsAShare, AverageIsAShare
  <2>6. \A m \in OfRanking : Score!RetrievalScores(q, l)[m] # Nil => Score!RetrievalScores(q, l)[m] \in 0..Score!Unit
    BY <2>1, <2>2, <2>3, <2>5 DEF Score!RetrievalScores, OfRanking
  <2> QED BY <1>1, <1>2, <1>5, <1>7, <2>6
<1>6. CASE n \in OfText /\ v = Score!AnswerScores(q, a, l, bounded)[n]
  <2>1. PICK u \in Nat : u = Score!Unit /\ u = 60
    BY UnitIs
  <2>2. \A fragments : Score!ContextSupport(a, fragments) \in (-u)..u
    BY <2>1, SupportIsACosine
  <2>3. Score!Grounded(a, l.final, q.refs) # Nil => Score!Grounded(a, l.final, q.refs) \in (-u)..u
    BY <2>2 DEF Score!Grounded
  <2>4. Score!CitationCoverage(a, l.final, q.refs) # Nil => Score!CitationCoverage(a, l.final, q.refs) \in 0..u
    BY <2>1, <1>3, CitationIsAShare
  <2>5. 36 \in (-u)..u /\ 0 \in (-u)..u
    BY <2>1
  <2>6. PICK x : x = Score!AnswerScores(q, a, l, bounded)
    OBVIOUS
  <2>7. /\ x["answer_similarity"] # Nil => x["answer_similarity"] \in (-u)..u
        /\ x["answer_relevance"] \in (-u)..u
        /\ x["context_support"] # Nil => x["context_support"] \in (-u)..u
        /\ x["grounded_in_correct_source"] # Nil => x["grounded_in_correct_source"] \in (-u)..u
        /\ x["citation_number_coverage"] # Nil => x["citation_number_coverage"] \in 0..u
    BY <2>1, <2>2, <2>3, <2>4, <2>5, <2>6 DEF Score!AnswerScores
  <2>8. v = x[n] /\ v # Nil
    BY <1>2, <1>6, <2>6
  <2> QED BY <1>1, <1>6, <2>1, <2>7, <2>8 DEF OfText, Score!Cosines
<1> QED BY <1>2, <1>4, <1>5, <1>6

(* Blame *)

\* The fragments of a list that a question asks for, and what they are cited by.
WantedBy(q, list) == {f \in Score!Range(list) : Score!RefId(f) \in Score!Range(q.refs)}
CitedBy(q, list) == {Score!RefId(f) : f \in WantedBy(q, list)}

LEMMA HitsAreCited ==
    ASSUME NEW q \in QuestionsAsked, NEW list \in Seq(Fragments)
    PROVE  /\ Hits(q.refs, Score!Refs(list), TopK) \subseteq CitedBy(q, list)
           /\ Len(list) <= TopK => Hits(q.refs, Score!Refs(list), TopK) = CitedBy(q, list)
<1>1. PICK T, r : r = Score!Refs(list) /\ T = {Score!RefId(f) : f \in Score!Range(list)} \ {Nil}
  OBVIOUS
<1>2. r \in Seq(T) /\ Len(r) <= Len(list) /\ Score!Range(r) = T
  BY <1>1, RefsAreCited
<1>3. PICK k \in Nat : k = TopK
  BY BoundsAreNumbers
<1>4. Score!Range(Score!Cut(r, k)) \subseteq T /\ (Len(r) <= k => Score!Cut(r, k) = r)
  BY <1>2, <1>3, CutIsPart
<1>5. Nil \notin Score!Range(q.refs)
  BY QuestionIs
<1>6. CitedBy(q, list) = T \cap Score!Range(q.refs)
  BY <1>1, <1>5 DEF CitedBy, WantedBy
<1>7. Len(list) <= k => Len(r) <= k
  BY <1>2, <1>3
<1> QED BY <1>1, <1>2, <1>3, <1>4, <1>6, <1>7 DEF Hits

\* Recall counts what is cited of a list that fits the context, and at most that of another.
LEMMA RecallCounts ==
    ASSUME NEW q \in QuestionsAsked, q.refs # <<>>, NEW list \in Seq(Fragments)
    PROVE  \E n \in Nat, c \in Nat, d \in Nat \ {0} :
              /\ d = Len(q.refs) /\ n <= c /\ c <= d /\ d <= Score!Unit
              /\ IsFiniteSet(CitedBy(q, list)) /\ c = Cardinality(CitedBy(q, list))
              /\ Len(list) <= TopK => n = c
              /\ Score!RecallAtK(q.refs, Score!Refs(list), TopK) = Score!Share(n, d)
<1>1. PICK S, T, e, r, k : /\ S = Score!Range(q.refs) /\ e = q.refs /\ r = Score!Refs(list) /\ k = TopK
                           /\ T = {Score!RefId(f) : f \in Score!Range(list)} \ {Nil}
  OBVIOUS
<1>2. e \in Seq(S) /\ e # <<>> /\ r \in Seq(T) /\ k \in Nat /\ Len(e) <= Score!Unit
  BY <1>1, QuestionIs, BoundsAreNumbers, RefsAreCited
<1>3. PICK h : h = Hits(e, r, k)
  OBVIOUS
<1>4. Cardinality(h) \in 0..Len(e) /\ Len(e) \in Nat \ {0} /\ Score!RecallAtK(e, r, k) = Score!Share(Cardinality(h), Len(e))
  <2>1. /\ Cardinality(Hits(e, r, k)) \in 0..Len(e) /\ Len(e) \in Nat \ {0}
        /\ Score!RecallAtK(e, r, k) = Score!Share(Cardinality(Hits(e, r, k)), Len(e))
    BY <1>2, RecallIsAShare
  <2> QED BY <1>3, <2>1
<1>5. PICK cited : cited = CitedBy(q, list)
  OBVIOUS
<1>6. h \in SUBSET cited /\ (Len(list) <= TopK => h = cited)
  BY <1>1, <1>3, <1>5, HitsAreCited
<1>7. cited \in SUBSET S
  BY <1>1, <1>5 DEF CitedBy, WantedBy
<1>8. IsFiniteSet(S) /\ Cardinality(S) \in Nat /\ Cardinality(S) <= Len(e)
  <2>1. IsFiniteSet(Score!Range(e)) /\ Cardinality(Score!Range(e)) \in Nat /\ Cardinality(Score!Range(e)) <= Len(e)
    BY <1>2, ListIsFinite
  <2> QED BY <1>1, <2>1
<1>9. IsFiniteSet(cited) /\ Cardinality(cited) \in Nat /\ Cardinality(cited) <= Cardinality(S)
  BY <1>7, <1>8, FS_Subset, FS_CardinalityType
<1>10. Cardinality(h) <= Cardinality(cited)
  BY <1>6, <1>9, FS_Subset
<1>11. /\ Len(e) = Len(q.refs) /\ Cardinality(h) <= Cardinality(cited) /\ Cardinality(cited) <= Len(e)
       /\ Len(e) <= Score!Unit /\ (Len(list) <= TopK => Cardinality(h) = Cardinality(cited))
       /\ Score!RecallAtK(q.refs, Score!Refs(list), TopK) = Score!Share(Cardinality(h), Len(e))
       /\ Cardinality(h) \in Nat /\ Cardinality(cited) \in Nat /\ Len(e) \in Nat \ {0}
  <2>1. Cardinality(cited) <= Len(e)
    BY <1>4, <1>8, <1>9
  <2>2. Cardinality(h) \in Nat
    BY <1>4
  <2> QED BY <1>1, <1>2, <1>4, <1>6, <1>9, <1>10, <2>1, <2>2
<1> QED BY <1>5, <1>9, <1>11

LEMMA CitedIsWanted ==
    ASSUME NEW q, NEW list, NEW other
    PROVE  /\ CitedBy(q, list) = {} <=> WantedBy(q, list) = {}
           /\ WantedBy(q, list) \subseteq WantedBy(q, other) => CitedBy(q, list) \subseteq CitedBy(q, other)
BY DEF CitedBy

\* What is found of a list that fits the context shows in its recall: anything in a recall
\* above none, three tenths of the references in one of three tenths.
LEMMA RecallSeesTheContext ==
    ASSUME NEW q \in QuestionsAsked, q.refs # <<>>, NEW list \in Seq(Fragments), Len(list) <= TopK
    PROVE  LET recall == Score!RecallAtK(q.refs, Score!Refs(list), TopK) IN
           /\ WantedBy(q, list) # {} <=> recall > 0
           /\ 10 * Cardinality(CitedBy(q, list)) >= 3 * Len(q.refs) => recall >= 18
<1>1. PICK n \in Nat, d \in Nat \ {0} :
              /\ d = Len(q.refs) /\ n <= d /\ d <= Score!Unit
              /\ IsFiniteSet(CitedBy(q, list)) /\ n = Cardinality(CitedBy(q, list))
              /\ Score!RecallAtK(q.refs, Score!Refs(list), TopK) = Score!Share(n, d)
  BY RecallCounts
<1>2. PICK u \in Nat : u = Score!Unit /\ u = 60
  BY UnitIs
<1>3. Score!Share(n, d) \in 0..u /\ \A c \in Nat : Score!Share(n, d) >= c <=> u * n >= c * d
  <2>1. n \in 0..d
    BY <1>1
  <2>2. Score!Share(n, d) \in 0..Score!Unit /\ \A c \in Nat : Score!Share(n, d) >= c <=> Score!Unit * n >= c * d
    BY <2>1, ShareIsAShare, Zenon
  <2> QED BY <1>2, <2>2
<1>4. n = 0 <=> WantedBy(q, list) = {}
  BY <1>1, CitedIsWanted, FS_EmptySet
<1>5. n = 0 => ~(Score!Share(n, d) >= 1)
  <2>1. Score!Share(n, d) >= 1 <=> u * n >= 1 * d
    BY <1>3
  <2>2. n = 0 => u * n = 0
    OBVIOUS
  <2> QED BY <2>1, <2>2
<1>6. n # 0 => Score!Share(n, d) >= 1
  <2>1. Score!Share(n, d) >= 1 <=> u * n >= 1 * d
    BY <1>3
  <2>2. n # 0 => u * n >= u
    <3>1. ASSUME n # 0 PROVE u * n >= u
      <4>1. PICK e \in Nat : n = e + 1
        <5>1. n - 1 \in Nat /\ n = (n - 1) + 1
          BY <3>1
        <5> QED BY <5>1
      <4>2. u * (e + 1) = u * e + u /\ u * e \in Nat
        OBVIOUS
      <4> QED BY <4>1, <4>2
    <3> QED BY <3>1
  <2>3. u * n \in Nat
    OBVIOUS
  <2> QED BY <1>1, <1>2, <2>1, <2>2, <2>3
<1>7. 10 * n >= 3 * d => Score!Share(n, d) >= 18
  <2>1. Score!Share(n, d) >= 18 <=> u * n >= 18 * d
    BY <1>3
  <2> QED BY <1>2, <2>1
<1>8. PICK v \in Nat : v = Score!Share(n, d)
  BY <1>3
<1> QED BY <1>1, <1>4, <1>5, <1>6, <1>7, <1>8

\* A recall that fell needs a source that went: one of the reranker's list, not of the context.
LEMMA RecallFalls ==
    ASSUME NEW q \in QuestionsAsked, q.refs # <<>>, NEW before \in Seq(Fragments), NEW after \in Seq(Fragments),
           Len(after) <= TopK, WantedBy(q, before) \subseteq WantedBy(q, after)
    PROVE  Score!RecallAtK(q.refs, Score!Refs(before), TopK) <= Score!RecallAtK(q.refs, Score!Refs(after), TopK)
<1>1. PICK n \in Nat, c \in Nat, d \in Nat \ {0} :
              /\ d = Len(q.refs) /\ n <= c /\ c <= d
              /\ IsFiniteSet(CitedBy(q, before)) /\ c = Cardinality(CitedBy(q, before))
              /\ Score!RecallAtK(q.refs, Score!Refs(before), TopK) = Score!Share(n, d)
  BY RecallCounts
<1>2. PICK m \in Nat :
              /\ m <= d
              /\ IsFiniteSet(CitedBy(q, after)) /\ m = Cardinality(CitedBy(q, after))
              /\ Score!RecallAtK(q.refs, Score!Refs(after), TopK) = Score!Share(m, d)
  BY <1>1, RecallCounts
<1>3. c <= m
  <2>1. PICK C, D : C = CitedBy(q, before) /\ D = CitedBy(q, after)
    OBVIOUS
  <2>2. C \in SUBSET D
    BY <2>1, CitedIsWanted
  <2> QED BY <1>1, <1>2, <2>1, <2>2, FS_Subset
<1> QED BY <1>1, <1>2, <1>3, SharesGrow

Scored(q, a, l, s, m, v) ==
    m = Score!Evaluated(q, a, l, s) /\ v = Score!Diagnosed(Score!Answerability(q), m, q.scope)

\* What a failed question's verdict says of it.
LEMMA VerdictSays ==
    ASSUME NEW w, NEW m, NEW scope, NEW v, v = Score!Diagnosed(w, m, scope),
           v \in {"suspected_ungrounded_answer", "retrieval", "rerank", "generation"}
    PROVE  /\ w = "answerable" /\ scope # "global"
           /\ v # "generation" => Score!Has(m, "retrieval_recall_at_k") /\ m["retrieval_recall_at_k"] < 18
           /\ v = "generation" => ~Score!Has(m, "retrieval_recall_at_k") \/ ~(m["retrieval_recall_at_k"] < 18)
           /\ v = "rerank" => Score!Has(m, "pre_rerank_recall_at_k") /\ m["pre_rerank_recall_at_k"] >= 36
BY DEF Score!Diagnosed, Score!Below

\* Of an answerable question whose sources are named there is a recall, and another where a
\* reranker was given a list.
LEMMA RecallsAreThere ==
    ASSUME NEW q \in QuestionsAsked, NEW a, NEW l \in FoundLists, NEW s, NEW m, m = Score!Evaluated(q, a, l, s),
           Score!Answerability(q) = "answerable", q.scope # "global"
    PROVE  /\ Score!Has(m, "retrieval_recall_at_k")
           /\ m["retrieval_recall_at_k"] = Score!RecallAtK(q.refs, Score!Refs(l.final), TopK)
           /\ Score!Has(m, "pre_rerank_recall_at_k") =>
                 /\ l.preRerank # <<>>
                 /\ m["pre_rerank_recall_at_k"] = Score!RecallAtK(q.refs, Score!Refs(l.preRerank), TopK)
<1>1. l.final \in Seq(Fragments)
  BY DEF FoundLists
<1>2. Score!RecallAtK(q.refs, Score!Refs(l.final), TopK) \in Nat
  BY <1>1, RecallIsANumber
<1>3. Nil \notin Nat
  BY ScoreAssumption DEF Score!Assumptions
<1>4. PICK x : x = Score!RetrievalScores(q, l)
  OBVIOUS
<1>5. /\ x["retrieval_recall_at_k"] = Score!RecallAtK(q.refs, Score!Refs(l.final), TopK)
      /\ x["pre_rerank_recall_at_k"] =
            IF l.preRerank = <<>> THEN Nil ELSE Score!RecallAtK(q.refs, Score!Refs(l.preRerank), TopK)
  BY <1>4 DEF Score!RetrievalScores
<1>6. /\ "retrieval_recall_at_k" \in DOMAIN Score!Evaluated(q, a, l, s)
      /\ Score!Evaluated(q, a, l, s)["retrieval_recall_at_k"] = Score!RetrievalScores(q, l)["retrieval_recall_at_k"]
  <2>1. "retrieval_recall_at_k" \in OfRanking
    BY DEF OfRanking
  <2>2. Score!RetrievalScores(q, l)["retrieval_recall_at_k"] # Nil
    BY <1>2, <1>3, <1>4, <1>5
  <2> QED BY <2>1, <2>2, RankingIsRecorded
<1>7. ASSUME "pre_rerank_recall_at_k" \in DOMAIN m
      PROVE  x["pre_rerank_recall_at_k"] # Nil /\ m["pre_rerank_recall_at_k"] = x["pre_rerank_recall_at_k"]
  <2>1. PICK n : n = "pre_rerank_recall_at_k"
    OBVIOUS
  <2>2. n \in DOMAIN Score!Evaluated(q, a, l, s)
    BY <1>7, <2>1
  <2>3. n # "correct_refusal" /\ n \notin OfText
    BY <2>1 DEF OfText
  <2>4. Score!Evaluated(q, a, l, s)[n] # Nil /\ Score!Evaluated(q, a, l, s)[n] = Score!RetrievalScores(q, l)[n]
    BY <2>2, <2>3, MetricIsOfAKind
  <2> QED BY <1>4, <2>1, <2>4
<1> QED BY <1>4, <1>5, <1>6, <1>7 DEF Score!Has

\* The verdicts are earned.
LEMMA VerdictIsEarned ==
    ASSUME NEW q \in QuestionsAsked, NEW a, NEW l \in FoundLists, NEW s, NEW m, NEW v, Scored(q, a, l, s, m, v),
           ~s.external => Len(l.final) <= TopK, s.external => l.preRerank = <<>>
    PROVE  /\ v = "rerank" => ~(WantedBy(q, l.preRerank) \subseteq WantedBy(q, l.final))
           /\ v = "generation" => WantedBy(q, l.final) # {}
           /\ (~s.external /\ q.refs # <<>> /\ 10 * Cardinality(CitedBy(q, l.final)) >= 3 * Len(q.refs))
                 => v \notin {"retrieval", "rerank", "suspected_ungrounded_answer"}
<1>1. l.final \in Seq(Fragments) /\ l.preRerank \in Seq(Fragments)
  BY DEF FoundLists
<1>2. PICK recall \in Nat, given \in Nat :
         /\ recall = Score!RecallAtK(q.refs, Score!Refs(l.final), TopK)
         /\ given = Score!RecallAtK(q.refs, Score!Refs(l.preRerank), TopK)
  BY <1>1, RecallIsANumber
<1>3. ASSUME v \in {"suspected_ungrounded_answer", "retrieval", "rerank", "generation"}
      PROVE  /\ v # "generation" => recall < 18
             /\ v = "generation" => ~(recall < 18)
             /\ v = "rerank" => given >= 36 /\ l.preRerank # <<>>
  <2>1. PICK w, scope : w = Score!Answerability(q) /\ scope = q.scope
    OBVIOUS
  <2>2. v = Score!Diagnosed(w, m, scope) /\ m = Score!Evaluated(q, a, l, s)
    BY <2>1 DEF Scored
  <2>3. /\ w = "answerable" /\ scope # "global"
        /\ v # "generation" => Score!Has(m, "retrieval_recall_at_k") /\ m["retrieval_recall_at_k"] < 18
        /\ v = "generation" => ~Score!Has(m, "retrieval_recall_at_k") \/ ~(m["retrieval_recall_at_k"] < 18)
        /\ v = "rerank" => Score!Has(m, "pre_rerank_recall_at_k") /\ m["pre_rerank_recall_at_k"] >= 36
    BY <1>3, <2>2, VerdictSays
  <2>4. /\ Score!Has(m, "retrieval_recall_at_k")
        /\ m["retrieval_recall_at_k"] = Score!RecallAtK(q.refs, Score!Refs(l.final), TopK)
        /\ Score!Has(m, "pre_rerank_recall_at_k") =>
                 /\ l.preRerank # <<>>
                 /\ m["pre_rerank_recall_at_k"] = Score!RecallAtK(q.refs, Score!Refs(l.preRerank), TopK)
    BY <2>1, <2>2, <2>3, RecallsAreThere
  <2> QED BY <1>2, <2>3, <2>4
<1>4. ASSUME v = "rerank", WantedBy(q, l.preRerank) \subseteq WantedBy(q, l.final) PROVE FALSE
  <2>1. recall < 18 /\ given >= 36 /\ l.preRerank # <<>>
    BY <1>3, <1>4
  <2>2. q.refs # <<>>
    BY <1>2, <2>1 DEF Score!RecallAtK
  <2>3. ~s.external
    BY <2>1
  <2>4. given <= recall
    BY <1>1, <1>2, <1>4, <2>2, <2>3, RecallFalls
  <2> QED BY <2>1, <2>4
<1>5. ASSUME v = "generation" PROVE WantedBy(q, l.final) # {}
  <2>1. ~(recall < 18)
    BY <1>3, <1>5
  <2>2. q.refs # <<>>
    BY <1>2, <2>1 DEF Score!RecallAtK
  <2>3. PICK n \in Nat, c \in Nat, d \in Nat \ {0} :
              /\ n <= c /\ c <= d
              /\ IsFiniteSet(CitedBy(q, l.final)) /\ c = Cardinality(CitedBy(q, l.final))
              /\ recall = Score!Share(n, d)
    BY <1>1, <1>2, <2>2, RecallCounts
  <2>4. n # 0
    <3>1. PICK z \in Nat : z = 0
      OBVIOUS
    <3>2. z \in 0..d /\ Score!Unit * z = 0
      BY <3>1, UnitIs
    <3>3. Score!Share(z, d) >= 1 <=> Score!Unit * z >= 1 * d
      BY <3>2, ShareIsAShare
    <3>4. ~(Score!Share(z, d) >= 1)
      BY <3>2, <3>3
    <3> QED BY <2>1, <2>3, <3>1, <3>4
  <2>5. CitedBy(q, l.final) # {}
    BY <2>3, <2>4, FS_EmptySet
  <2> QED BY <2>5, CitedIsWanted
<1>6. ASSUME ~s.external, q.refs # <<>>, 10 * Cardinality(CitedBy(q, l.final)) >= 3 * Len(q.refs)
      PROVE  v \notin {"retrieval", "rerank", "suspected_ungrounded_answer"}
  <2>1. recall >= 18
    BY <1>1, <1>2, <1>6, RecallSeesTheContext
  <2> QED BY <1>3, <2>1
<1> QED BY <1>4, <1>5, <1>6

\* A list has a rank for a question exactly when it has what is wanted.
LEMMA RankIsOfTheWanted ==
    ASSUME NEW q, NEW list \in Seq(Fragments)
    PROVE  Score!FirstRank(q.refs, list) # Nil <=> WantedBy(q, list) # {}
<1> DEFINE at == {i \in DOMAIN list : Score!RefId(list[i]) \in Score!Range(q.refs)}
<1>1. at = {} <=> WantedBy(q, list) = {}
  BY DEF WantedBy, Score!Range
<1>2. PICK n \in Nat : n = Len(list) /\ at \in SUBSET (1..n)
  <2>1. DOMAIN list = 1..Len(list) /\ Len(list) \in Nat
    OBVIOUS
  <2> QED BY <2>1
<1>3. Score!FirstRank(q.refs, list) = IF at = {} THEN Nil ELSE Score!Min(at)
  BY DEF Score!FirstRank
<1> HIDE DEF at
<1>4. IsFiniteSet(at) /\ at \in SUBSET Int
  <2>1. IsFiniteSet(1..n)
    BY FS_Interval
  <2>2. IsFiniteSet(at)
    BY <1>2, <2>1, FS_Subset
  <2>3. at \in SUBSET Int
    BY <1>2
  <2> QED BY <2>2, <2>3
<1>5. at # {} => Score!Min(at) \in at
  BY <1>4, MaxIsThere DEF Score!Min, Min
<1>6. Nil \notin Nat
  BY ScoreAssumption DEF Score!Assumptions
<1>7. CASE at = {}
  BY <1>1, <1>3, <1>7
<1>8. CASE at # {}
  <2>1. PICK m : m = Score!Min(at) /\ m \in at
    BY <1>5, <1>8
  <2>2. m \in 1..n
    BY <1>2, <2>1
  <2>3. m \in Nat
    BY <1>2, <2>2
  <2> QED BY <1>1, <1>3, <1>6, <1>8, <2>1, <2>3
<1> QED BY <1>7, <1>8

LEMMA JoinedLists ==
    ASSUME NEW X, NEW s \in Seq(X), NEW t \in Seq(X)
    PROVE  /\ s \o t \in Seq(X) /\ Len(s \o t) = Len(s) + Len(t)
           /\ \A i \in 1..Len(s) : (s \o t)[i] = s[i]
           /\ \A i \in 1..Len(t) : (s \o t)[Len(s) + i] = t[i]
<1>1. s \o t \in Seq(X)
  OBVIOUS
<1>2. Len(s \o t) = Len(s) + Len(t)
  OBVIOUS
<1>3. ASSUME NEW i \in 1..Len(s) PROVE (s \o t)[i] = s[i]
  OBVIOUS
<1>4. ASSUME NEW i \in 1..Len(t) PROVE (s \o t)[Len(s) + i] = t[i]
  OBVIOUS
<1> QED BY <1>1, <1>2, <1>3, <1>4

LEMMA OneMore ==
    ASSUME NEW X, NEW s \in Seq(X), NEW t \in Seq(X), Len(t) = 1
    PROVE  /\ DOMAIN (s \o t) = 1..(Len(s) + 1)
           /\ \A i \in DOMAIN s : (s \o t)[i] = s[i]
           /\ (s \o t)[Len(s) + 1] = t[1]
<1>1. DOMAIN s = 1..Len(s) /\ 1 \in 1..Len(t)
  OBVIOUS
<1>2. PICK j : j = s \o t
  OBVIOUS
<1>3. j \in Seq(X) /\ Len(j) = Len(s) + 1
  <2>1. j \in Seq(X) /\ Len(j) = Len(s) + Len(t)
    BY <1>2, JoinedLists, Zenon
  <2> QED BY <2>1
<1>4. DOMAIN j = 1..(Len(s) + 1)
  BY <1>3
<1> QED BY <1>1, <1>2, <1>4, JoinedLists

\* With a reranked list that had it, the stages lose it there unless the context has some.
LEMMA StagesLoseIt ==
    ASSUME NEW q, q.scope # "global", NEW l \in FoundLists, l.preRerank # <<>>,
           l.window # <<>> => l.window = l.preRerank, WantedBy(q, l.preRerank) # {}
    PROVE  Score!LostAt(q, l) = IF WantedBy(q, l.final) = {} THEN "rerank" ELSE Nil
<1>1. l.final \in Seq(Fragments) /\ l.preRerank \in Seq(Fragments)
  BY DEF FoundLists
<1>2. PICK w, r, c : /\ w = [stage |-> "retrieval", list |-> l.preRerank]
                     /\ r = [stage |-> "rerank", list |-> l.final]
                     /\ c = [stage |-> "context", list |-> l.final]
  OBVIOUS
<1>3. Score!Stages(l) = (<<w>> \o <<r>>) \o <<c>>
  BY <1>2 DEF Score!Stages
<1>4. PICK st : st = Score!Stages(l)
  OBVIOUS
<1>5. DOMAIN st = 1..3 /\ st[1] = w /\ st[2] = r /\ st[3] = c
  <2>1. PICK X : X = {w, r, c}
    OBVIOUS
  <2>2. PICK p : p = <<w>> \o <<r>>
    OBVIOUS
  <2>3. p \in Seq(X) /\ Len(p) = 2 /\ p[1] = w /\ p[2] = r
    <3>1. /\ <<w>> \in Seq(X) /\ Len(<<w>>) = 1 /\ <<w>>[1] = w
          /\ <<r>> \in Seq(X) /\ Len(<<r>>) = 1 /\ <<r>>[1] = r
      BY <2>1
    <3> QED BY <2>2, <3>1
  <2>4. PICK k : k = <<c>>
    OBVIOUS
  <2>5. k \in Seq(X) /\ Len(k) = 1 /\ k[1] = c
    BY <2>1, <2>4
  <2>6. st = p \o k
    BY <1>3, <1>4, <2>2, <2>4
  <2>7. DOMAIN p = 1..2 /\ Len(p) = 2
    BY <2>3
  <2>8. DOMAIN st = 1..(Len(p) + 1) /\ (\A i \in DOMAIN p : st[i] = p[i]) /\ st[Len(p) + 1] = k[1]
    BY <2>3, <2>5, <2>6, OneMore
  <2> QED BY <2>3, <2>5, <2>7, <2>8
<1> DEFINE has(i) == q.scope # "global" /\ Score!FirstRank(q.refs, st[i].list) # Nil
           lost == {i \in DOMAIN st : ~has(i) /\ \E j \in 1..(i - 1) : has(j)}
<1>6. has(1) /\ (has(2) <=> WantedBy(q, l.final) # {}) /\ (has(3) <=> WantedBy(q, l.final) # {})
  <2>1. st[1].list = l.preRerank /\ st[2].list = l.final /\ st[3].list = l.final
    BY <1>2, <1>5
  <2>2. Score!FirstRank(q.refs, l.preRerank) # Nil /\ (Score!FirstRank(q.refs, l.final) # Nil <=> WantedBy(q, l.final) # {})
    BY <1>1, RankIsOfTheWanted
  <2> QED BY <2>1, <2>2
<1>7. Score!LostAt(q, l) = IF lost = {} THEN Nil ELSE st[Score!Min(lost)].stage
  BY <1>3, <1>4 DEF Score!LostAt
<1> HIDE DEF has
<1>8. CASE WantedBy(q, l.final) # {}
  <2>1. lost = {}
    BY <1>5, <1>6, <1>8
  <2> QED BY <1>7, <1>8, <2>1
<1>9. CASE WantedBy(q, l.final) = {}
  <2>1. lost = {2, 3}
    <3>1. 2 \in lost /\ 3 \in lost /\ 1 \notin lost
      BY <1>5, <1>6, <1>9
    <3>2. lost \subseteq {1, 2, 3}
      BY <1>5
    <3> HIDE DEF lost
    <3> QED BY <3>1, <3>2
  <2>2. Score!Min({2, 3}) = 2
    <3>1. \E x \in {2, 3} : \A y \in {2, 3} : x <= y
      OBVIOUS
    <3>2. \A x \in {2, 3} : (\A y \in {2, 3} : x <= y) => x = 2
      OBVIOUS
    <3> QED BY <3>1, <3>2 DEF Score!Min
  <2> HIDE DEF lost
  <2> QED BY <1>2, <1>5, <1>7, <1>9, <2>1, <2>2
<1> QED BY <1>8, <1>9

(* The inductive invariant of scoring *)

ListsFit(l, s) ==
    /\ ~s.external => Len(l.final) <= TopK
    /\ s.external => l.preRerank = <<>>
    /\ l.window # <<>> /\ l.preRerank # <<>> => l.window = l.preRerank

ScoreInv ==
    /\ phase \in {"asked", "indexed", "retrieved", "answered", "scored", "diagnosed"}
    /\ question \in QuestionsAsked /\ setup \in Setups
    /\ index \in SUBSET Fragments
    /\ resolver # Nil => resolver = Score!KnownRefs(index)
    /\ lists \in FoundLists /\ ListsFit(lists, setup)
    /\ answer.similar \in (-Score!Unit)..Score!Unit
    /\ Score!IsScored => Scored(question, answer, lists, setup, metrics, verdict)
    /\ ~Score!IsScored => metrics = <<>> /\ verdict = Nil
    /\ phase # "diagnosed" => cause = Score!NoCause
    /\ Score!MissingDataNeedsAClaim /\ Score!CauseIsInTheIndex

LEMMA ScoreConstants ==
    /\ IsFiniteSet(Fragments) /\ Indices \subseteq SUBSET Fragments
    /\ \A s \in Setups : s.fetch \in Nat
    /\ \A t \in AnswerTexts : t.similar \in (-Score!Unit)..Score!Unit
    /\ Nil \notin Int /\ Nil \notin {"data_missing", "ranking", "chunking", "vocabulary"}
<1>1. Score!IsFiniteSet(Fragments) <=> IsFiniteSet(Fragments)
  BY DEF Score!IsFiniteSet, IsFiniteSet
<1> QED BY <1>1, ScoreAssumption DEF Score!Assumptions

LEMMA NoCauseIsEarned == cause = Score!NoCause => Score!MissingDataNeedsAClaim /\ Score!CauseIsInTheIndex
BY ScoreConstants DEF Score!NoCause, Score!MissingDataNeedsAClaim, Score!CauseIsInTheIndex

LEMMA RankingHasFew ==
    ASSUME NEW S, IsFiniteSet(S), NEW n \in Nat, NEW found \in Score!Ranking(S, n)
    PROVE  found \in Seq(S) /\ Len(found) <= n
<1>1. PICK c \in Nat : c = Cardinality(S)
  BY FS_CardinalityType
<1>2. PICK m \in Nat : m = (IF n < c THEN n ELSE c) /\ m <= n
  OBVIOUS
<1>3. \E k \in 0..m : found \in [1..k -> S]
  BY <1>1, <1>2, SameOperators DEF Score!Ranking
<1> QED BY <1>2, <1>3

LEMMA ScoreStarts == Score!Init => ScoreInv
<1> SUFFICES ASSUME Score!Init PROVE ScoreInv
  OBVIOUS
<1>1. lists \in FoundLists /\ ListsFit(lists, setup)
  <2>1. lists = [window |-> <<>>, preRerank |-> <<>>, final |-> <<>>]
    BY DEF Score!Init, Score!NoLists
  <2>2. <<>> \in Seq(Fragments) /\ Len(<<>>) = 0
    OBVIOUS
  <2>3. PICK k \in Nat : k = TopK
    BY BoundsAreNumbers
  <2> QED BY <2>1, <2>2, <2>3 DEF FoundLists, ListsFit
<1>2. answer.similar \in (-Score!Unit)..Score!Unit
  BY UnitIs DEF Score!Init, Score!NoAnswer
<1>3. Score!MissingDataNeedsAClaim /\ Score!CauseIsInTheIndex
  BY NoCauseIsEarned DEF Score!Init
<1> QED BY <1>1, <1>2, <1>3 DEF ScoreInv, Score!Init, Score!IsScored, QuestionsAsked

\* The statements about a cause are kept where neither it nor what they speak of changes.
CauseStays == UNCHANGED <<question, index, cause>>
LEMMA CauseIsKept ==
    ASSUME CauseStays, Score!MissingDataNeedsAClaim, Score!CauseIsInTheIndex
    PROVE  Score!MissingDataNeedsAClaim' /\ Score!CauseIsInTheIndex'
BY DEF CauseStays, Score!MissingDataNeedsAClaim, Score!CauseIsInTheIndex, Score!IsItself

LEMMA IndexIsRead ==
    ASSUME ScoreInv, NEW fragments \in Indices, NEW readable \in BOOLEAN, Score!Start(fragments, readable)
    PROVE  ScoreInv'
<1>1. index' \in SUBSET Fragments
  BY ScoreConstants DEF Score!Start
<1>2. cause' = Score!NoCause
  BY DEF Score!Start, ScoreInv
<1>3. Score!MissingDataNeedsAClaim' /\ Score!CauseIsInTheIndex'
  BY <1>2, ScoreConstants DEF Score!NoCause, Score!MissingDataNeedsAClaim, Score!CauseIsInTheIndex
<1>4. resolver' # Nil => resolver' = Score!KnownRefs(index)'
  BY DEF Score!Start, Score!ResolverOf, Score!KnownRefs
<1> QED BY <1>1, <1>2, <1>3, <1>4 DEF ScoreInv, Score!Start, Score!IsScored

LEMMA FragmentsAreRetrieved ==
    ASSUME ScoreInv, NEW found \in Score!Ranking(index, setup.fetch), NEW ranked \in Score!Ranking(Score!Range(found), TopK),
           Score!Retrieve(found, ranked)
    PROVE  ScoreInv'
<1>1. index \in SUBSET Fragments /\ IsFiniteSet(index) /\ setup.fetch \in Nat
  BY ScoreConstants, FS_Subset DEF ScoreInv
<1>2. found \in Seq(index)
  BY <1>1, RankingHasFew
<1>3. found \in Seq(Fragments)
  BY <1>1, <1>2
<1>4. IsFiniteSet(Score!Range(found)) /\ Score!Range(found) \in SUBSET Fragments
  BY <1>3, ListIsFinite
<1>5. PICK k \in Nat : k = TopK
  BY BoundsAreNumbers
<1>6. ranked \in Seq(Score!Range(found))
  BY <1>4, <1>5, RankingHasFew
<1>7. ranked \in Seq(Fragments)
  BY <1>4, <1>6
<1>8. Len(Score!Cut(found, TopK)) <= TopK
  BY <1>3, <1>5, CutIsPart
<1>9. Len(ranked) <= TopK
  BY <1>8 DEF Score!Retrieve
<1>10. lists' = [window |-> IF setup.fetch > TopK THEN found ELSE <<>>,
                 preRerank |-> IF setup.reranker THEN found ELSE <<>>,
                 final |-> ranked]
  BY DEF Score!Retrieve
<1>11. lists' \in FoundLists
  <2>1. <<>> \in Seq(Fragments)
    OBVIOUS
  <2> QED BY <1>3, <1>7, <1>10, <2>1 DEF FoundLists
<1>12. ListsFit(lists', setup')
  <2>1. ~setup.external /\ setup' = setup
    BY DEF Score!Retrieve
  <2> QED BY <1>9, <1>10, <2>1 DEF ListsFit
<1>13. CauseStays
  BY DEF Score!Retrieve, CauseStays
<1>14. Score!MissingDataNeedsAClaim' /\ Score!CauseIsInTheIndex'
  BY <1>13, CauseIsKept DEF ScoreInv
<1> QED BY <1>11, <1>12, <1>14 DEF ScoreInv, Score!Retrieve, Score!IsScored

LEMMA FragmentsAreReceived ==
    ASSUME ScoreInv, NEW found \in Score!Ranking(Fragments, Score!Cardinality(Fragments)), Score!Receive(found)
    PROVE  ScoreInv'
<1>1. found \in Seq(Fragments)
  <2>1. IsFiniteSet(Fragments) /\ Cardinality(Fragments) \in Nat /\ Score!Cardinality(Fragments) = Cardinality(Fragments)
    BY ScoreConstants, SameOperators, FS_CardinalityType
  <2> QED BY <2>1, RankingHasFew
<1>2. lists' = [window |-> <<>>, preRerank |-> <<>>, final |-> found]
  BY DEF Score!Receive, Score!NoLists
<1>3. <<>> \in Seq(Fragments)
  OBVIOUS
<1>4. lists' \in FoundLists
  BY <1>1, <1>2, <1>3 DEF FoundLists
<1>5. ListsFit(lists', setup')
  BY <1>2 DEF ListsFit, Score!Receive
<1>6. CauseStays
  BY DEF Score!Receive, CauseStays
<1>7. Score!MissingDataNeedsAClaim' /\ Score!CauseIsInTheIndex'
  BY <1>6, CauseIsKept DEF ScoreInv
<1> QED BY <1>4, <1>5, <1>7 DEF ScoreInv, Score!Receive, Score!IsScored

LEMMA TextIsReplied ==
    ASSUME ScoreInv, NEW t \in AnswerTexts, NEW fragments, Score!Reply(t, fragments)
    PROVE  ScoreInv'
<1>1. answer'.similar \in (-Score!Unit)..Score!Unit
  BY ScoreConstants DEF Score!Reply
<1>2. Score!MissingDataNeedsAClaim' /\ Score!CauseIsInTheIndex'
  <2>1. CauseStays
    BY DEF Score!Reply, CauseStays
  <2> QED BY <2>1, CauseIsKept DEF ScoreInv
<1> QED BY <1>1, <1>2 DEF ScoreInv, Score!Reply, Score!IsScored

LEMMA AnswerabilityStays ==
    ASSUME UNCHANGED <<question, resolver>>
    PROVE  Score!Answerability(question)' = Score!Answerability(question)
BY DEF Score!Answerability, Score!Classified, Score!Presence

LEMMA ScoringStays ==
    ASSUME UNCHANGED <<question, resolver, answer, lists, setup>>
    PROVE  Score!Evaluated(question, answer, lists, setup)' = Score!Evaluated(question, answer, lists, setup)
BY DEF Score!Evaluated, Score!Answerability, Score!Classified, Score!Presence

LEMMA AnswerIsScored == ASSUME ScoreInv, Score!Score PROVE ScoreInv'
<1>1. UNCHANGED <<question, setup, index, resolver, lists, answer, cause>>
  BY DEF Score!Score
<1>2. Scored(question, answer, lists, setup, metrics, verdict)'
  <2>1. metrics' = Score!Evaluated(question, answer, lists, setup)
    BY DEF Score!Score
  <2>2. verdict' = Score!Diagnosed(Score!Answerability(question), metrics', question.scope)
    BY DEF Score!Score
  <2>3. metrics' = Score!Evaluated(question, answer, lists, setup)'
    BY <1>1, <2>1, ScoringStays
  <2>4. Score!Answerability(question)' = Score!Answerability(question)
    BY <1>1, AnswerabilityStays
  <2> QED BY <1>1, <2>2, <2>3, <2>4 DEF Scored
<1>3. Score!MissingDataNeedsAClaim' /\ Score!CauseIsInTheIndex'
  <2>1. CauseStays
    BY <1>1 DEF CauseStays
  <2> QED BY <2>1, CauseIsKept DEF ScoreInv
<1> QED BY <1>1, <1>2, <1>3 DEF ScoreInv, Score!Score, Score!IsScored

\* The fragments of the index that carry a reference.
Carrying(r) == {f \in index : Score!RefId(f) = r}

LEMMA CarryingIsFinite ==
    ASSUME ScoreInv, NEW r
    PROVE  IsFiniteSet(Carrying(r)) /\ Cardinality(Carrying(r)) \in Nat
<1>1. IsFiniteSet(index)
  BY ScoreConstants, FS_Subset DEF ScoreInv
<1>2. Carrying(r) \in SUBSET index
  BY DEF Carrying
<1> QED BY <1>1, <1>2, FS_Subset, FS_CardinalityType

LEMMA CountIsOfTheIndex ==
    ASSUME NEW r
    PROVE  Score!ChunkCount(r) = IF resolver = Nil THEN Nil ELSE Cardinality(Carrying(r))
BY SameOperators DEF Score!ChunkCount, Carrying

(* The references a failed question is looked up by *)

Naming(key) == {i \in DOMAIN DataSetAsked : DataSetAsked[i].refs # <<>> /\ DataSetAsked[i].id = key}
Wording(key) == {i \in DOMAIN DataSetAsked : DataSetAsked[i].refs # <<>> /\ DataSetAsked[i].text = key}

LEMMA LookupIs ==
    ASSUME NEW key
    PROVE  /\ Naming(key) # {} =>
                \E i \in Naming(key) : Score!ExpectedAt(key) = DataSetAsked[i].refs
           /\ Naming(key) = {} /\ Wording(key) # {} =>
                \E i \in Wording(key) : Score!ExpectedAt(key) = DataSetAsked[i].refs
           /\ Naming(key) = {} /\ Wording(key) = {} => Score!ExpectedAt(key) = <<>>
<1>1. PICK n \in Nat : DOMAIN DataSetAsked = 1..n
  <2>1. DataSetAsked \in Seq(Score!Range(DataSetAsked))
    BY ScoreAssumption DEF Score!Assumptions
  <2> QED BY <2>1
<1>2. IsFiniteSet(1..n)
  BY FS_Interval
<1>3. /\ Naming(key) \in SUBSET (1..n) /\ Wording(key) \in SUBSET (1..n)
      /\ Naming(key) \in SUBSET Int /\ Wording(key) \in SUBSET Int
  BY <1>1 DEF Naming, Wording
<1>4. IsFiniteSet(Naming(key)) /\ IsFiniteSet(Wording(key))
  BY <1>2, <1>3, FS_Subset
<1>5. Naming(key) # {} => Score!Max(Naming(key)) \in Naming(key)
  BY <1>3, <1>4, MaxIsThere DEF Score!Max, Max
<1>6. Wording(key) # {} => Score!Min(Wording(key)) \in Wording(key)
  BY <1>3, <1>4, MaxIsThere DEF Score!Min, Min
<1>7. Score!ExpectedAt(key) =
        IF Naming(key) # {} THEN DataSetAsked[Score!Max(Naming(key))].refs
        ELSE IF Wording(key) # {} THEN DataSetAsked[Score!Min(Wording(key))].refs ELSE <<>>
  <2>1. PICK named : named = {i \in DOMAIN DataSetAsked : DataSetAsked[i].refs # <<>>}
    OBVIOUS
  <2>2. /\ {i \in named : DataSetAsked[i].id = key} = Naming(key)
        /\ {i \in named : DataSetAsked[i].text = key} = Wording(key)
    BY <2>1 DEF Naming, Wording
  <2> QED BY <2>1, <2>2 DEF Score!ExpectedAt
<1> QED BY <1>5, <1>6, <1>7

\* A question of its own id, or whose name and text are no other's, is looked up as itself.
LEMMA LookedUpAsItself ==
    ASSUME question \in QuestionsAsked, Score!IsItself
    PROVE  Score!ExpectedRefs(question) = question.refs
<1>1. PICK others : others = {q \in QuestionsAsked \ {question} : q.refs # <<>>}
  OBVIOUS
<1>2. \A i \in DOMAIN DataSetAsked :
        DataSetAsked[i].refs # <<>> => DataSetAsked[i] = question \/ DataSetAsked[i] \in others
  BY <1>1 DEF QuestionsAsked, Score!Question, Score!Range
<1>3. PICK at \in DOMAIN DataSetAsked : DataSetAsked[at] = question
  BY DEF QuestionsAsked, Score!Question, Score!Range
<1>4. ASSUME NEW key, \A q \in others : q.id # key,
             question.refs # <<>>, question.id = key
      PROVE  Score!ExpectedAt(key) = question.refs
  <2>1. at \in Naming(key)
    BY <1>3, <1>4 DEF Naming
  <2>2. PICK i \in Naming(key) : Score!ExpectedAt(key) = DataSetAsked[i].refs
    BY <2>1, LookupIs
  <2>3. DataSetAsked[i] = question
    BY <1>2, <1>4 DEF Naming
  <2> QED BY <2>2, <2>3
<1>5. ASSUME NEW key, \A q \in others : q.id # key /\ q.text # key
      PROVE  /\ Score!ExpectedAt(key) \in {question.refs, <<>>}
             /\ question.text = key => Score!ExpectedAt(key) = question.refs
  <2>1. \A i \in Naming(key) \cup Wording(key) : DataSetAsked[i] = question
    BY <1>2, <1>5 DEF Naming, Wording
  <2>2. Score!ExpectedAt(key) \in {question.refs, <<>>}
    BY <2>1, LookupIs
  <2>3. ASSUME question.text = key PROVE Score!ExpectedAt(key) = question.refs
    <3>1. question.refs # <<>> => at \in Wording(key)
      BY <1>3, <2>3 DEF Wording
    <3>2. question.refs # <<>> => Score!ExpectedAt(key) = question.refs
      BY <2>1, <3>1, LookupIs
    <3> QED BY <2>2, <3>2
  <2> QED BY <2>2, <2>3
<1>6. Score!ExpectedRefs(question) =
        IF question.called # Nil /\ Score!ExpectedAt(question.called) # <<>>
        THEN Score!ExpectedAt(question.called) ELSE Score!ExpectedAt(question.text)
  BY DEF Score!ExpectedRefs
<1>7. CASE /\ question.refs # <<>> /\ question.called # Nil /\ question.id = question.called
           /\ \A q \in others : q.id # question.id
  <2>1. Score!ExpectedAt(question.called) = question.refs
    BY <1>4, <1>7
  <2> QED BY <1>6, <1>7, <2>1
<1>8. ASSUME NEW a, NEW b, NEW c, NEW d, {a, b} \cap {c, d} \subseteq {Nil}
      PROVE  /\ c # Nil => a # c /\ b # c
             /\ d # Nil => a # d /\ b # d
  <2>1. \A x \in {a, b} \cap {c, d} : x \in {Nil}
    BY <1>8, Zenon
  <2>2. c \in {a, b} => c = Nil
    BY <2>1
  <2>3. d \in {a, b} => d = Nil
    BY <2>1
  <2> QED BY <2>2, <2>3
<1>9. CASE \A q \in others : {q.id, q.text} \cap {question.called, question.text} \subseteq {Nil}
  <2>1. question.text # Nil
    BY ScoreAssumption DEF Score!Assumptions, QuestionsAsked
  <2>2. \A q \in others : q.id # question.text /\ q.text # question.text
    BY <1>8, <1>9, <2>1
  <2>3. Score!ExpectedAt(question.text) = question.refs
    BY <1>5, <2>2
  <2>4. question.called # Nil => Score!ExpectedAt(question.called) \in {question.refs, <<>>}
    <3>1. question.called # Nil => \A q \in others : q.id # question.called /\ q.text # question.called
      BY <1>8, <1>9
    <3> QED BY <1>5, <3>1
  <2> QED BY <1>6, <2>3, <2>4
<1> QED BY <1>1, <1>7, <1>9 DEF Score!IsItself, QuestionsAsked

\* Data is said to be missing of an answerable question only where the dataset said so.
LEMMA MissingIsClaimed ==
    ASSUME ScoreInv, phase = "scored", verdict = "retrieval", NEW miss, NEW counts,
           Score!Cause(question.refs, miss, counts) = "data_missing"
    PROVE  question.given = "answerable"
<1>1. Score!Answerability(question) = "answerable"
  <2>1. verdict = Score!Diagnosed(Score!Answerability(question), metrics, question.scope)
    BY DEF ScoreInv, Scored, Score!IsScored
  <2>2. PICK w, scope : w = Score!Answerability(question) /\ scope = question.scope
    OBVIOUS
  <2>3. w = "answerable"
    BY <2>1, <2>2, VerdictSays
  <2> QED BY <2>2, <2>3
<1> DEFINE states == {Score!Presence(r) : r \in Score!Range(question.refs)}
           known == {counts[r] : r \in Score!Range(question.refs)} \ {Nil}
<1>2. question.refs # <<>> /\ "absent" \in states
  <2>1. Score!Cause(question.refs, miss, counts) =
          (IF question.refs = <<>> THEN "unknown"
           ELSE IF "absent" \in states THEN "data_missing"
           ELSE IF "unknown" \in states \/ miss = Nil THEN "unknown"
           ELSE IF miss.rank # Nil THEN "ranking"
           ELSE IF known # {} /\ Score!Max(known) > 1 THEN "chunking"
           ELSE "not_retrievable")
    BY DEF Score!Cause
  <2> HIDE DEF states, known
  <2> QED BY <2>1
<1>3. PICK r \in Score!Range(question.refs) : Score!Presence(r) = "absent"
  BY <1>2
<1>4. Score!Classified(question) = "uncovered"
  BY <1>2, <1>3 DEF Score!Classified
<1> QED BY <1>1, <1>4 DEF Score!Answerability

\* Data is said to be missing where no fragment of the index carries a reference.
LEMMA MissingIsNowhere ==
    ASSUME ScoreInv, NEW miss, NEW counts, Score!Cause(question.refs, miss, counts) = "data_missing"
    PROVE  \E r \in Score!Range(question.refs) : \A f \in index : Score!RefId(f) # r
<1> DEFINE states == {Score!Presence(r) : r \in Score!Range(question.refs)}
           known == {counts[r] : r \in Score!Range(question.refs)} \ {Nil}
<1>1. "absent" \in states
  <2>1. Score!Cause(question.refs, miss, counts) =
          (IF question.refs = <<>> THEN "unknown"
           ELSE IF "absent" \in states THEN "data_missing"
           ELSE IF "unknown" \in states \/ miss = Nil THEN "unknown"
           ELSE IF miss.rank # Nil THEN "ranking"
           ELSE IF known # {} /\ Score!Max(known) > 1 THEN "chunking"
           ELSE "not_retrievable")
    BY DEF Score!Cause
  <2> HIDE DEF states, known
  <2> QED BY <2>1
<1>2. PICK r \in Score!Range(question.refs) : Score!Presence(r) = "absent"
  BY <1>1
<1>3. resolver = Score!KnownRefs(index) /\ r \notin resolver
  BY <1>2 DEF ScoreInv, Score!Presence
<1>4. r # Nil
  BY QuestionIs DEF ScoreInv
<1> QED BY <1>3, <1>4 DEF Score!KnownRefs

\* A ranking is blamed only for what the widened search found in the index.
LEMMA RankIsOfTheIndex ==
    ASSUME ScoreInv, NEW found \in Seq(index), Score!Missed(question.refs, found).rank # Nil
    PROVE  \E f \in index : Score!RefId(f) \in Score!Range(question.refs)
<1>1. PICK k \in Nat : k = Widened
  BY BoundsAreNumbers
<1>2. PICK list : list = Score!Cut(found, k)
  OBVIOUS
<1>3. list \in Seq(index)
  BY <1>2, CutIsPart
<1>4. list \in Seq(Fragments)
  BY <1>3 DEF ScoreInv
<1>5. Score!FirstRank(question.refs, list) # Nil
  BY <1>1, <1>2 DEF Score!Missed
<1>6. WantedBy(question, list) # {}
  BY <1>4, <1>5, RankIsOfTheWanted
<1>7. Score!Range(list) \in SUBSET index
  BY <1>3, ListIsFinite
<1> QED BY <1>6, <1>7 DEF WantedBy

\* The counts of a question's references are numbers, or none is known.
LEMMA CountsAreNumbers ==
    ASSUME ScoreInv, NEW counts, counts = [r \in Score!Range(question.refs) |-> Score!ChunkCount(r)]
    PROVE  LET known == {counts[r] : r \in Score!Range(question.refs)} \ {Nil} IN
           known \in SUBSET Nat /\ IsFiniteSet(known)
<1> DEFINE known == {counts[r] : r \in Score!Range(question.refs)} \ {Nil}
<1>1. \A r \in Score!Range(question.refs) : counts[r] = Nil \/ counts[r] \in Nat
  BY CountIsOfTheIndex, CarryingIsFinite
<1>2. known \in SUBSET Nat
  BY <1>1
<1>3. IsFiniteSet(known)
  <2>1. PICK R : R = Score!Range(question.refs)
    OBVIOUS
  <2>2. IsFiniteSet(R)
    <3>1. question.refs \in Seq(Score!Range(question.refs))
      BY QuestionIs DEF ScoreInv
    <3> QED BY <2>1, <3>1, ListIsFinite
  <2>3. PICK all : all = {counts[r] : r \in R}
    OBVIOUS
  <2>4. counts \in Surjection(R, all)
    <3>1. counts \in [R -> all]
      BY <2>1, <2>3
    <3> QED BY <2>3, <3>1 DEF Surjection
  <2>5. IsFiniteSet(all)
    BY <2>2, <2>4, FS_Surjection
  <2>6. known \in SUBSET all
    BY <2>1, <2>3
  <2> HIDE DEF known
  <2> QED BY <2>5, <2>6, FS_Subset
<1> QED BY <1>2, <1>3

LEMMA SplitIsInTheIndex ==
    ASSUME ScoreInv, NEW counts, counts = [r \in Score!Range(question.refs) |-> Score!ChunkCount(r)], NEW miss,
           Score!Cause(question.refs, miss, counts) = "chunking"
    PROVE  \E r \in Score!Range(question.refs) : Cardinality(Carrying(r)) > 1
<1> DEFINE states == {Score!Presence(r) : r \in Score!Range(question.refs)}
           known == {counts[r] : r \in Score!Range(question.refs)} \ {Nil}
<1>1. Score!Cause(question.refs, miss, counts) =
          (IF question.refs = <<>> THEN "unknown"
           ELSE IF "absent" \in states THEN "data_missing"
           ELSE IF "unknown" \in states \/ miss = Nil THEN "unknown"
           ELSE IF miss.rank # Nil THEN "ranking"
           ELSE IF known # {} /\ Score!Max(known) > 1 THEN "chunking"
           ELSE "not_retrievable")
  BY DEF Score!Cause
<1>2. known \in SUBSET Nat /\ IsFiniteSet(known)
  BY CountsAreNumbers
<1>3. \A n \in known : \E r \in Score!Range(question.refs) : n = counts[r] /\ n # Nil
  OBVIOUS
<1> HIDE DEF states, known
<1>4. known # {} /\ Score!Max(known) > 1
  BY <1>1
<1>5. Score!Max(known) \in known
  <2>1. Score!Max(known) = Max(known)
    BY DEF Score!Max, Max
  <2>2. known \in SUBSET Int
    BY <1>2
  <2> QED BY <1>2, <1>4, <2>1, <2>2, MaxIsThere
<1>6. PICK r \in Score!Range(question.refs) : Score!Max(known) = counts[r] /\ counts[r] # Nil
  BY <1>3, <1>5
<1>7. counts[r] = Cardinality(Carrying(r))
  BY <1>6, CountIsOfTheIndex
<1> QED BY <1>4, <1>6, <1>7

LEMMA WordingIsInTheIndex ==
    ASSUME ScoreInv, NEW counts, counts = [r \in Score!Range(question.refs) |-> Score!ChunkCount(r)], NEW miss,
           Score!Lever(Score!Cause(question.refs, miss, counts), counts) = "vocabulary"
    PROVE  \E f \in index : Score!RefId(f) \in Score!Range(question.refs)
<1>1. PICK c : c = Score!Cause(question.refs, miss, counts)
  OBVIOUS
<1>2. c \in {"unknown", "data_missing", "ranking", "chunking", "not_retrievable"}
  BY <1>1 DEF Score!Cause
<1>3. 1 \in Score!Range(counts)
  BY <1>1, <1>2 DEF Score!Lever
<1>4. PICK r \in Score!Range(question.refs) : Score!ChunkCount(r) = 1
  BY <1>3 DEF Score!Range
<1>5. Cardinality(Carrying(r)) = 1
  BY <1>4, CountIsOfTheIndex, ScoreConstants
<1>6. Carrying(r) # {}
  BY <1>5, FS_EmptySet
<1> QED BY <1>6 DEF Carrying

LEMMA FailureIsDiagnosed ==
    ASSUME ScoreInv, NEW reached \in BOOLEAN, NEW found \in Seq(index), Score!Diagnose(reached, found)
    PROVE  ScoreInv'
<1>1. UNCHANGED <<question, setup, index, resolver, lists, answer, metrics, verdict>>
  BY DEF Score!Diagnose
<1>2. phase = "scored" /\ phase' = "diagnosed"
  BY DEF Score!Diagnose
<1>3. Scored(question, answer, lists, setup, metrics, verdict)'
  <2>1. Scored(question, answer, lists, setup, metrics, verdict)
    BY <1>2 DEF ScoreInv, Score!IsScored
  <2>2. Score!Evaluated(question, answer, lists, setup)' = Score!Evaluated(question, answer, lists, setup)
    BY <1>1, ScoringStays
  <2>3. Score!Answerability(question)' = Score!Answerability(question)
    BY <1>1, AnswerabilityStays
  <2> QED BY <1>1, <2>1, <2>2, <2>3 DEF Scored
<1>4. Score!MissingDataNeedsAClaim' /\ Score!CauseIsInTheIndex'
  <2>1. CASE verdict # "retrieval" \/ setup.external
    <3>1. cause' = Score!NoCause
      BY <2>1 DEF Score!Diagnose
    <3> QED BY <3>1, ScoreConstants DEF Score!NoCause, Score!MissingDataNeedsAClaim, Score!CauseIsInTheIndex
  <2>2. CASE ~Score!IsItself
    <3>1. ~Score!IsItself'
      BY <1>1, <2>2 DEF Score!IsItself
    <3> QED BY <3>1 DEF Score!MissingDataNeedsAClaim, Score!CauseIsInTheIndex
  <2>3. CASE verdict = "retrieval" /\ ~setup.external /\ Score!IsItself
    <3>1. Score!ExpectedRefs(question) = question.refs
      BY <2>3, LookedUpAsItself DEF ScoreInv
    <3>2. PICK miss : miss = IF reached THEN Score!Missed(question.refs, found) ELSE Nil
      OBVIOUS
    <3>3. PICK counts : counts = [r \in Score!Range(question.refs) |-> Score!ChunkCount(r)]
      OBVIOUS
    <3>4. PICK c : c = Score!Cause(question.refs, miss, counts)
      OBVIOUS
    <3>5. cause' = [cause |-> c, lever |-> Score!Lever(c, counts),
                    rank |-> IF c = "ranking" THEN miss.rank ELSE Nil]
      BY <2>3, <3>1, <3>2, <3>3, <3>4 DEF Score!Diagnose
    <3>6. cause'.cause = c /\ cause'.lever = Score!Lever(c, counts)
      BY <3>5
    <3>7. c = "data_missing" => question.given = "answerable"
      BY <1>2, <2>3, <3>4, MissingIsClaimed
    <3>8. c = "data_missing" => \E r \in Score!Range(question.refs) : \A f \in index : Score!RefId(f) # r
      BY <3>4, MissingIsNowhere
    <3>9. c = "ranking" => \E f \in index : Score!RefId(f) \in Score!Range(question.refs)
      <4>1. c = "ranking" => miss # Nil /\ miss.rank # Nil
        BY <3>4 DEF Score!Cause
      <4>2. c = "ranking" => Score!Missed(question.refs, found).rank # Nil
        BY <3>2, <4>1
      <4> QED BY <4>2, RankIsOfTheIndex
    <3>10. c = "chunking" => \E r \in Score!Range(question.refs) : Cardinality(Carrying(r)) > 1
      BY <3>3, <3>4, SplitIsInTheIndex
    <3>11. Score!Lever(c, counts) = "vocabulary" => \E f \in index : Score!RefId(f) \in Score!Range(question.refs)
      BY <3>3, <3>4, WordingIsInTheIndex
    <3>12. Score!MissingDataNeedsAClaim'
      BY <1>1, <3>6, <3>7 DEF Score!MissingDataNeedsAClaim
    <3>13. Score!CauseIsInTheIndex'
      BY <1>1, <3>6, <3>8, <3>9, <3>10, <3>11, SameOperators DEF Score!CauseIsInTheIndex, Carrying
    <3> QED BY <3>12, <3>13
  <2> QED BY <2>1, <2>2, <2>3
<1> QED BY <1>1, <1>2, <1>3, <1>4 DEF ScoreInv, Score!IsScored, Score!KnownRefs

LEMMA ScoreStays == ASSUME ScoreInv, UNCHANGED scoreVars PROVE ScoreInv'
<1>1. UNCHANGED <<phase, question, setup, index, resolver, lists, answer, metrics, verdict, cause>>
  BY DEF scoreVars
<1>2. Score!Evaluated(question, answer, lists, setup)' = Score!Evaluated(question, answer, lists, setup)
  BY <1>1, ScoringStays
<1>3. Score!Answerability(question)' = Score!Answerability(question)
  BY <1>1, AnswerabilityStays
<1>4. Scored(question, answer, lists, setup, metrics, verdict) => Scored(question, answer, lists, setup, metrics, verdict)'
  BY <1>1, <1>2, <1>3 DEF Scored
<1>5. Score!MissingDataNeedsAClaim' /\ Score!CauseIsInTheIndex'
  <2>1. CauseStays
    BY <1>1 DEF CauseStays
  <2> QED BY <2>1, CauseIsKept DEF ScoreInv
<1> QED BY <1>1, <1>4, <1>5 DEF ScoreInv, Score!IsScored

LEMMA ScoreGoesOn == ASSUME ScoreInv, Score!Next PROVE ScoreInv'
<1>1. ASSUME NEW fragments \in Indices, NEW readable \in BOOLEAN, Score!Start(fragments, readable) PROVE ScoreInv'
  BY <1>1, IndexIsRead
<1>2. ASSUME NEW found \in Score!Ranking(index, setup.fetch), NEW ranked \in Score!Ranking(Score!Range(found), TopK),
             Score!Retrieve(found, ranked)
      PROVE  ScoreInv'
  BY <1>2, FragmentsAreRetrieved
<1>3. ASSUME NEW found \in Score!Ranking(Fragments, Score!Cardinality(Fragments)), Score!Receive(found) PROVE ScoreInv'
  BY <1>3, FragmentsAreReceived
<1>4. ASSUME NEW t \in AnswerTexts, NEW fragments \in SUBSET Score!Range(lists.final), Score!Reply(t, fragments)
      PROVE  ScoreInv'
  BY <1>4, TextIsReplied
<1>5. ASSUME Score!Score PROVE ScoreInv'
  BY <1>5, AnswerIsScored
<1>6. ASSUME Score!Diagnose(FALSE, <<>>) PROVE ScoreInv'
  <2>1. <<>> \in Seq(index)
    OBVIOUS
  <2> QED BY <1>6, <2>1, FailureIsDiagnosed
<1>7. ASSUME NEW found \in Score!Ranking(index, Widened), Score!Diagnose(TRUE, found) PROVE ScoreInv'
  <2>1. IsFiniteSet(index) /\ Widened \in Nat
    BY ScoreConstants, BoundsAreNumbers, FS_Subset DEF ScoreInv
  <2>2. found \in Seq(index)
    BY <2>1, RankingHasFew
  <2> QED BY <1>7, <2>2, FailureIsDiagnosed
<1>8. ASSUME UNCHANGED Score!vars PROVE ScoreInv'
  BY <1>8, ScoreStays DEF Score!vars, scoreVars
<1> QED BY <1>1, <1>2, <1>3, <1>4, <1>5, <1>6, <1>7, <1>8 DEF Score!Next

LEMMA WantedIsWantedBy == ASSUME NEW list PROVE Score!Wanted(list) = WantedBy(question, list)
BY DEF Score!Wanted, WantedBy

LEMMA ScoreIsTyped == ScoreInv => Score!TypeOK
<1> SUFFICES ASSUME ScoreInv PROVE Score!TypeOK
  OBVIOUS
<1>1. /\ phase \in {"asked", "indexed", "retrieved", "answered", "scored", "diagnosed"}
      /\ question \in Score!Question /\ setup \in Setups /\ index \subseteq Fragments
  BY DEF ScoreInv, QuestionsAsked
<1>2. Score!Range(lists.final) \subseteq Fragments
  <2>1. lists.final \in Seq(Fragments)
    BY DEF ScoreInv, FoundLists
  <2> QED BY <2>1, ListIsFinite
<1>3. \A n \in DOMAIN metrics : metrics[n] \in (IF n \in Score!Cosines THEN -Score!Unit ELSE 0)..Score!Unit
  <2>1. CASE Score!IsScored
    <3>1. metrics = Score!Evaluated(question, answer, lists, setup)
      BY <2>1 DEF ScoreInv, Scored
    <3>2. question \in QuestionsAsked /\ answer.similar \in (-Score!Unit)..Score!Unit /\ lists \in FoundLists
      BY DEF ScoreInv
    <3> QED BY <3>1, <3>2, MetricIsInRange
  <2>2. CASE ~Score!IsScored
    BY <2>2, NothingHasNothing DEF ScoreInv
  <2> QED BY <2>1, <2>2
<1>4. verdict \in {Nil, "not_applicable", "suspected_ungrounded_answer", "retrieval", "rerank", "generation", "ok"}
  BY DEF ScoreInv, Scored, Score!Diagnosed
<1> QED BY <1>1, <1>2, <1>3, <1>4 DEF Score!TypeOK

\* A metric of a match beside a recall above none.
LEMMA MatchHasRecall ==
    ASSUME NEW q \in QuestionsAsked, NEW a, NEW l \in FoundLists, Len(l.final) <= TopK,
           NEW n \in Score!OfAMatch, q.scope # "global",
           Score!AnswerScores(q, a, l, q.scope # "global")[n] # Nil
    PROVE  Score!RecallAtK(q.refs, Score!Refs(l.final), TopK) > 0
<1>1. l.final \in Seq(Fragments)
  BY DEF FoundLists
<1>2. Score!Grounded(a, l.final, q.refs) # Nil \/ Score!CitationCoverage(a, l.final, q.refs) # Nil
  BY DEF Score!OfAMatch, Score!AnswerScores
<1>3. WantedBy(q, l.final) # {}
  BY <1>2 DEF Score!Grounded, Score!CitationCoverage, WantedBy
<1>4. q.refs # <<>>
  BY <1>3 DEF WantedBy, Score!Range
<1> QED BY <1>1, <1>3, <1>4, RecallSeesTheContext

LEMMA MetricsAreGrounded == ScoreInv => Score!MetricsHaveGrounds
<1> SUFFICES ASSUME ScoreInv, Score!IsScored, ~setup.external, NEW n \in DOMAIN metrics PROVE Score!HasGrounds(n)
  BY DEF Score!MetricsHaveGrounds
<1>1. metrics = Score!Evaluated(question, answer, lists, setup)
  BY DEF ScoreInv, Scored
<1>2. question \in QuestionsAsked /\ lists \in FoundLists /\ Len(lists.final) <= TopK
  BY DEF ScoreInv, ListsFit
<1>3. PICK v : v = metrics[n]
  OBVIOUS
<1>4. /\ v # Nil
      /\ \/ n = "correct_refusal" /\ ~setup.retrievalOnly
         \/ /\ Score!Answerability(question) = "answerable" /\ question.scope # "global"
            /\ n \in OfRanking
         \/ /\ Score!Answerability(question) = "answerable" /\ ~setup.retrievalOnly
            /\ n \in OfText /\ v = Score!AnswerScores(question, answer, lists, question.scope # "global")[n]
  BY <1>1, <1>3, MetricIsOfAKind
<1>5. CASE n = "correct_refusal" /\ ~setup.retrievalOnly
  BY <1>5 DEF Score!HasGrounds, Score!Reached, Score!OfTheSources, Score!OfAMatch
<1>6. CASE Score!Answerability(question) = "answerable" /\ question.scope # "global" /\ n \in OfRanking
  BY <1>6 DEF Score!HasGrounds, Score!Reached, Score!OfTheSources, Score!OfAMatch, OfRanking
<1>7. CASE /\ Score!Answerability(question) = "answerable" /\ ~setup.retrievalOnly
           /\ n \in OfText /\ v = Score!AnswerScores(question, answer, lists, question.scope # "global")[n]
  <2>1. n \in Score!OfTheSources => n \in Score!OfAMatch
    BY <1>7 DEF OfText, Score!OfTheSources, Score!OfAMatch
  <2>2. n \in Score!OfAMatch => question.scope # "global"
    BY <1>4, <1>7 DEF Score!OfAMatch, Score!AnswerScores
  <2>3. n \in Score!OfAMatch => metrics["retrieval_recall_at_k"] > 0
    <3>1. n \in Score!OfAMatch => Score!RecallAtK(question.refs, Score!Refs(lists.final), TopK) > 0
      BY <1>2, <1>4, <1>7, <2>2, MatchHasRecall
    <3>2. question.scope # "global" =>
            metrics["retrieval_recall_at_k"] = Score!RecallAtK(question.refs, Score!Refs(lists.final), TopK)
      BY <1>1, <1>2, <1>7, RecallsAreThere
    <3> QED BY <2>2, <3>1, <3>2
  <2> QED BY <1>7, <2>1, <2>2, <2>3 DEF Score!HasGrounds
<1> QED BY <1>4, <1>5, <1>6, <1>7

LEMMA BlameFollows == ScoreInv => Score!BlameIsEarned /\ Score!StagesAgreeOnFound
<1> SUFFICES ASSUME ScoreInv PROVE Score!BlameIsEarned /\ Score!StagesAgreeOnFound
  OBVIOUS
<1>1. /\ question \in QuestionsAsked /\ lists \in FoundLists
      /\ ~setup.external => Len(lists.final) <= TopK
      /\ setup.external => lists.preRerank = <<>>
      /\ lists.window # <<>> /\ lists.preRerank # <<>> => lists.window = lists.preRerank
  BY DEF ScoreInv, ListsFit
<1>2. Score!IsScored => Scored(question, answer, lists, setup, metrics, verdict)
  BY DEF ScoreInv
<1>3. Score!IsScored =>
         /\ verdict = "rerank" => ~(WantedBy(question, lists.preRerank) \subseteq WantedBy(question, lists.final))
         /\ verdict = "generation" => WantedBy(question, lists.final) # {}
         /\ (~setup.external /\ question.refs # <<>> /\ 10 * Cardinality(CitedBy(question, lists.final)) >= 3 * Len(question.refs))
                 => verdict \notin {"retrieval", "rerank", "suspected_ungrounded_answer"}
  BY <1>1, <1>2, VerdictIsEarned
<1>4. Score!BlameIsEarned
  BY <1>3, WantedIsWantedBy DEF Score!BlameIsEarned
<1>5. ASSUME Score!IsScored, verdict = "rerank"
      PROVE  Score!LostAt(question, lists) = IF Score!Wanted(lists.final) = {} THEN "rerank" ELSE Nil
  <2>1. WantedBy(question, lists.preRerank) # {}
    BY <1>3, <1>5
  <2>2. lists.preRerank # <<>>
    <3>1. lists.preRerank = <<>> => Score!Range(lists.preRerank) = {}
      BY DEF Score!Range
    <3> QED BY <2>1, <3>1 DEF WantedBy
  <2>3. question.scope # "global"
    BY <1>2, <1>5 DEF Scored, Score!Diagnosed
  <2> QED BY <1>1, <2>1, <2>2, <2>3, StagesLoseIt, WantedIsWantedBy
<1>6. ASSUME Score!IsScored, ~setup.external, question.refs # <<>>,
             10 * Score!Cardinality({Score!RefId(f) : f \in Score!Wanted(lists.final)}) >= 3 * Len(question.refs)
      PROVE  verdict \notin {"retrieval", "rerank", "suspected_ungrounded_answer"}
  <2>1. {Score!RefId(f) : f \in Score!Wanted(lists.final)} = CitedBy(question, lists.final)
    BY WantedIsWantedBy DEF CitedBy
  <2>2. Score!Cardinality({Score!RefId(f) : f \in Score!Wanted(lists.final)}) = Cardinality(CitedBy(question, lists.final))
    BY <2>1, SameOperators
  <2> QED BY <1>3, <1>6, <2>2
<1>7. Score!StagesAgreeOnFound
  BY <1>5, <1>6 DEF Score!StagesAgreeOnFound
<1> QED BY <1>4, <1>7

LEMMA ScoreIsEarned ==
    ScoreInv => /\ Score!MetricsHaveGrounds /\ Score!BlameIsEarned /\ Score!StagesAgreeOnFound
                /\ Score!MissingDataNeedsAClaim /\ Score!CauseIsInTheIndex
BY MetricsAreGrounded, BlameFollows DEF ScoreInv

LEMMA ScoreAlways == Spec => [](part = "score" => ScoreInv)
<1>1. Init => (part = "score" => ScoreInv)
  BY ScoreStarts DEF Init
<1>2. (part = "score" => ScoreInv) /\ [Next]_vars => (part = "score" => ScoreInv)'
  <2> SUFFICES ASSUME part = "score" => ScoreInv, [Next]_vars, part' = "score" PROVE ScoreInv'
    OBVIOUS
  <2>1. CASE ScoreStep
    BY <2>1, ScoreGoesOn DEF ScoreStep
  <2>2. CASE DetectorsStep \/ JudgmentsStep \/ BundleStep \/ PromotionStep \/ PromoterStep \/ TriageStep
    <3>1. part = "score" /\ UNCHANGED scoreVars
      BY <2>2 DEF DetectorsStep, JudgmentsStep, BundleStep, PromotionStep, PromoterStep, TriageStep
    <3> QED BY <3>1, ScoreStays
  <2>3. CASE UNCHANGED vars
    <3>1. part = "score" /\ UNCHANGED scoreVars
      BY <2>3 DEF vars
    <3> QED BY <3>1, ScoreStays
  <2> QED BY <2>1, <2>2, <2>3 DEF Next
<1> QED BY <1>1, <1>2, PTL DEF Spec

\* A failed question is blamed on what failed it: a metric is there when it has grounds, the stages
\* agree with the funnel on what was found, and of a question that is looked up as itself missing data
\* is claimed of a source that the index lacks, and a cause and its lever are borne out by what the
\* index holds.  For any data sets, corpora, rankings, answers and set-ups (routers/experiments.py and
\* the metrics of core/eval; core/eval/funnel.py, stages.py, root_cause.py, metric_definitions.py).
THEOREM BlameIsAlwaysEarned == Spec => []BlameIsEarned
<1>1. (part = "score" => ScoreInv) => BlameIsEarned
  BY ScoreIsEarned DEF BlameIsEarned
<1> QED BY <1>1, ScoreAlways, PTL

----------------------------------------------------------------------------
(* The shape of every part *)

\* The rest of the shape of a run page: configurations are of those there are, no more questions
\* come than were asked, and a finding has a severity.
PageInv ==
    /\ config \in Configs /\ earlier \subseteq Configs
    /\ Len(answered) <= MaxAnswered
    /\ findings # Nil => \A f \in findings : f.severity \in Detectors!Severity

LEMMA LostIsShorter ==
    ASSUME RunInv, NEW i \in DOMAIN answered, Detectors!Lose(i)
    PROVE  Len(answered') <= Len(answered)
<1>1. answered \in Seq(Answers) /\ i \in 1..Len(answered)
  BY DEF RunInv
<1>2. answered' = SubSeq(answered, 1, i - 1) \o SubSeq(answered, i + 1, Len(answered))
  BY DEF Detectors!Lose, Detectors!RemoveAt
<1>3. PICK a, b : a = SubSeq(answered, 1, i - 1) /\ b = SubSeq(answered, i + 1, Len(answered))
  OBVIOUS
<1>4. a \in Seq(Answers) /\ Len(a) = i - 1 /\ b \in Seq(Answers) /\ Len(b) = Len(answered) - i
  BY <1>1, <1>3
<1>5. Len(a \o b) = Len(answered) - 1
  BY <1>1, <1>4
<1>6. QED
  BY <1>1, <1>2, <1>3, <1>5

LEMMA FindingsAreOfAKind ==
    \A f \in Detectors!RunDetectors : f.severity \in Detectors!Severity
<1> DEFINE Kind(S) == \A f \in S : f.severity \in Detectors!Severity
<1>1. {"error", "warn", "info"} = Detectors!Severity
  BY DEF Detectors!Severity
<1>2. \A id, s : s \in Detectors!Severity => Kind(Detectors!Finding(id, s))
  BY DEF Detectors!Finding
<1>3. Kind({})
  OBVIOUS
<1> HIDE DEF Kind
<1>4. Kind(Detectors!StubEmbedder)
  BY <1>1, <1>2, <1>3 DEF Detectors!StubEmbedder
<1>5. Kind(Detectors!Duplicates)
  BY <1>1, <1>2, <1>3 DEF Detectors!Duplicates
<1>6. Kind(Detectors!Dominance)
  BY <1>1, <1>2, <1>3 DEF Detectors!Dominance
<1>7. Kind(Detectors!EmptyAnswers)
  BY <1>1, <1>2, <1>3 DEF Detectors!EmptyAnswers
<1>8. Kind(Detectors!IncorrectRefusals)
  BY <1>1, <1>2, <1>3 DEF Detectors!IncorrectRefusals
<1>9. Kind(Detectors!LayerBottleneck)
  BY <1>1, <1>2, <1>3 DEF Detectors!LayerBottleneck
<1>10. Kind(Detectors!UnverifiedCoverage)
  BY <1>1, <1>2, <1>3 DEF Detectors!UnverifiedCoverage
<1>11. Kind(Detectors!HalfReturnedNothing)
  BY <1>1, <1>2, <1>3 DEF Detectors!HalfReturnedNothing
<1>12. Kind(Detectors!AggregateDisagrees)
  BY <1>1, <1>2, <1>3 DEF Detectors!AggregateDisagrees
<1>13. Kind(Detectors!ChunkIdCollision)
  BY <1>1, <1>2, <1>3 DEF Detectors!ChunkIdCollision
<1>14. Kind(Detectors!ModelsDiffer)
  BY <1>1, <1>2, <1>3 DEF Detectors!ModelsDiffer
<1>15. Kind(Detectors!BrokenPromise)
  BY <1>1, <1>2, <1>3 DEF Detectors!BrokenPromise
<1>16. Kind(Detectors!SegmentationsDiffer)
  BY <1>1, <1>2, <1>3 DEF Detectors!SegmentationsDiffer
<1>17. Kind(Detectors!TunedOnTheSet)
  BY <1>1, <1>2, <1>3 DEF Detectors!TunedOnTheSet
<1>18. Kind(Detectors!ConstantNeverVaried)
  BY <1>1, <1>2, <1>3 DEF Detectors!ConstantNeverVaried
<1>19. \A S, T : Kind(S) /\ Kind(T) => Kind(S \cup T)
  BY DEF Kind
<1>20. Kind(Detectors!RunDetectors)
  <2>1. PICK a, b, c : /\ a = IF Detectors!EmptyHalf = "dense" THEN {} ELSE Detectors!StubEmbedder
                       /\ b = IF world.external THEN {} ELSE Detectors!Dominance
                       /\ c = IF world.retrievalOnly THEN {} ELSE Detectors!EmptyAnswers
    OBVIOUS
  <2>2. Kind(a) /\ Kind(b) /\ Kind(c)
    BY <2>1, <1>3, <1>4, <1>6, <1>7
  <2>3. Detectors!RunDetectors =
          a \cup Detectors!Duplicates \cup b \cup c \cup Detectors!IncorrectRefusals
          \cup Detectors!LayerBottleneck \cup Detectors!UnverifiedCoverage
          \cup Detectors!HalfReturnedNothing \cup Detectors!AggregateDisagrees
          \cup Detectors!ChunkIdCollision \cup Detectors!ModelsDiffer
          \cup Detectors!BrokenPromise \cup Detectors!SegmentationsDiffer
          \cup Detectors!TunedOnTheSet \cup Detectors!ConstantNeverVaried
    BY <2>1, Zenon DEF Detectors!RunDetectors
  <2>4. QED
    BY <2>2, <2>3, <1>5, <1>8, <1>9, <1>10, <1>11, <1>12, <1>13, <1>14, <1>15, <1>16,
       <1>17, <1>18, <1>19
<1>21. QED
  BY <1>20 DEF Kind

LEMMA PageStarts == Detectors!Init => PageInv
BY DetectorsAssumption DEF Detectors!Init, PageInv, Detectors!Assumptions

LEMMA PageStays ==
    ASSUME PageInv, UNCHANGED <<config, earlier, answered, findings>> PROVE PageInv'
BY DEF PageInv

LEMMA PageGoesOn == ASSUME RunInv, PageInv, Detectors!Next PROVE PageInv'
<1>1. ASSUME NEW c \in Contexts, NEW halves, NEW reply \in Outcomes,
             Detectors!Answer(c, halves, reply)
      PROVE  PageInv'
  <2>1. Len(answered) < MaxAnswered /\ UNCHANGED <<config, earlier, findings>>
        /\ \E q : answered' = Append(answered, q)
    BY <1>1 DEF Detectors!Answer
  <2>2. Len(answered) \in Nat /\ MaxAnswered \in Nat
    BY DetectorsAssumption DEF RunInv, Detectors!Assumptions
  <2>3. Len(answered') = Len(answered) + 1
    BY <2>1 DEF RunInv
  <2>4. Len(answered') <= MaxAnswered
    BY <2>1, <2>2, <2>3
  <2>5. QED
    BY <2>1, <2>4 DEF PageInv
<1>2. CASE Detectors!Store
  BY <1>2, PageStays DEF Detectors!Store
<1>3. ASSUME NEW i \in DOMAIN answered, Detectors!Lose(i) PROVE PageInv'
  <2>1. UNCHANGED <<config, earlier, findings>>
    BY <1>3 DEF Detectors!Lose
  <2>2. RunInv'
    BY <1>3, QuestionIsLost
  <2>3. Len(answered) \in Nat /\ Len(answered') \in Nat /\ MaxAnswered \in Nat
    BY <2>2, DetectorsAssumption DEF RunInv, Detectors!Assumptions
  <2>4. Len(answered') <= MaxAnswered
    BY <1>3, <2>3, LostIsShorter DEF PageInv
  <2>5. QED
    BY <2>1, <2>4 DEF PageInv
<1>4. CASE Detectors!Open
  BY <1>4, FindingsAreOfAKind DEF PageInv, Detectors!Open
<1>5. CASE UNCHANGED Detectors!vars
  BY <1>5, PageStays DEF Detectors!vars
<1>6. QED
  BY <1>1, <1>2, <1>3, <1>4, <1>5 DEF Detectors!Next

LEMMA PageAlways == Spec => [](part = "detectors" => DetectorsInv /\ PageInv)
<1> DEFINE Kept == part = "detectors" => DetectorsInv /\ PageInv
<1>1. Init => Kept
  BY RunStarts, PageStarts, NothingIsSaid DEF Init, DetectorsInv, Detectors!Init
<1>2. Kept /\ [Next]_vars => Kept'
  <2> SUFFICES ASSUME Kept, [Next]_vars, part' = "detectors" PROVE DetectorsInv' /\ PageInv'
    OBVIOUS
  <2>1. CASE DetectorsStep
    BY <2>1, DetectorsGoOn, PageGoesOn DEF DetectorsStep, DetectorsInv
  <2>2. CASE UNCHANGED vars
    BY <2>2, DetectorsStay, PageStays DEF vars, detectorsVars
  <2>3. QED
    BY <2>1, <2>2 DEF Next, ScoreStep, JudgmentsStep, BundleStep, PromotionStep, PromoterStep,
       TriageStep
<1>3. QED
  BY <1>1, <1>2, PTL DEF Spec

LEMMA PageIsTyped == DetectorsInv /\ PageInv => Detectors!TypeOK
<1> SUFFICES ASSUME DetectorsInv, PageInv PROVE Detectors!TypeOK
  OBVIOUS
<1>1. \A i \in DOMAIN answered : answered[i].halves \subseteq Detectors!Halves
  BY DEF DetectorsInv, RunInv, IsOfTheWorld
<1>2. QED
  BY <1>1 DEF DetectorsInv, RunInv, PageInv, Detectors!TypeOK

EndInv == JudgmentsInv /\ ended \in BOOLEAN

LEMMA EndGoesOn == Judgments!Next => ended' \in {TRUE, FALSE, ended}
BY DEF Judgments!Next, Judgments!Create, Judgments!ResolveRelevant, Judgments!AppendLine,
   Judgments!AppendTorn, Judgments!Patch, Judgments!Delete, Judgments!EditByHand,
   Judgments!Promote, Judgments!Publish, Judgments!Rewritten

LEMMA EndAlways == Spec => [](part = "judgments" => EndInv)
<1> DEFINE Kept == part = "judgments" => ended \in BOOLEAN
<1>1. Init => Kept
  BY DEF Init, Judgments!Init
<1>2. Kept /\ [Next]_vars => Kept'
  <2> SUFFICES ASSUME Kept, [Next]_vars, part' = "judgments" PROVE ended' \in BOOLEAN
    OBVIOUS
  <2>1. CASE JudgmentsStep
    BY <2>1, EndGoesOn DEF JudgmentsStep
  <2>2. CASE UNCHANGED vars
    BY <2>2 DEF vars, judgmentsVars
  <2>3. QED
    BY <2>1, <2>2 DEF Next, ScoreStep, DetectorsStep, BundleStep, PromotionStep, PromoterStep,
       TriageStep
<1>3. (part = "judgments" => JudgmentsInv) /\ Kept => (part = "judgments" => EndInv)
  BY DEF EndInv
<1> HIDE DEF Kept
<1>4. QED
  BY <1>1, <1>2, <1>3, JudgmentsAlways, PTL DEF Spec

LEMMA JudgmentsAreTyped == EndInv => Judgments!TypeOK
<1> SUFFICES ASSUME JudgmentsInv, ended \in BOOLEAN PROVE Judgments!TypeOK
  BY DEF EndInv
<1>1. lines \in Lines /\ \A i \in DOMAIN lines : lines[i] \in Line \cup {Judgments!Bad}
  BY DEF JudgmentsInv, Lines
<1>2. \A i, k \in DOMAIN lines : (lines[i] # Judgments!Bad /\ lines[i].id = lines[k].id) => i = k
  BY <1>1, BadHasNoId DEF JudgmentsInv
<1>3. PICK t : t = Judgments!Load(lines)
  OBVIOUS
<1>4. t \in Seq(Line) /\ \A k \in DOMAIN t : \E i \in DOMAIN lines : t[k] = lines[i]
  BY <1>1, <1>3, LoadTakesWhatParses
<1>5. \A k \in DOMAIN t : t[k].id \in 0..made /\ t[k] \in Line
  BY <1>4 DEF JudgmentsInv
<1>6. \A k \in DOMAIN t : t[k].id \in 1..made
  <2> TAKE k \in DOMAIN t
  <2>1. t[k].id \in Nat \ {0}
    BY <1>5 DEF Line
  <2>2. made \in Nat
    BY DEF JudgmentsInv
  <2>3. QED
    BY <1>5, <2>1, <2>2
<1>7. Judgments!IdsIn(Judgments!Load(lines)) \subseteq 1..made
  BY <1>3, <1>6 DEF Judgments!IdsIn
<1>8. QED
  BY <1>2, <1>7 DEF Judgments!TypeOK

LEMMA LeastIsAPlace ==
    ASSUME NEW n \in Nat, NEW S \in SUBSET (1..n), S # {} PROVE Bundle!Min(S) \in S
<1>1. S \in SUBSET Int /\ IsFiniteSet(S)
  <2>1. IsFiniteSet(1..n) /\ (1..n) \in SUBSET Int
    BY FS_Interval
  <2>2. QED
    BY <2>1, FS_Subset
<1>2. \E i \in S : \A j \in S : i <= j
  BY <1>1, LeastAndGreatest
<1>3. QED
  BY <1>2 DEF Bundle!Min

LEMMA ResolvesToAPlace ==
    ASSUME NEW S, NEW chunks \in Seq(S), NEW a
    PROVE  Bundle!Resolve(a, chunks).id \in 0..Len(chunks)
<1> DEFINE byText == {i \in 1..Len(chunks) : chunks[i].text = a.hash}
           byUnit == {i \in 1..Len(chunks) : chunks[i].unit = a.unit /\ a.unit # Nil}
           text == Bundle!First(chunks, LAMBDA c : c.text = a.hash)
           unit == Bundle!First(chunks, LAMBDA c : c.unit = a.unit /\ a.unit # Nil)
<1>1. PICK n \in Nat : n = Len(chunks)
  OBVIOUS
<1>2. byText \in SUBSET (1..n) /\ byUnit \in SUBSET (1..n)
  BY <1>1
<1>3. text = IF byText # {} THEN Bundle!Min(byText) ELSE 0
  BY DEF Bundle!First, Bundle!SelectInSeq
<1>4. unit = IF byUnit # {} THEN Bundle!Min(byUnit) ELSE 0
  BY DEF Bundle!First, Bundle!SelectInSeq
<1>5. Bundle!Resolve(a, chunks).id \in {text, unit, 0}
  BY DEF Bundle!Resolve
<1> HIDE DEF byText, byUnit, text, unit
<1>6. text \in 0..n /\ unit \in 0..n
  <2>1. byText # {} => Bundle!Min(byText) \in 1..n
    BY <1>2, LeastIsAPlace
  <2>2. byUnit # {} => Bundle!Min(byUnit) \in 1..n
    BY <1>2, LeastIsAPlace
  <2>3. QED
    BY <1>3, <1>4, <2>1, <2>2
<1>7. QED
  BY <1>1, <1>5, <1>6

LEMMA BundleIsTyped == BundleInv => Bundle!TypeOK
<1> SUFFICES ASSUME BundleInv PROVE Bundle!TypeOK
  OBVIOUS
<1>1. ASSUME NEW i \in DOMAIN received.found
      PROVE  received.found[i].id \in 0..Len(received.chunks)
  <2>1. PICK relevant \in Seq(Bundle!Judged), irrelevant \in Seq(Bundle!Judged), chunks \in Seq(Chunk) :
          received = Bundle!Received(relevant, irrelevant, chunks)
    BY DEF BundleInv
  <2>2. PICK all : all = relevant \o irrelevant
    OBVIOUS
  <2>3. PICK anchors : anchors = [k \in DOMAIN all |-> Bundle!Anchor(all[k])]
    OBVIOUS
  <2>4. received.chunks = chunks
        /\ received.found = [k \in DOMAIN anchors |-> Bundle!Resolve(anchors[k], chunks)]
    BY <2>1, <2>2, <2>3 DEF Bundle!Received
  <2>5. received.found[i] = Bundle!Resolve(anchors[i], chunks)
    BY <2>4
  <2>6. PICK a : a = anchors[i]
    OBVIOUS
  <2>7. Bundle!Resolve(a, chunks).id \in 0..Len(chunks)
    BY ResolvesToAPlace
  <2>8. QED
    BY <2>4, <2>5, <2>6, <2>7
<1>2. derived.threshold \in {Bundle!None} \cup 0..MaxScore
  <2>1. PICK pos \in SUBSET (Margin..MaxScore), neg \in SUBSET (Margin..MaxScore) :
          derived = [pos |-> pos, neg |-> neg, threshold |-> Bundle!Threshold(pos, neg)]
    BY DEF BundleInv
  <2>2. Margin \in Nat /\ MaxScore \in Nat
    BY BundleAssumption DEF Bundle!Assumptions
  <2>3. CASE pos # {}
    <3>1. pos \in SUBSET Int /\ IsFiniteSet(pos)
      <4>1. IsFiniteSet(Margin..MaxScore) /\ (Margin..MaxScore) \in SUBSET Int
        BY <2>2, FS_Interval
      <4>2. QED
        BY <4>1, FS_Subset
    <3>2. \E i \in pos : \A j \in pos : i <= j
      BY <2>3, <3>1, LeastAndGreatest
    <3>3. PICK m \in Margin..MaxScore : m = Bundle!Min(pos)
      BY <3>2 DEF Bundle!Min
    <3>4. derived.threshold \in {Bundle!None, m - Margin}
      BY <2>1, <3>3 DEF Bundle!Threshold
    <3>5. m - Margin \in 0..MaxScore
      BY <2>2, <3>3
    <3>6. QED
      BY <3>4, <3>5
  <2>4. CASE pos = {}
    BY <2>1, <2>4 DEF Bundle!Threshold
  <2>5. QED
    BY <2>3, <2>4
<1>3. QED
  BY <1>1, <1>2 DEF Bundle!TypeOK

\* A document has a status exactly when it has a result, and the result is of a comment.
Sense(d) == (d.status # Nil <=> d.result.made) /\ (d.result.made => d.result.of \in Comments)

\* What is stored and what was read makes sense; a triage has read a comment and a decision a result.
SenseInv ==
    /\ feedback.there => Sense(feedback)
    /\ \A p \in Reviewers : pages[p] \in Pending =>
          /\ pages[p].read.there => Sense(pages[p].read)
          /\ pages[p].op = "triage" => pages[p].read.comment # Nil
          /\ pages[p].op = "decide" => pages[p].read.result.made

LEMMA SenseStarts == Triage!Init => SenseInv
BY FreeIsNotPending, NoDocIsNotThere DEF Triage!Init, SenseInv

LEMMA SenseOfARequest ==
    ASSUME TriageInv, SenseInv, NEW p \in Reviewers,
           Triage!PutRead(p) \/ Triage!TriageRead(p) \/ Triage!DecideRead(p)
    PROVE  SenseInv'
<1>1. PICK op \in {"put", "triage", "decide"}, body \in Triage!Bodies \cup {Triage!NoDoc} :
        /\ Triage!Starts(p, Triage!Request(op, body))
        /\ op = "triage" => feedback.comment # Nil
        /\ op = "decide" => feedback.result.made
  BY DEF Triage!PutRead, Triage!TriageRead, Triage!DecideRead
<1>2. PICK l0, l : l0 = Triage!Request(op, body) /\ l = [l0 EXCEPT !.read = feedback, !.at = writes]
  OBVIOUS
<1>3. pages' = [pages EXCEPT ![p] = l] /\ UNCHANGED feedback
  BY <1>1, <1>2 DEF Triage!Starts
<1>4. l.op = op /\ l.read = feedback
  BY <1>2 DEF Triage!Request
<1>5. pages'[p] = l /\ \A q \in Reviewers \ {p} : pages'[q] = pages[q]
  BY <1>3 DEF TriageInv
<1>6. QED
  BY <1>1, <1>3, <1>4, <1>5 DEF SenseInv

LEMMA SenseIsWritten ==
    ASSUME TriageInv, SenseInv, NEW p \in Reviewers,
           Triage!PutWrite(p) \/ Triage!TriageWrite(p) \/ Triage!DecideWrite(p)
    PROVE  Sense(feedback')
<1>1. pages[p].op \in {"put", "triage", "decide"}
  BY DEF Triage!PutWrite, Triage!TriageWrite, Triage!DecideWrite
<1>2. pages[p] \in Pending
  BY <1>1 DEF TriageInv, Triage!Free
<1>3. PICK old : old = pages[p].read
  OBVIOUS
<1>4. /\ old.there => Sense(old)
      /\ pages[p].op = "triage" => old.comment # Nil
      /\ pages[p].op = "decide" => old.result.made
      /\ pages[p].op # "put" => old \in Document
  BY <1>2, <1>3 DEF SenseInv, TriageInv
<1>5. {"proposed", "confirmed", "rejected", "edited"} \cap {Nil} = {}
  BY TriageAssumption DEF Triage!Assumptions
<1>6. CASE Triage!PutWrite(p)
  <2>1. PICK b \in Triage!Bodies : b = pages[p].body
    BY <1>2, <1>6 DEF TriageInv, Triage!PutWrite
  <2>2. feedback' = Triage!Merged(old, b) /\ old \in {Triage!NoDoc} \cup Document
    BY <1>2, <1>3, <1>6, <2>1 DEF Triage!PutWrite, Triage!Writes, Pending
  <2>3. PICK base \in Document : /\ base = IF old.there THEN old ELSE Triage!Fresh
                                 /\ Sense(base)
    <3>1. Triage!Fresh \in Document /\ Sense(Triage!Fresh)
      BY DEF Triage!Fresh, Document, Sense, Triage!NoResult
    <3>2. QED
      BY <1>4, <2>2, <3>1, NoDocIsNotThere
  <2>4. feedback' = [base EXCEPT !.rating = IF b.rating = Nil THEN @ ELSE b.rating,
                        !.scores = @ \cup b.scores, !.comment = IF b.comment = Nil THEN @ ELSE b.comment]
    BY <2>2, <2>3 DEF Triage!Merged
  <2>5. feedback'.result = base.result /\ feedback'.status = base.status
    BY <2>4 DEF Document
  <2>6. QED
    BY <2>3, <2>5 DEF Sense
<1>7. CASE Triage!TriageWrite(p)
  <2>1. pages[p].op = "triage"
    BY <1>7 DEF Triage!TriageWrite
  <2>2. PICK reply \in Triage!Replies, layer \in BOOLEAN :
          feedback' = [old EXCEPT !.result = Triage!ResultOf(old.comment, reply, layer), !.status = "proposed"]
    BY <1>3, <1>7 DEF Triage!TriageWrite, Triage!Writes
  <2>3. old \in Document /\ old.comment \in Comments
    BY <1>4, <2>1 DEF Document
  <2>4. PICK r : r = Triage!ResultOf(old.comment, reply, layer)
    OBVIOUS
  <2>5. r.made /\ r.of = old.comment
    BY <2>4 DEF Triage!ResultOf
  <2>6. feedback'.result = r /\ feedback'.status = "proposed"
    BY <2>2, <2>3, <2>4 DEF Document
  <2>7. QED
    BY <1>5, <2>3, <2>5, <2>6 DEF Sense
<1>8. CASE Triage!DecideWrite(p)
  <2>1. pages[p].op = "decide"
    BY <1>8 DEF Triage!DecideWrite, Triage!Writes
  <2>2. old \in Document /\ old.result \in Result /\ old.result.made /\ old.there
    <3>1. old \in Document /\ old.result.made
      BY <1>4, <2>1
    <3>2. old.result \in {Triage!NoResult} \cup Result /\ old.result # Triage!NoResult
      BY <3>1 DEF Document, Triage!NoResult
    <3>3. QED
      BY <3>1, <3>2, NoDocIsNotThere
  <2>3. old.result.of \in Comments
    BY <1>4, <2>2 DEF Sense
  <2>4. ASSUME NEW ruling \in {"confirmed", "rejected"}, Triage!Writes(p, "decide", [old EXCEPT !.status = ruling])
        PROVE  Sense(feedback')
    <3>1. feedback'.status = ruling /\ feedback'.result = old.result
      BY <2>2, <2>4 DEF Triage!Writes, Document
    <3>2. QED
      BY <1>5, <2>2, <2>3, <3>1 DEF Sense
  <2>5. ASSUME NEW c \in Classes,
               Triage!Writes(p, "decide", [old EXCEPT !.status = "edited",
                  !.result = IF @.made THEN [@ EXCEPT !.classes = <<c>>, !.edited = TRUE] ELSE @])
        PROVE  Sense(feedback')
    <3>1. PICK r : r = [old.result EXCEPT !.classes = <<c>>, !.edited = TRUE]
      OBVIOUS
    <3>2. r.made /\ r.of = old.result.of
      BY <2>2, <3>1 DEF Result
    <3>3. feedback' = [old EXCEPT !.status = "edited", !.result = r]
      BY <2>2, <2>5, <3>1 DEF Triage!Writes, Document
    <3>4. feedback'.status = "edited" /\ feedback'.result = r
      BY <2>2, <3>3 DEF Document
    <3>5. QED
      BY <1>5, <2>3, <3>2, <3>4 DEF Sense
  <2>6. QED
    BY <1>3, <1>8, <2>4, <2>5 DEF Triage!DecideWrite
<1>9. QED
  BY <1>6, <1>7, <1>8

LEMMA SenseGoesOn == ASSUME TriageInv, SenseInv, Triage!Next PROVE SenseInv'
<1>1. PICK p \in Reviewers :
        \/ Triage!PutRead(p) \/ Triage!TriageRead(p) \/ Triage!DecideRead(p)
        \/ Triage!PutWrite(p) \/ Triage!TriageWrite(p) \/ Triage!DecideWrite(p)
        \/ Triage!TriageFails(p) \/ Triage!Delete(p)
  BY DEF Triage!Next
<1>2. CASE Triage!PutRead(p) \/ Triage!TriageRead(p) \/ Triage!DecideRead(p)
  BY <1>2, SenseOfARequest
<1>3. CASE Triage!PutWrite(p) \/ Triage!TriageWrite(p) \/ Triage!DecideWrite(p)
  <2>1. Sense(feedback') /\ pages' = [pages EXCEPT ![p] = Triage!Free]
    BY <1>3, SenseIsWritten, RequestWrites
  <2>2. \A q \in Reviewers : pages'[q] = IF q = p THEN Triage!Free ELSE pages[q]
    BY <2>1 DEF TriageInv
  <2>3. QED
    BY <2>1, <2>2, FreeIsNotPending DEF SenseInv
<1>4. CASE Triage!TriageFails(p)
  <2>1. pages' = [pages EXCEPT ![p] = Triage!Free] /\ UNCHANGED feedback
    BY <1>4 DEF Triage!TriageFails
  <2>2. \A q \in Reviewers : pages'[q] = IF q = p THEN Triage!Free ELSE pages[q]
    BY <2>1 DEF TriageInv
  <2>3. QED
    BY <2>1, <2>2, FreeIsNotPending DEF SenseInv
<1>5. CASE Triage!Delete(p)
  BY <1>5, NoDocIsNotThere DEF Triage!Delete, SenseInv
<1>6. QED
  BY <1>1, <1>2, <1>3, <1>4, <1>5

LEMMA SenseAlways == Spec => [](part = "triage" => TriageInv /\ SenseInv)
<1> DEFINE Kept == part = "triage" => TriageInv /\ SenseInv
<1>1. Init => Kept
  BY TriageStarts, SenseStarts DEF Init
<1>2. Kept /\ [Next]_vars => Kept'
  <2> SUFFICES ASSUME Kept, [Next]_vars, part' = "triage" PROVE TriageInv' /\ SenseInv'
    OBVIOUS
  <2>1. part = "triage" /\ TriageInv'
    BY PartStays, TriageStepOrStay
  <2>2. CASE TriageStep
    BY <2>1, <2>2, SenseGoesOn DEF TriageStep
  <2>3. CASE UNCHANGED vars
    BY <2>1, <2>3 DEF vars, triageVars, SenseInv
  <2>4. QED
    BY <2>1, <2>2, <2>3 DEF Next, ScoreStep, DetectorsStep, JudgmentsStep, BundleStep, PromotionStep,
       PromoterStep
<1>3. QED
  BY <1>1, <1>2, PTL DEF Spec

LEMMA TriageIsTyped == TriageInv /\ SenseInv => Triage!TypeOK
<1> SUFFICES ASSUME TriageInv, SenseInv, feedback.there PROVE feedback.scores \subseteq Dims /\ Sense(feedback)
  BY DEF Triage!TypeOK, Sense
<1>1. feedback \in Document
  BY NoDocIsNotThere DEF TriageInv
<1>2. QED
  BY <1>1 DEF SenseInv, Document

\* The questions of a dataset have ids of their own, of those there were so far.
Numbered(list, n) ==
    /\ \A i, k \in DOMAIN list : list[i].id = list[k].id => i = k
    /\ \A i \in DOMAIN list : list[i].id \in 1..n

\* What a request has in hand: a dataset as it was, the id it drew, a trace that was collected.
Held(l, n, known) ==
    /\ l.op \in {"append", "delete", "confirm"} => Numbered(l.read, n)
    /\ l.op = "mark" => l.wrote[Len(l.wrote)].id \in 2..n
    /\ l.op \in {"check", "add", "append", "mark"} => l.trace \in known \cup {Nil}

Numbers ==
    /\ 1 <= ids /\ Numbered(questions, ids)
    /\ \A t \in Traces : mark[t] \in {Nil} \cup 2..ids /\ (mark[t] # Nil => t \in collected)

LEMMA HeldIsHeldOn ==
    ASSUME NEW n \in Nat, NEW m \in Nat, n <= m, NEW known, NEW more, known \subseteq more,
           NEW l, Held(l, n, known)
    PROVE  Held(l, m, more)
BY DEF Held, Numbered

LEMMA FreeHoldsNothing == ASSUME NEW n, NEW known PROVE Held(Promotion!Free, n, known)
BY PromotionConstants DEF Held

LEMMA AppendedIsNumbered ==
    ASSUME NEW n \in Nat, NEW list \in Entries, Numbered(list, n), NEW e \in Entry, e.id = n + 1
    PROVE  Numbered(Append(list, e), n + 1)
<1>1. Len(list) \in Nat /\ DOMAIN list = 1..Len(list) /\ list \in Seq(Entry)
  BY SequenceIsFunction DEF Entries
<1>2. PICK len \in Nat : len = Len(list)
  BY <1>1
<1> DEFINE t == Append(list, e)
<1>3. /\ DOMAIN t = 1..(len + 1) /\ t[len + 1] = e
      /\ \A i \in 1..len : t[i] = list[i]
  BY <1>1, <1>2
<1> HIDE DEF t
<1>4. \A i \in 1..len : t[i].id \in 1..n
  BY <1>1, <1>2, <1>3 DEF Numbered
<1>5. t[len + 1].id = n + 1
  BY <1>3
<1>6. ASSUME NEW i \in DOMAIN t, NEW k \in DOMAIN t, t[i].id = t[k].id PROVE i = k
  <2>1. CASE i \in 1..len /\ k \in 1..len
    BY <1>1, <1>2, <1>3, <1>6, <2>1 DEF Numbered
  <2>2. CASE i = len + 1 /\ k \in 1..len
    BY <1>4, <1>5, <1>6, <2>2
  <2>3. CASE k = len + 1 /\ i \in 1..len
    BY <1>4, <1>5, <1>6, <2>3
  <2>4. CASE i = len + 1 /\ k = len + 1
    BY <2>4
  <2>5. QED
    BY <1>3, <2>1, <2>2, <2>3, <2>4
<1>7. \A i \in DOMAIN t : t[i].id \in 1..(n + 1)
  BY <1>3, <1>4, <1>5
<1>8. QED
  BY <1>6, <1>7 DEF Numbered, t

LEMMA RestIsNumbered ==
    ASSUME NEW n \in Nat, NEW list \in Entries, Numbered(list, n), NEW places \in SUBSET DOMAIN list
    PROVE  Numbered(Only(list, places), n)
<1>1. list \in Seq(Entry)
  BY DEF Entries
<1>2. PICK t : t = Only(list, places)
  OBVIOUS
<1>3. /\ \A k \in DOMAIN t : Nth(places, k) \in places /\ t[k] = list[Nth(places, k)]
      /\ \A k, l \in DOMAIN t : Nth(places, k) = Nth(places, l) => k = l
  BY <1>1, <1>2, OnlyTakesThePlaces
<1>4. QED
  BY <1>2, <1>3 DEF Numbered

LEMMA MovesKeepNumbers ==
    ASSUME Typed, Numbers, NEW l \in Work, NEW new, Sound(l), Moves(l, new), Held(l, ids, collected)
    PROVE  Numbers' /\ Held(new, ids', collected') /\ ids <= ids' /\ collected \subseteq collected'
<1>1. ids \in Nat /\ questions \in Entries /\ mark \in [Traces -> Nat \cup {Nil}]
  BY DEF Typed
<1>2. CASE Asks(l, new)
  <2>1. Numbers' /\ ids' = ids /\ collected' = collected
    BY <1>2 DEF Asks, Numbers
  <2>2. CASE new \in Collects
    <3>1. new.op = "collect"
      BY <2>2 DEF Collects
    <3>2. QED
      BY <1>1, <2>1, <3>1 DEF Held
  <2>3. ASSUME NEW t \in collected,
               new \in {[op |-> "add", trace |-> t, text |-> TextOfTrace[t], origin |-> "manual"],
                        [op |-> "check", trace |-> t, id |-> mark[t]]}
        PROVE  Held(new, ids, collected)
    BY <2>3 DEF Held
  <2>4. ASSUME NEW i \in DOMAIN questions,
               new \in {[op |-> "delete", id |-> questions[i].id, read |-> questions],
                        [op |-> "confirm", at |-> i, read |-> questions]}
        PROVE  Held(new, ids, collected)
    <3>1. new.op \in {"delete", "confirm"} /\ new.read = questions
      BY <2>4
    <3>2. QED
      BY <3>1 DEF Held, Numbers
  <2>5. ASSUME NEW x \in Queries, new = [op |-> "add", trace |-> Nil, text |-> x, origin |-> "feedback"]
        PROVE  Held(new, ids, collected)
    BY <2>5 DEF Held
  <2>6. QED
    BY <1>1, <1>2, <2>1, <2>2, <2>3, <2>4, <2>5 DEF Asks
<1>3. CASE Stores(l, new)
  <2>1. l \in Collects
    BY <1>3, WorkByOp DEF Stores
  <2>2. PICK t \in l.todo :
          /\ mark' = [mark EXCEPT ![t] = Nil] /\ collected' = collected \cup {t}
          /\ new \in {Promotion!Free, [l EXCEPT !.todo = l.todo \ {t}]}
    BY <1>3 DEF Stores
  <2>3. UNCHANGED <<questions, ids>> /\ t \in Traces
    BY <1>3, <2>1 DEF Stores, Collects
  <2>4. \A u \in Traces : mark'[u] = IF u = t THEN Nil ELSE mark[u]
    BY <1>1, <2>2
  <2>5. Numbers'
    BY <2>2, <2>3, <2>4 DEF Numbers
  <2>6. new = Promotion!Free \/ new.op = "collect"
    BY <2>1, <2>2 DEF Collects
  <2>7. Held(new, ids', collected')
    BY <2>6, FreeHoldsNothing DEF Held
  <2>8. QED
    BY <1>1, <2>2, <2>3, <2>5, <2>7
<1>4. CASE Looks(l, new)
  <2>1. Numbers' /\ ids' = ids /\ collected' = collected
    BY <1>4 DEF Looks, Numbers
  <2>2. new = Promotion!Free
        \/ new = [op |-> "add", trace |-> l.trace, text |-> TextOfTrace[l.trace], origin |-> "manual"]
    BY <1>4 DEF Looks
  <2>3. l.op = "check"
    BY <1>4 DEF Looks
  <2>4. l.trace \in collected \cup {Nil}
    BY <2>3 DEF Held
  <2>5. Held(new, ids, collected)
    <3>1. CASE new = Promotion!Free
      BY <3>1, FreeHoldsNothing
    <3>2. CASE new.op = "add" /\ new.trace = l.trace
      BY <2>4, <3>2 DEF Held
    <3>3. QED
      BY <2>2, <3>1, <3>2
  <2>6. QED
    BY <1>1, <2>1, <2>5
<1>5. CASE Reads(l, new)
  <2>1. Numbers' /\ ids' = ids /\ collected' = collected
    BY <1>5 DEF Reads, Numbers
  <2>2. new.op = "append" /\ new.trace = l.trace /\ new.read = questions /\ l.op = "add"
    BY <1>5 DEF Reads
  <2>3. Held(new, ids, collected)
    BY <2>2 DEF Held, Numbers
  <2>4. QED
    BY <1>1, <2>1, <2>3
<1>6. CASE Adding(l, new)
  <2>1. l \in Appends /\ l.op = "append"
    BY <1>6, WorkByOp DEF Adding
  <2>2. UNCHANGED <<mark, collected>> /\ ids' = ids + 1
    BY <1>6 DEF Adding
  <2>3. PICK e : e = [id |-> ids + 1, text |-> l.text, trace |-> l.trace, origin |-> l.origin]
    OBVIOUS
  <2>4. e \in Entry /\ e.id = ids + 1 /\ l.read \in Entries
    BY <1>1, <2>1, <2>3 DEF Appends, Entry
  <2>5. questions' = Append(l.read, e)
    BY <1>6, <2>3 DEF Adding
  <2>6. Numbered(questions', ids + 1)
    BY <1>1, <2>1, <2>4, <2>5, AppendedIsNumbered DEF Held
  <2>7. Numbers'
    <3>1. \A t \in Traces : mark[t] \in {Nil} \cup 2..(ids + 1) /\ (mark[t] # Nil => t \in collected)
      BY <1>1 DEF Numbers
    <3>2. 1 <= ids + 1
      BY <1>1
    <3>3. QED
      BY <2>2, <2>6, <3>1, <3>2 DEF Numbers
  <2>8. questions'[Len(questions')].id = ids + 1
    <3>1. l.read \in Seq(Entry)
      BY <2>4 DEF Entries
    <3>2. questions'[Len(questions')] = e
      BY <2>4, <2>5, <3>1
    <3>3. QED
      BY <2>4, <3>2
  <2>9. Held(new, ids + 1, collected)
    <3>1. CASE l.trace = Nil
      BY <1>6, <3>1, FreeHoldsNothing DEF Adding
    <3>2. CASE l.trace # Nil
      <4>1. new = [op |-> "mark", trace |-> l.trace, wrote |-> questions']
        BY <1>6, <3>2 DEF Adding
      <4>2. ids + 1 \in 2..(ids + 1)
        BY <1>1 DEF Numbers
      <4>3. new.op = "mark" /\ new.trace = l.trace /\ new.wrote = questions'
        BY <4>1
      <4>4. QED
        BY <2>1, <2>8, <4>2, <4>3 DEF Held
    <3>3. QED
      BY <3>1, <3>2
  <2>10. QED
    BY <1>1, <2>2, <2>7, <2>9
<1>7. CASE Leaves(l, new)
  <2>1. l \in Marks /\ l.op = "mark" /\ UNCHANGED <<questions, collected, ids>> /\ new = Promotion!Free
    BY <1>7, WorkByOp DEF Leaves
  <2>2. mark' = [mark EXCEPT ![l.trace] = l.wrote[Len(l.wrote)].id]
    BY <1>7, <2>1 DEF Leaves
  <2>3. l.trace \in Traces /\ l.trace \in collected /\ l.wrote[Len(l.wrote)].id \in 2..ids
    BY <2>1, PromotionConstants DEF Marks, Held
  <2>4. \A t \in Traces : mark'[t] = IF t = l.trace THEN l.wrote[Len(l.wrote)].id ELSE mark[t]
    BY <1>1, <2>2
  <2>5. Numbers'
    BY <2>1, <2>3, <2>4 DEF Numbers
  <2>6. QED
    BY <1>1, <2>1, <2>5, FreeHoldsNothing
<1>8. CASE Removes(l, new)
  <2>1. l \in Deletes /\ l.op = "delete" /\ UNCHANGED <<mark, collected, ids>> /\ new = Promotion!Free
    BY <1>8, WorkByOp DEF Removes
  <2>2. PICK places \in SUBSET DOMAIN l.read : questions' = Only(l.read, places)
    BY <1>8 DEF Removes
  <2>3. Numbered(l.read, ids) /\ l.read \in Entries
    BY <2>1 DEF Held, Deletes
  <2>4. Numbered(questions', ids)
    BY <1>1, <2>2, <2>3, RestIsNumbered
  <2>5. QED
    BY <1>1, <2>1, <2>4, FreeHoldsNothing DEF Numbers
<1>9. CASE Confirming(l, new)
  <2>1. l \in Confirms /\ l.op = "confirm" /\ UNCHANGED <<mark, collected, ids>> /\ new = Promotion!Free
    BY <1>9, WorkByOp DEF Confirming
  <2>2. questions' = [l.read EXCEPT ![l.at] = [l.read[l.at] EXCEPT !.origin = "feedback"]]
    BY <1>9 DEF Confirming
  <2>3. Numbered(l.read, ids) /\ l.read \in Entries /\ l.at \in DOMAIN l.read
    BY <2>1 DEF Held, Confirms, Sound
  <2>4. /\ DOMAIN l.read = 1..Len(l.read) /\ l.read \in [1..Len(l.read) -> Entry]
    BY <2>3, SequenceIsFunction DEF Entries
  <2>5. [l.read[l.at] EXCEPT !.origin = "feedback"].id = l.read[l.at].id
    BY <2>3, <2>4 DEF Entry
  <2>6. DOMAIN questions' = DOMAIN l.read /\ \A i \in DOMAIN l.read : questions'[i].id = l.read[i].id
    BY <2>2, <2>3, <2>5
  <2>7. Numbered(questions', ids)
    BY <2>3, <2>6 DEF Numbered
  <2>8. QED
    BY <1>1, <2>1, <2>7, FreeHoldsNothing DEF Numbers
<1>10. CASE Drops(l, new)
  <2>1. UNCHANGED <<questions, mark, collected, ids>> /\ new = Promotion!Free
    BY <1>10 DEF Drops
  <2>2. QED
    BY <1>1, <2>1, FreeHoldsNothing DEF Numbers
<1>11. QED
  BY <1>2, <1>3, <1>4, <1>5, <1>6, <1>7, <1>8, <1>9, <1>10 DEF Moves

\* The same of every request of a set of pages.
NumbersOf(W) == Numbers /\ \A p \in W : Held(page[p], ids, collected)

LEMMA NumbersStart ==
    ASSUME Promotion!Init \/ Promoter!Init, NEW W, page = [p \in W |-> Promotion!Free] PROVE NumbersOf(W)
<1>1. PICK x \in Queries : questions = <<[id |-> 1, text |-> x, trace |-> Nil, origin |-> "generated"]>>
  BY DEF Promotion!Init, Promotion!Question, Promoter!Init, Promoter!Question
<1>2. mark = [t \in Traces |-> Nil] /\ ids = 1
  BY DEF Promotion!Init, Promoter!Init
<1>3. Numbered(questions, ids)
  BY <1>1, <1>2 DEF Numbered
<1>4. \A p \in W : page[p] = Promotion!Free
  OBVIOUS
<1>5. QED
  BY <1>2, <1>3, <1>4, FreeHoldsNothing DEF NumbersOf, Numbers

LEMMA NumbersGoOn ==
    ASSUME Typed, NEW W, page \in [W -> Work], \A p \in W : Sound(page[p]), NumbersOf(W),
           NEW p \in W, NEW new, page' = [page EXCEPT ![p] = new], Moves(page[p], new)
    PROVE  NumbersOf(W)'
<1>1. page[p] \in Work /\ Sound(page[p]) /\ Held(page[p], ids, collected) /\ Numbers
  BY DEF NumbersOf
<1>2. Numbers' /\ Held(new, ids', collected') /\ ids <= ids' /\ collected \subseteq collected'
  BY <1>1, MovesKeepNumbers
<1>3. ids \in Nat /\ ids' \in Nat
  <2>1. Typed'
    BY <1>1, MovesAreTyped
  <2>2. QED
    BY <2>1 DEF Typed
<1>4. page'[p] = new /\ \A q \in W \ {p} : page'[q] = page[q]
  OBVIOUS
<1>5. \A q \in W \ {p} : Held(page[q], ids', collected')
  BY <1>2, <1>3, HeldIsHeldOn DEF NumbersOf
<1>6. QED
  BY <1>2, <1>4, <1>5 DEF NumbersOf

LEMMA NumbersStay ==
    ASSUME NEW W, NumbersOf(W), UNCHANGED <<questions, mark, collected, page, ids>> PROVE NumbersOf(W)'
BY DEF NumbersOf, Numbers

LEMMA PromotionNumbersAlways == Spec => [](part = "promotion" => PromotionInv /\ NumbersOf(Promoters))
<1> DEFINE Kept == part = "promotion" => PromotionInv /\ NumbersOf(Promoters)
<1>1. Init => Kept
  <2> SUFFICES ASSUME Promotion!Init PROVE PromotionInv /\ NumbersOf(Promoters)
    BY DEF Init
  <2>1. page = [p \in Promoters |-> Promotion!Free]
    BY DEF Promotion!Init
  <2>2. QED
    BY <2>1, PromotionStarts, NumbersStart
<1>2. Kept /\ [Next]_vars => Kept'
  <2> SUFFICES ASSUME Kept, [Next]_vars, part' = "promotion"
               PROVE  PromotionInv' /\ NumbersOf(Promoters)'
    OBVIOUS
  <2>1. part = "promotion" /\ PromotionInv /\ NumbersOf(Promoters) /\ PromotionInv'
    BY PartStays, PromotionStepOrStay
  <2>2. CASE PromotionStep
    <3>1. PICK p \in Promoters : \E new : page' = [page EXCEPT ![p] = new] /\ Moves(page[p], new)
      BY <2>1, <2>2, PromotionMoves DEF PromotionStep, PromotionInv
    <3>2. PICK new : page' = [page EXCEPT ![p] = new] /\ Moves(page[p], new)
      BY <3>1
    <3>3. QED
      BY <2>1, <3>2, NumbersGoOn DEF PromotionInv
  <2>3. CASE UNCHANGED vars
    BY <2>1, <2>3, NumbersStay DEF vars, promotionVars
  <2>4. QED
    BY <2>1, <2>2, <2>3 DEF Next, ScoreStep, DetectorsStep, JudgmentsStep, BundleStep, PromoterStep,
       TriageStep
<1>3. QED
  BY <1>1, <1>2, PTL DEF Spec

LEMMA PromoterNumbersAlways == Spec => [](part = "one promoter" => PromoterInv /\ NumbersOf({"p1"}))
<1> DEFINE Kept == part = "one promoter" => NumbersOf({"p1"})
           Inv == part = "one promoter" => PromoterInv
<1>1. Init => Kept
  <2> SUFFICES ASSUME Promoter!Init PROVE NumbersOf({"p1"})
    BY DEF Init
  <2>1. page = [p \in {"p1"} |-> Promotion!Free]
    BY PromotionConstants DEF Promoter!Init
  <2>2. QED
    BY <2>1, NumbersStart
<1>2. Inv /\ Kept /\ [Next]_vars => Kept'
  <2> SUFFICES ASSUME Inv, Kept, [Next]_vars, part' = "one promoter"
               PROVE  NumbersOf({"p1"})'
    OBVIOUS
  <2>1. part = "one promoter" /\ PromoterInv /\ NumbersOf({"p1"})
    BY PartStays
  <2>2. CASE PromoterStep
    <3>1. PICK p \in {"p1"} : \E new : page' = [page EXCEPT ![p] = new] /\ Moves(page[p], new)
      BY <2>1, <2>2, PromoterMoves DEF PromoterStep, PromoterInv
    <3>2. PICK new : page' = [page EXCEPT ![p] = new] /\ Moves(page[p], new)
      BY <3>1
    <3>3. QED
      BY <2>1, <3>2, NumbersGoOn DEF PromoterInv
  <2>3. CASE UNCHANGED vars
    BY <2>1, <2>3, NumbersStay DEF vars, promotionVars
  <2>4. QED
    BY <2>1, <2>2, <2>3 DEF Next, ScoreStep, DetectorsStep, JudgmentsStep, BundleStep, PromotionStep,
       TriageStep
<1>3. Inv /\ Kept => (part = "one promoter" => PromoterInv /\ NumbersOf({"p1"}))
  OBVIOUS
<1>4. Spec => []Inv
  BY PromoterAlways
<1> HIDE DEF Inv, Kept
<1>5. QED
  BY <1>1, <1>2, <1>3, <1>4, PTL DEF Spec

LEMMA NumbersAreTyped == Numbers => Promotion!TypeOK /\ Promoter!TypeOK
BY DEF Numbers, Numbered, Promotion!TypeOK, Promoter!TypeOK

\* What the rest of the review keeps has the shape its modules give it, for any bounds: a score
\* and its verdict (routers/experiments.py, core/eval/funnel.py), a run page (core/eval/detectors.py),
\* the file of judgments (core/judgments/store.py), a received bundle (core/bundle), promoted
\* questions (routers/production.py) and triaged feedback (routers/feedback.py).
THEOREM ReviewKeepsItsShape == Spec => []TypeOK
<1> DEFINE Shape ==
      /\ part = "score" => ScoreInv
      /\ part = "detectors" => DetectorsInv /\ PageInv
      /\ part = "judgments" => EndInv
      /\ part = "bundle" => BundleInv
      /\ part = "promotion" => PromotionInv /\ NumbersOf(Promoters)
      /\ part = "one promoter" => PromoterInv /\ NumbersOf({"p1"})
      /\ part = "triage" => TriageInv /\ SenseInv
<1>1. Shape => TypeOK
  BY ScoreIsTyped, PageIsTyped, JudgmentsAreTyped, BundleIsTyped, NumbersAreTyped, TriageIsTyped
     DEF TypeOK, NumbersOf
<1>2. Spec => []Shape
  BY ScoreAlways, PageAlways, EndAlways, BundleAlways, PromotionNumbersAlways,
     PromoterNumbersAlways, SenseAlways, PTL
<1>3. QED
  BY <1>1, <1>2, PTL

==============================================================================
