------------------------------ MODULE Retrieval ------------------------------
(***************************************************************************)
(* A question's way through the retrievers: two halves answer, a fusion    *)
(* merges them (core/retrieval/hybrid.py), and a graph may be merged over  *)
(* the outcome (core/retrieval/graph_hybrid.py).  The stores are seen by   *)
(* what they answer: a ranked list with scores, filtered or not.           *)
(***************************************************************************)
EXTENDS Fusion

CONSTANTS
    Chunks,
    DenseScores,    \* cosines; SparseScores are BM25's.  Both in hundredths.
    SparseScores,
    Weights,        \* merge_alpha, in hundredths
    GraphWeights,   \* graph_weight, in hundredths
    Filters,        \* what a filter lets through; Chunks is none
    MaxK,           \* bound: fragments asked for
    MaxHits         \* bound: fragments a store finds

Assumptions ==
    /\ RrfKAssumption
    /\ Chunks \in Filters /\ Filters \subseteq SUBSET Chunks
    /\ DenseScores \subseteq Int /\ SparseScores \subseteq Nat \ {0}
    /\ Weights \subseteq 0..100 /\ GraphWeights \subseteq 0..100
    /\ MaxK \in Nat \ {0} /\ MaxHits \in Nat

NoGraph == -1

VARIABLES
    asked,      \* k, the strategy, its weights, the filter
    at,         \* the stage
    halves,     \* dense, sparse and graph, as the caller's `halves` is filled
    merged      \* the fused list, with each fragment's scores

vars == <<asked, at, halves, merged>>

Hit(c, score) == [chunk |-> c, score |-> score]
Ids(hits) == [i \in DOMAIN hits |-> hits[i].chunk]
ScoreIn(hits, c, none) ==
    IF c \in In(Ids(hits)) THEN hits[Place(Ids(hits), c)].score ELSE none

NoHalves == [dense |-> <<>>, sparse |-> <<>>, graph |-> <<>>]

\* What a store may answer: distinct fragments, best first.
Hits(chunks, scores, n) ==
    {[i \in 1..n |-> Hit(f[i], s[i])] :
        f \in {g \in [1..n -> chunks] : IsInjective(g)},
        s \in {t \in [1..n -> scores] : \A i \in 1..(n - 1) : t[i] >= t[i + 1]}}
Answers(chunks, scores, most) ==
    UNION {Hits(chunks, scores, n) : n \in {m \in 0..MaxHits : m <= most /\ m <= Cardinality(chunks)}}

Init ==
    /\ asked \in [k : 1..MaxK, merge : {"rrf", "weighted"}, alpha : Weights,
                  graph : GraphWeights \cup {NoGraph}, filter : Filters]
    /\ asked.merge = "rrf" => asked.alpha = 50
    /\ at = "dense" /\ halves = NoHalves /\ merged = <<>>

\* The window each half is asked for: max(k * 2, 20).
FetchK(k) == IF k * 2 > 20 THEN k * 2 ELSE 20

\* QdrantRetriever.retrieve
DenseHalf ==
    /\ at = "dense"
    /\ \E found \in Answers(asked.filter, DenseScores, FetchK(asked.k)) :
          halves' = [halves EXCEPT !.dense = found]
    /\ at' = "sparse" /\ UNCHANGED <<asked, merged>>

\* OpenSearchRetriever.retrieve
SparseHalf ==
    /\ at = "sparse"
    /\ \E found \in Answers(asked.filter, SparseScores, FetchK(asked.k)) :
          halves' = [halves EXCEPT !.sparse = found]
    /\ at' = "merge" /\ UNCHANGED <<asked, merged>>

---------------------------------------------------------------------------
(* HybridRetriever *)

\* A fused fragment with the scores its metadata carries.
Scored(c, score) ==
    [chunk |-> c, score |-> score,
     dense |-> ScoreIn(halves.dense, c, 0), sparse |-> ScoreIn(halves.sparse, c, 0)]

MergeRrf ==
    /\ at = "merge" /\ asked.merge = "rrf"
    /\ LET dense == Ids(halves.dense)
           sparse == Ids(halves.sparse)
           ranked == Cut(RrfMerge(dense, sparse), asked.k)
       IN merged' = [i \in DOMAIN ranked |-> Scored(ranked[i], RrfScore(dense, sparse, ranked[i]))]
    /\ at' = "graph" /\ UNCHANGED <<asked, halves>>

\* Variant with a bug: a half is not brought to its own scale.
AsItIs(hits, c) == 100 * ScoreIn(hits, c, 0)

\* _normalise: by the best score of the half, or by one when that is zero.
Normalised(hits, c) ==
    IF c \notin In(Ids(hits)) THEN 0
    ELSE LET best == hits[1].score IN
         IF best = 0 THEN 100 * ScoreIn(hits, c, 0)
         ELSE IF best > 0 THEN (10000 * ScoreIn(hits, c, 0)) \div best
         ELSE ((-10000) * ScoreIn(hits, c, 0)) \div (-best)

WeightedScore(c) ==
    asked.alpha * Normalised(halves.dense, c) + (100 - asked.alpha) * Normalised(halves.sparse, c)

\* The union of the two is a set: what is equal comes out in any order.  (TLC evaluates what a LET
\* of an action defines at each use, and a bound variable once: hence the sets of one element.)
MergeWeighted ==
    /\ at = "merge" /\ asked.merge = "weighted"
    /\ LET all == In(Ids(halves.dense)) \cup In(Ids(halves.sparse)) IN
       \E met \in {l \in [1..Cardinality(all) -> all] : IsInjective(l)} :
       \E score \in {[c \in all |-> WeightedScore(c)]} :
       \E ranked \in {Cut(Ranked(met, score), asked.k)} :
          merged' = [i \in DOMAIN ranked |-> Scored(ranked[i], score[ranked[i]])]
    /\ at' = "graph" /\ UNCHANGED <<asked, halves>>

---------------------------------------------------------------------------
(* GraphHybridRetriever *)

WithoutGraph ==
    /\ at = "graph" /\ asked.graph = NoGraph
    /\ at' = "done" /\ UNCHANGED <<asked, halves, merged>>

\* retrieve_graph: seeds by keyword, as the store returns them and whatever the filter says,
\* at most k of them, with scores that fall in steps of 1/k.
GraphHalf ==
    /\ at = "graph" /\ asked.graph # NoGraph /\ halves.graph = <<>>
    /\ \E n \in {m \in 0..asked.k : m <= Cardinality(Chunks)} :
       \E seeds \in {f \in [1..n -> Chunks] : IsInjective(f)} :
          halves' = [halves EXCEPT !.graph =
              [i \in DOMAIN seeds |-> Hit(seeds[i], Unit - ((i - 1) * Unit) \div asked.k)]]
    /\ at' = "graph_merge" /\ UNCHANGED <<asked, merged>>

\* The graph's fragments at its weight, the base's at the rest, in that order of meeting.
GraphScore(c) ==
    asked.graph * (ScoreIn(halves.graph, c, 0) \div 100)
    + (100 - asked.graph) * (ScoreIn(merged, c, 0) \div 100)

MergeGraph ==
    /\ at = "graph_merge"
    /\ \E met \in {Met(Ids(halves.graph), Ids(merged))} :
       \E score \in {[c \in In(met) |-> GraphScore(c)]} :
       \E ranked \in {Cut(Ranked(met, score), asked.k)} :
          merged' = [i \in DOMAIN ranked |-> Scored(ranked[i], score[ranked[i]])]
    /\ at' = "done" /\ UNCHANGED <<asked, halves>>

Next == DenseHalf \/ SparseHalf \/ MergeRrf \/ MergeWeighted \/ WithoutGraph \/ GraphHalf \/ MergeGraph

Spec == Init /\ [][Next]_vars

---------------------------------------------------------------------------
(* Properties *)

Hybrid == at \in {"graph", "graph_merge"}
Outcome == Ids(merged)
Found == In(Ids(halves.dense)) \cup In(Ids(halves.sparse))

TypeOK ==
    /\ In(Outcome) \subseteq Chunks /\ IsInjective(Outcome)
    /\ \A i \in 1..(Len(merged) - 1) : merged[i].score >= merged[i + 1].score

\* c comes out no later than d: above it, or d was cut.
NotBelow(c, d) == d \in In(Outcome) => c \in In(Outcome) /\ Place(Outcome, c) < Place(Outcome, d)

\* list has c above d, or d not at all.
Above(list, c, d) ==
    c \in In(list) /\ (d \in In(list) => Place(list, c) < Place(list, d))

\* Rank fusion: what both halves put above another fragment is above it in the outcome, and
\* is cut last.
BothHalvesDecide ==
    Hybrid /\ asked.merge = "rrf" =>
        \A c, d \in Found :
            Above(Ids(halves.dense), c, d) /\ Above(Ids(halves.sparse), c, d) => NotBelow(c, d)

\* Nothing the halves found is missing while there is room for it, and nothing else is there.
CutIsExact ==
    Hybrid => /\ In(Outcome) \subseteq Found
              /\ Len(Outcome) = (IF Cardinality(Found) < asked.k THEN Cardinality(Found) ELSE asked.k)

\* Weighting by each half's own maximum makes their scales comparable (tools/config_distort.py:
\* "divides each half by its own maximum before weighting, so the scales cannot disagree"):
\* with equal weights neither half's best fragment is beaten by anything but a fragment of
\* both halves.  For halves whose best score is above zero.
ScalesDoNotDecide ==
    /\ Hybrid /\ asked.merge = "weighted" /\ asked.alpha = 50
    /\ halves.dense # <<>> /\ halves.dense[1].score > 0
    =>      \A d \in In(Outcome) :
                \/ d \in In(Ids(halves.dense)) \cap In(Ids(halves.sparse))
                \/ ScoreIn(merged, d, 0) <= WeightedScore(halves.dense[1].chunk)

\* The graph's half never turns the base's order against itself: of two fragments of the base
\* the upper one stays above the other when the graph too has it above.
GraphKeepsTheOrderBothGive ==
    at = "graph_merge" =>
       \A c, d \in In(Outcome) :
           /\ Place(Outcome, c) < Place(Outcome, d)
           /\ Above(Ids(halves.graph), c, d)
           => NotBelow(c, d)'

-----------------------------------------------------------------------------
(* What the code, its tests or its documents say and the code does not keep (README). *)

\* "the merge is weighted entirely onto the semantic half" (tools/config_distort.py:198): at
\* weight one the fragments of that half come out in its order.
WholeWeightKeepsItsOrder ==
    Hybrid /\ asked.merge = "weighted" /\ asked.alpha = 100 =>
        \A i, j \in DOMAIN halves.dense :
            halves.dense[i].score > halves.dense[j].score
            => NotBelow(halves.dense[i].chunk, halves.dense[j].chunk)

\* One filter "means the same thing on both sides" (adapters/qdrant.py:43): no fragment it
\* excludes comes out.
FilterHolds == In(Outcome) \subseteq asked.filter
=============================================================================
