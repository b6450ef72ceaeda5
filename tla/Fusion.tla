-------------------------------- MODULE Fusion --------------------------------
(***************************************************************************)
(* Fusing ranked lists of fragments: what core/retrieval/hybrid.py,        *)
(* core/retrieval/graph_hybrid.py and core/pins/overlay.py have in common. *)
(* A list is a sequence of fragments, best first, without repetition; a    *)
(* score is an integer share of Unit.                                      *)
(***************************************************************************)
EXTENDS Integers, Sequences, FiniteSets, Functions, Selections

CONSTANTS RrfK     \* _RRF_K, rrf_k

RrfKAssumption == RrfK \in Nat

Unit == 1000000

In(list) == Range(list)
Place(list, c) == CHOOSE i \in DOMAIN list : list[i] = c

\* _rrf_score
RankScore(rank) == Unit \div (RrfK + rank)

\* What a list gives a fragment, and two lists together.
Share(list, c) == IF c \in In(list) THEN RankScore(Place(list, c)) ELSE 0
RrfScore(first, second, c) == Share(first, c) + Share(second, c)

\* The fragments of two lists in the order a dictionary meets them.
Met(first, second) == first \o Only(second, {i \in DOMAIN second : second[i] \notin In(first)})

\* sorted(..., reverse=True): by score, and what is equal stays as it was met.
Beats(met, score, c, d) ==
    \/ score[c] > score[d]
    \/ score[c] = score[d] /\ Place(met, c) < Place(met, d)
Ranked(met, score) ==
    [r \in 1..Len(met) |->
        CHOOSE c \in In(met) : Cardinality({d \in In(met) : Beats(met, score, d, c)}) = r - 1]

\* _rrf_merge, _merge_rrf without its cut
RrfMerge(first, second) ==
    LET met == Met(first, second)
    IN Ranked(met, [c \in In(met) |-> RrfScore(first, second, c)])

\* list[:k]
Cut(list, k) == SubSeq(list, 1, IF Len(list) < k THEN Len(list) ELSE k)
=============================================================================
