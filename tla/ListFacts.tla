------------------------------- MODULE ListFacts -------------------------------
(***************************************************************************)
(* What the proofs need of lists, sets and folds: induction as a statement *)
(* about sets, that a fold over a finite set exists and what it computes   *)
(* step by step, ranks in a finite set, and selections of places.          *)
(***************************************************************************)
EXTENDS Selections, FiniteSetsExt, FiniteSetTheorems, WellFoundedInduction, TLAPS

(* Induction.  A property is the set of what has it. *)

LEMMA LeastNumberOf ==
    ASSUME NEW T \in SUBSET Nat, T # {}
    PROVE  \E n \in T : \A m \in T : n <= m
<1>1. PICK n \in T : \A m \in T : <<m, n>> \notin OpToRel(<, Nat)
  BY NatLessThanWellFounded, WFMin, Zenon
<1>2. \A m \in T : ~(m < n)
  BY <1>1 DEF OpToRel
<1>3. QED
  BY <1>2

\* Induction over the naturals: a set with zero and every successor of its numbers has all.
LEMMA NumbersByStep ==
    ASSUME NEW T, 0 \in T, \A n \in Nat : n \in T => n + 1 \in T
    PROVE  Nat \subseteq T
<1>1. SUFFICES ASSUME Nat \ T # {} PROVE FALSE
  OBVIOUS
<1>2. PICK n \in Nat \ T : \A m \in Nat \ T : n <= m
  BY <1>1, LeastNumberOf
<1>3. n # 0 /\ n - 1 \in Nat /\ n - 1 \notin Nat \ T
  BY <1>2
<1>4. (n - 1) + 1 \in T
  BY <1>3
<1>5. QED
  BY <1>2, <1>4

\* The same up to a bound.
LEMMA NumbersUpTo ==
    ASSUME NEW n \in Nat, NEW T, 0 \in T, \A i \in 0..n : i \in T /\ i < n => i + 1 \in T
    PROVE  0..n \subseteq T
<1> DEFINE U == {i \in Nat : i <= n => i \in T}
<1>1. 0 \in U /\ \A i \in Nat : i \in U => i + 1 \in U
  OBVIOUS
<1> HIDE DEF U
<1>2. Nat \subseteq U
  BY <1>1, NumbersByStep
<1>3. QED
  BY <1>2 DEF U

\* Induction over the subsets of a finite set, one element more at a time.
LEMMA SubsetsByStep ==
    ASSUME NEW S, IsFiniteSet(S), NEW T, {} \in T,
           \A s \in SUBSET S : \A x \in S \ s : s \in T => s \cup {x} \in T
    PROVE  SUBSET S \subseteq T
<1> DEFINE U == {n \in Nat : \A s \in SUBSET S : Cardinality(s) = n => s \in T}
<1>1. \A s \in SUBSET S : IsFiniteSet(s) /\ Cardinality(s) \in Nat
  BY FS_Subset, FS_CardinalityType
<1>2. 0 \in U
  BY <1>1, FS_EmptySet
<1>3. ASSUME NEW n \in Nat, n \in U PROVE n + 1 \in U
  <2> SUFFICES ASSUME NEW s \in SUBSET S, Cardinality(s) = n + 1 PROVE s \in T
    OBVIOUS
  <2>1. PICK x \in s : TRUE
    BY <1>1, FS_EmptySet
  <2>2. Cardinality(s \ {x}) = n
    <3>1. IsFiniteSet(s) /\ Cardinality(s \ {x}) = Cardinality(s) - 1
      BY <1>1, <2>1, FS_RemoveElement
    <3>2. QED
      BY <3>1
  <2>3. s \ {x} \in T /\ s = (s \ {x}) \cup {x} /\ x \in S \ (s \ {x})
    BY <1>3, <2>1, <2>2
  <2>4. QED
    BY <2>3
<1> HIDE DEF U
<1>4. Nat \subseteq U
  BY <1>2, <1>3, NumbersByStep
<1>5. QED
  BY <1>1, <1>4 DEF U

----------------------------------------------------------------------------
(* Places of a sequence *)

\* A function on the first numbers is a sequence.
LEMMA FunctionIsSequence ==
    ASSUME NEW S, NEW n \in Nat, NEW s \in [1..n -> S]
    PROVE  s \in Seq(S) /\ Len(s) = n /\ DOMAIN s = 1..n
OBVIOUS

\* A sequence is a function on the first numbers.
LEMMA SequenceIsFunction ==
    ASSUME NEW S, NEW s \in Seq(S)
    PROVE  Len(s) \in Nat /\ DOMAIN s = 1..Len(s) /\ s \in [1..Len(s) -> S]
OBVIOUS

\* A finite set of places has one at every rank, and every place has a rank.
LEMMA PlacesHaveRanks ==
    ASSUME NEW S \in SUBSET Int, IsFiniteSet(S)
    PROVE  /\ Cardinality(S) \in Nat
           /\ \A k \in 1..Cardinality(S) :
                 Nth(S, k) \in S /\ Cardinality({j \in S : j <= Nth(S, k)}) = k
           /\ \A i \in S : \E k \in 1..Cardinality(S) : Nth(S, k) = i
<1> DEFINE UpTo(i) == {j \in S : j <= i}
           rank == [i \in S |-> Cardinality(UpTo(i))]
<1>1. Cardinality(S) \in Nat
  BY FS_CardinalityType
<1>2. \A i \in S : IsFiniteSet(UpTo(i)) /\ Cardinality(UpTo(i)) \in 1..Cardinality(S)
  <2> TAKE i \in S
  <2>1. UpTo(i) \in SUBSET S /\ i \in UpTo(i)
    OBVIOUS
  <2>2. IsFiniteSet(UpTo(i)) /\ Cardinality(UpTo(i)) <= Cardinality(S)
    BY <2>1, FS_Subset
  <2>3. Cardinality(UpTo(i)) \in Nat \ {0}
    BY <2>1, <2>2, FS_CardinalityType, FS_EmptySet
  <2> HIDE DEF UpTo
  <2>4. QED
    BY <1>1, <2>2, <2>3
<1>3. \A i, k \in S : i < k => Cardinality(UpTo(i)) < Cardinality(UpTo(k))
  <2> SUFFICES ASSUME NEW i \in S, NEW k \in S, i < k
               PROVE  Cardinality(UpTo(i)) < Cardinality(UpTo(k))
    OBVIOUS
  <2>1. UpTo(i) \in SUBSET UpTo(k) /\ UpTo(k) # UpTo(i)
    <3>1. UpTo(i) \subseteq UpTo(k)
      <4>1. i \in Int /\ k \in Int /\ \A j \in S : j \in Int
        OBVIOUS
      <4>2. \A j \in S : j <= i => j <= k
        BY <4>1
      <4>3. QED
        BY <4>2
    <3>2. k \in UpTo(k) /\ k \notin UpTo(i)
      OBVIOUS
    <3>3. QED
      BY <3>1, <3>2
  <2>2. /\ Cardinality(UpTo(i)) <= Cardinality(UpTo(k))
        /\ Cardinality(UpTo(k)) = Cardinality(UpTo(i)) => UpTo(k) = UpTo(i)
    <3>1. IsFiniteSet(UpTo(k))
      BY <1>2
    <3> HIDE DEF UpTo
    <3>2. QED
      BY <2>1, <3>1, FS_Subset
  <2>3. Cardinality(UpTo(i)) \in Nat /\ Cardinality(UpTo(k)) \in Nat
    BY <1>2, FS_CardinalityType
  <2> HIDE DEF UpTo
  <2>4. QED
    BY <2>1, <2>2, <2>3
<1>4. rank \in Injection(S, 1..Cardinality(S))
  <2> HIDE DEF UpTo
  <2>1. \A i, k \in S : Cardinality(UpTo(i)) = Cardinality(UpTo(k)) => i = k
    <3> SUFFICES ASSUME NEW i \in S, NEW k \in S, i # k
                 PROVE  Cardinality(UpTo(i)) # Cardinality(UpTo(k))
      OBVIOUS
    <3>1. (i < k \/ k < i) /\ Cardinality(UpTo(i)) \in Nat /\ Cardinality(UpTo(k)) \in Nat
      BY <1>2
    <3>2. QED
      BY <1>3, <3>1
  <2>2. QED
    BY <1>2, <2>1 DEF Injection, IsInjective
<1>5. rank \in Surjection(S, 1..Cardinality(S))
  <2>1. IsFiniteSet(1..Cardinality(S)) /\ Cardinality(1..Cardinality(S)) = Cardinality(S)
    BY <1>1, FS_Interval
  <2>2. QED
    BY <1>4, <2>1, FS_Injection
<1>6. \A k \in 1..Cardinality(S) : \E i \in S : Cardinality(UpTo(i)) = k
  <2> HIDE DEF UpTo
  <2>1. QED
    BY <1>5 DEF Surjection
<1>7. \A k : Nth(S, k) = CHOOSE i \in S : Cardinality(UpTo(i)) = k
  BY DEF Nth
<1> HIDE DEF UpTo, rank
<1>8. \A k \in 1..Cardinality(S) : Nth(S, k) \in S /\ Cardinality(UpTo(Nth(S, k))) = k
  BY <1>6, <1>7
<1>9. \A i \in S : Nth(S, Cardinality(UpTo(i))) = i
  <2> SUFFICES ASSUME NEW i \in S PROVE Nth(S, Cardinality(UpTo(i))) = i
    OBVIOUS
  <2>1. PICK n : n = Nth(S, Cardinality(UpTo(i)))
    OBVIOUS
  <2>2. n \in S /\ Cardinality(UpTo(n)) = Cardinality(UpTo(i))
    BY <1>2, <1>8, <2>1
  <2>3. n < i \/ n = i \/ i < n
    BY <2>2
  <2>4. Cardinality(UpTo(i)) \in Nat
    BY <1>2, FS_CardinalityType
  <2>5. n = i
    BY <1>3, <2>2, <2>3, <2>4
  <2>6. QED
    BY <2>1, <2>5
<1>10. \A i \in S : \E k \in 1..Cardinality(S) : Nth(S, k) = i
  BY <1>2, <1>9
<1>11. QED
  BY <1>1, <1>8, <1>10 DEF UpTo

\* A finite set of numbers has a least and a greatest one.
LEMMA LeastAndGreatest ==
    ASSUME NEW S \in SUBSET Int, IsFiniteSet(S), S # {}
    PROVE  (\E i \in S : \A j \in S : i <= j) /\ (\E i \in S : \A j \in S : j <= i)
<1> DEFINE UpTo(i) == {j \in S : j <= i}
<1>1. Cardinality(S) \in Nat \ {0}
  BY FS_CardinalityType, FS_EmptySet
<1>2. \A i \in S : IsFiniteSet(UpTo(i)) /\ UpTo(i) \in SUBSET S
  BY FS_Subset
<1>3. \A k \in 1..Cardinality(S) : Nth(S, k) \in S /\ Cardinality(UpTo(Nth(S, k))) = k
  BY PlacesHaveRanks
<1>4. PICK first, last \in S : Cardinality(UpTo(first)) = 1 /\ Cardinality(UpTo(last)) = Cardinality(S)
  <2>1. 1 \in 1..Cardinality(S) /\ Cardinality(S) \in 1..Cardinality(S)
    BY <1>1
  <2> HIDE DEF UpTo
  <2>2. QED
    BY <1>3, <2>1
<1>5. UpTo(last) = S
  BY <1>2, <1>4, FS_Subset
<1>6. \E x : UpTo(first) = {x}
  BY <1>2, <1>4, FS_Singleton
<1>7. UpTo(first) = {first}
  BY <1>6
<1>8. \A j \in S : first <= j
  BY <1>7
<1>9. QED
  BY <1>5, <1>8

\* What is at some places of a sequence: each of them, once.
LEMMA OnlyTakesThePlaces ==
    ASSUME NEW T, NEW s \in Seq(T), NEW places \in SUBSET DOMAIN s
    PROVE  /\ Only(s, places) \in Seq(T)
           /\ \A k \in DOMAIN Only(s, places) :
                 Nth(places, k) \in places /\ Only(s, places)[k] = s[Nth(places, k)]
           /\ \A k, l \in DOMAIN Only(s, places) : Nth(places, k) = Nth(places, l) => k = l
           /\ \A i \in places : \E k \in DOMAIN Only(s, places) : Only(s, places)[k] = s[i]
<1>1. IsFiniteSet(places) /\ places \in SUBSET Int
  <2>1. IsFiniteSet(1..Len(s)) /\ places \in SUBSET (1..Len(s))
    BY FS_Interval
  <2>2. QED
    BY <2>1, FS_Subset
<1>2. PICK n \in Nat : n = Cardinality(places)
  BY <1>1, FS_CardinalityType
<1>3. \A k \in 1..n : Nth(places, k) \in places /\ Cardinality({j \in places : j <= Nth(places, k)}) = k
  BY <1>1, <1>2, PlacesHaveRanks
<1>4. \A i \in places : \E k \in 1..n : Nth(places, k) = i
  BY <1>1, <1>2, PlacesHaveRanks
<1>5. Only(s, places) = [k \in 1..n |-> s[Nth(places, k)]]
  BY <1>2 DEF Only
<1>6. \A k \in 1..n : s[Nth(places, k)] \in T
  <2>1. \A i \in DOMAIN s : s[i] \in T
    OBVIOUS
  <2>2. QED
    BY <1>3, <2>1
<1>7. Only(s, places) \in Seq(T) /\ DOMAIN Only(s, places) = 1..n
  BY <1>5, <1>6
<1>8. \A k \in 1..n : Only(s, places)[k] = s[Nth(places, k)]
  BY <1>5
<1>9. \A k, l \in 1..n : Nth(places, k) = Nth(places, l) => k = l
  BY <1>3
<1>10. \A i \in places : \E k \in 1..n : Only(s, places)[k] = s[i]
  BY <1>4, <1>8
<1>11. QED
  BY <1>3, <1>7, <1>8, <1>9, <1>10

\* They are what Max and Min choose.
LEMMA MaxIsThere ==
    ASSUME NEW S \in SUBSET Int, IsFiniteSet(S), S # {}
    PROVE  /\ Max(S) \in S /\ \A i \in S : i <= Max(S)
           /\ Min(S) \in S /\ \A i \in S : Min(S) <= i
<1>1. (\E i \in S : \A j \in S : i <= j) /\ (\E i \in S : \A j \in S : i >= j)
  BY LeastAndGreatest
<1>2. Max(S) \in S /\ \A j \in S : Max(S) >= j
  BY <1>1 DEF Max
<1>3. Min(S) \in S /\ \A j \in S : Min(S) <= j
  BY <1>1 DEF Min
<1>4. QED
  BY <1>2, <1>3

----------------------------------------------------------------------------
(* Folds *)

\* pick names one element of every subset of S that has any.
Picks(pick, S) == \A s \in SUBSET S : s # {} => pick[s] \in s

\* What folding the subsets of S comes to: a set is what is left of it when one element is
\* picked, and one more step for that element.
IsFold(f, S, base, step, pick) ==
    \A s \in SUBSET S : f[s] = IF s = {} THEN base ELSE step[pick[s]][f[s \ {pick[s]}]]

\* On a finite set there is one.
LEMMA FoldExists ==
    ASSUME NEW S, IsFiniteSet(S), NEW A, NEW base \in A, NEW step \in [S -> [A -> A]],
           NEW pick, Picks(pick, S)
    PROVE  \E f \in [SUBSET S -> A] : IsFold(f, S, base, step, pick)
<1> DEFINE Good(f, n) ==
              \A s \in SUBSET S : Cardinality(s) <= n =>
                 f[s] = IF s = {} THEN base ELSE step[pick[s]][f[s \ {pick[s]}]]
           U == {n \in Nat : \E f \in [SUBSET S -> A] : Good(f, n)}
<1>1. \A s \in SUBSET S : /\ IsFiniteSet(s) /\ Cardinality(s) \in Nat /\ Cardinality(s) <= Cardinality(S)
                          /\ Cardinality(s) = 0 <=> s = {}
                          /\ \A x \in s : Cardinality(s \ {x}) = Cardinality(s) - 1
  BY FS_Subset, FS_CardinalityType, FS_EmptySet, FS_RemoveElement
<1>2. 0 \in U
  <2>1. PICK f : f = [s \in SUBSET S |-> base]
    OBVIOUS
  <2>2. f \in [SUBSET S -> A] /\ \A s \in SUBSET S : f[s] = base
    BY <2>1
  <2>3. \A s \in SUBSET S : Cardinality(s) <= 0 => s = {}
    BY <1>1
  <2>4. Good(f, 0)
    BY <2>2, <2>3
  <2>5. QED
    BY <2>2, <2>4
<1>3. ASSUME NEW n \in Nat, n \in U PROVE n + 1 \in U
  <2>1. PICK g \in [SUBSET S -> A] : Good(g, n)
    BY <1>3
  <2>2. PICK f : f = [s \in SUBSET S |-> IF Cardinality(s) <= n THEN g[s]
                                          ELSE step[pick[s]][g[s \ {pick[s]}]]]
    OBVIOUS
  <2>3. \A s \in SUBSET S : ~(Cardinality(s) <= n) => /\ s # {} /\ pick[s] \in s /\ pick[s] \in S
                                                       /\ s \ {pick[s]} \in SUBSET S
    BY <1>1 DEF Picks
  <2>4. \A s \in SUBSET S : ~(Cardinality(s) <= n) => step[pick[s]][g[s \ {pick[s]}]] \in A
    BY <2>3
  <2>5. f \in [SUBSET S -> A]
    BY <2>2, <2>4
  <2>6. \A s \in SUBSET S : Cardinality(s) <= n => f[s] = g[s]
    BY <2>2
  <2>7. ASSUME NEW s \in SUBSET S, Cardinality(s) <= n + 1
        PROVE  f[s] = IF s = {} THEN base ELSE step[pick[s]][f[s \ {pick[s]}]]
    <3>1. s # {} => /\ pick[s] \in s /\ s \ {pick[s]} \in SUBSET S
                    /\ Cardinality(s \ {pick[s]}) = Cardinality(s) - 1
      BY <1>1 DEF Picks
    <3>2. Cardinality(s) \in Nat
      BY <1>1
    <3>3. s # {} => f[s \ {pick[s]}] = g[s \ {pick[s]}]
      BY <2>6, <2>7, <3>1, <3>2
    <3>4. CASE Cardinality(s) <= n
      BY <2>1, <2>6, <3>3, <3>4
    <3>5. CASE ~(Cardinality(s) <= n)
      BY <2>2, <2>3, <3>3, <3>5
    <3>6. QED
      BY <3>4, <3>5
  <2>8. Good(f, n + 1)
    BY <2>7
  <2> HIDE DEF Good
  <2>9. QED
    BY <2>5, <2>8
<1> HIDE DEF U
<1>4. Nat \subseteq U
  BY <1>2, <1>3, NumbersByStep
<1>5. PICK f \in [SUBSET S -> A] : Good(f, Cardinality(S))
  BY <1>1, <1>4 DEF U
<1>6. IsFold(f, S, base, step, pick)
  BY <1>1, <1>5 DEF IsFold
<1>7. QED
  BY <1>6

\* A fold that takes the greatest place off at each step, as TLC's libraries fold a list,
\* exists; and place by place it is the step applied to what was folded before.
FoldsPlaces(f, n, base, step) ==
    \A s \in SUBSET (1..n) : f[s] = IF s = {} THEN base ELSE step[Max(s)][f[s \ {Max(s)}]]

LEMMA FoldsByPlaces ==
    ASSUME NEW n \in Nat, NEW A, NEW base \in A, NEW step \in [1..n -> [A -> A]]
    PROVE  \E f \in [SUBSET (1..n) -> A] : FoldsPlaces(f, n, base, step)
<1>1. PICK pick : pick = [s \in SUBSET (1..n) |-> Max(s)]
  OBVIOUS
<1>2. IsFiniteSet(1..n)
  BY FS_Interval
<1>3. \A s \in SUBSET (1..n) : s # {} => Max(s) \in s
  <2> SUFFICES ASSUME NEW s \in SUBSET (1..n), s # {} PROVE Max(s) \in s
    OBVIOUS
  <2>1. IsFiniteSet(s)
    BY <1>2, FS_Subset
  <2>2. s \in SUBSET Int
    OBVIOUS
  <2>3. QED
    BY <2>1, <2>2, MaxIsThere
<1>4. \A s \in SUBSET (1..n) : pick[s] = Max(s)
  BY <1>1
<1>5. Picks(pick, 1..n)
  BY <1>3, <1>4 DEF Picks
<1>6. PICK f \in [SUBSET (1..n) -> A] : IsFold(f, 1..n, base, step, pick)
  BY <1>2, <1>5, FoldExists
<1>7. \A s \in SUBSET (1..n) : f[s] = IF s = {} THEN base ELSE step[Max(s)][f[s \ {Max(s)}]]
  BY <1>4, <1>6 DEF IsFold
<1>8. QED
  BY <1>7 DEF FoldsPlaces

\* The places of a list up to one of them.
LEMMA PlacesUpTo ==
    ASSUME NEW n \in Nat
    PROVE  /\ 1..0 = {}
           /\ \A i \in 1..n : /\ 1..i \in SUBSET (1..n) /\ 1..i # {} /\ Max(1..i) = i
                              /\ (1..i) \ {i} = 1..(i - 1)
<1>1. 1..0 = {}
  OBVIOUS
<1>2. ASSUME NEW i \in 1..n
      PROVE  /\ 1..i \in SUBSET (1..n) /\ 1..i # {} /\ Max(1..i) = i /\ (1..i) \ {i} = 1..(i - 1)
  <2>1. \A m \in 1..i : (\A j \in 1..i : m >= j) <=> m = i
    OBVIOUS
  <2>2. QED
    BY <2>1 DEF Max
<1>3. QED
  BY <1>1, <1>2

\* What holds of nothing, and after each place when it did before it, holds in the end.
LEMMA FoldStays ==
    ASSUME NEW n \in Nat, NEW A, NEW iter, iter[{}] \in A,
           \A i \in 1..n : iter[1..(i - 1)] \in A => iter[1..i] \in A
    PROVE  iter[1..n] \in A
<1> DEFINE T == {i \in Nat : iter[1..i] \in A}
<1>1. 0 \in T
  <2>1. 1..0 = {}
    OBVIOUS
  <2>2. iter[1..0] \in A
    BY <2>1
  <2>3. QED
    BY <2>2
<1>2. ASSUME NEW i \in 0..n, i \in T, i < n PROVE i + 1 \in T
  <2>1. PICK j \in 1..n : j = i + 1 /\ j - 1 = i
    BY <1>2
  <2>2. iter[1..j] \in A
    BY <1>2, <2>1
  <2>3. QED
    BY <2>1, <2>2
<1> HIDE DEF T
<1>3. 0..n \subseteq T
  BY <1>1, <1>2, NumbersUpTo
<1>4. n \in 0..n
  OBVIOUS
<1>5. QED
  BY <1>3, <1>4 DEF T

\* What is left of some places when the last is taken off.
LEMMA LastPlaces ==
    ASSUME NEW n \in Nat, NEW s \in SUBSET (1..n), s # {}
    PROVE  Max(s) \in 1..n /\ s \ {Max(s)} \in SUBSET (1..n)
<1>1. IsFiniteSet(1..n)
  BY FS_Interval
<1>2. PICK N : N = 1..n
  OBVIOUS
<1>3. IsFiniteSet(s)
  BY <1>1, <1>2, FS_Subset
<1>4. s \in SUBSET Int
  OBVIOUS
<1>5. Max(s) \in s
  BY <1>3, <1>4, MaxIsThere
<1>6. QED
  BY <1>5

----------------------------------------------------------------------------
(* Rankings *)

\* R ranks S: of two elements one comes before the other.
IsRanking(R, S) ==
    /\ \A x \in S : <<x, x>> \notin R
    /\ \A x, y \in S : x = y \/ <<x, y>> \in R \/ <<y, x>> \in R
    /\ \A x, y, z \in S : <<x, y>> \in R /\ <<y, z>> \in R => <<x, z>> \in R

\* How many come before x.
RankOf(R, S, x) == Cardinality({y \in S : <<y, x>> \in R})

\* Every place has one element.
IsCounted(R, S) ==
    /\ \A x \in S : RankOf(R, S, x) \in 0..(Cardinality(S) - 1)
    /\ \A x, y \in S : <<x, y>> \in R <=> RankOf(R, S, x) < RankOf(R, S, y)
    /\ \A x, y \in S : RankOf(R, S, x) = RankOf(R, S, y) => x = y
    /\ \A k \in 1..Cardinality(S) : \E x \in S : RankOf(R, S, x) = k - 1

\* In a ranked finite set it has.
LEMMA RanksAreOneEach ==
    ASSUME NEW S, IsFiniteSet(S), NEW R, IsRanking(R, S)
    PROVE  IsCounted(R, S)
<1> DEFINE Over(x) == {y \in S : <<y, x>> \in R}
           rank == [x \in S |-> Cardinality(Over(x))]
<1>1. Cardinality(S) \in Nat
  BY FS_CardinalityType
<1>2. \A x \in S : Over(x) \in SUBSET S /\ x \notin Over(x) /\ Over(x) # S
  BY DEF IsRanking
<1>3. \A x, y \in S : <<x, y>> \in R => Over(x) \in SUBSET Over(y) /\ Over(x) # Over(y)
  BY DEF IsRanking
<1>4. \A x \in S : RankOf(R, S, x) = Cardinality(Over(x))
  BY DEF RankOf
<1> HIDE DEF Over
<1>5. \A x \in S : IsFiniteSet(Over(x)) /\ Cardinality(Over(x)) \in 0..(Cardinality(S) - 1)
  <2> TAKE x \in S
  <2>1. /\ IsFiniteSet(Over(x)) /\ Cardinality(Over(x)) <= Cardinality(S)
        /\ Cardinality(S) = Cardinality(Over(x)) => S = Over(x)
    BY <1>2, FS_Subset
  <2>2. Cardinality(Over(x)) \in Nat
    BY <2>1, FS_CardinalityType
  <2>3. QED
    BY <1>1, <1>2, <2>1, <2>2
<1>6. ASSUME NEW x \in S, NEW y \in S, <<x, y>> \in R
      PROVE  Cardinality(Over(x)) < Cardinality(Over(y))
  <2>1. /\ Cardinality(Over(x)) <= Cardinality(Over(y))
        /\ Cardinality(Over(y)) = Cardinality(Over(x)) => Over(y) = Over(x)
    BY <1>3, <1>5, <1>6, FS_Subset
  <2>2. QED
    BY <1>3, <1>5, <1>6, <2>1
<1>7. \A x, y \in S : x = y \/ <<x, y>> \in R \/ <<y, x>> \in R
  BY DEF IsRanking
<1>8. ASSUME NEW x \in S, NEW y \in S
      PROVE  /\ Cardinality(Over(x)) = Cardinality(Over(y)) => x = y
             /\ <<x, y>> \in R <=> Cardinality(Over(x)) < Cardinality(Over(y))
  <2>1. Cardinality(Over(x)) \in Int /\ Cardinality(Over(y)) \in Int
    BY <1>5
  <2>2. <<x, y>> \in R => Cardinality(Over(x)) < Cardinality(Over(y))
    BY <1>6
  <2>3. <<y, x>> \in R => Cardinality(Over(y)) < Cardinality(Over(x))
    BY <1>6
  <2>4. <<x, y>> \in R \/ <<y, x>> \in R \/ x = y
    BY <1>7
  <2>5. QED
    BY <2>1, <2>2, <2>3, <2>4
<1>9. rank \in Injection(S, 0..(Cardinality(S) - 1))
  BY <1>5, <1>8 DEF Injection, IsInjective
<1>10. rank \in Surjection(S, 0..(Cardinality(S) - 1))
  <2>1. IsFiniteSet(0..(Cardinality(S) - 1)) /\ Cardinality(0..(Cardinality(S) - 1)) = Cardinality(S)
    BY <1>1, FS_Interval
  <2>2. QED
    BY <1>9, <2>1, FS_Injection
<1>11. \A k \in 1..Cardinality(S) : \E x \in S : Cardinality(Over(x)) = k - 1
  <2>1. \A m \in 0..(Cardinality(S) - 1) : \E x \in S : Cardinality(Over(x)) = m
    BY <1>10 DEF Surjection
  <2>2. \A k \in 1..Cardinality(S) : k - 1 \in 0..(Cardinality(S) - 1)
    BY <1>1
  <2>3. QED
    BY <2>1, <2>2
<1>12. /\ \A x \in S : RankOf(R, S, x) \in 0..(Cardinality(S) - 1)
       /\ \A k \in 1..Cardinality(S) : \E x \in S : RankOf(R, S, x) = k - 1
  BY <1>4, <1>5, <1>11
<1>13. ASSUME NEW x \in S, NEW y \in S
       PROVE  /\ <<x, y>> \in R <=> RankOf(R, S, x) < RankOf(R, S, y)
              /\ RankOf(R, S, x) = RankOf(R, S, y) => x = y
  BY <1>4, <1>8
<1>14. QED
  BY <1>12, <1>13 DEF IsCounted
===============================================================================
