------------------------------ MODULE Selections ------------------------------
(***************************************************************************)
(* Parts of a sequence by their places.  SelectSeq is recursive, and       *)
(* nothing can be proved here of what a recursion selects; these say which *)
(* place is the k-th.                                                      *)
(***************************************************************************)
EXTENDS Integers, Sequences, FiniteSets

\* The place in `places` with k - 1 others before it.
Nth(places, k) == CHOOSE i \in places : Cardinality({j \in places : j <= i}) = k

\* What s holds at these places, in its order.
Only(s, places) == [k \in 1..Cardinality(places) |-> s[Nth(places, k)]]

\* The places of s whose elements pass.
Where(s, Test(_)) == {i \in DOMAIN s : Test(s[i])}
===============================================================================
