--------------------------------- MODULE Lists ---------------------------------
(***************************************************************************)
(* The few operators on sequences that the modules use, as SequencesExt    *)
(* defines them.  SequencesExt also brings in Bags, and every INSTANCE of  *)
(* a module that extends it would carry the theory of bags into each       *)
(* obligation of the proofs, which makes them several times as slow.       *)
(***************************************************************************)
EXTENDS Integers, Sequences, FiniteSets, FiniteSetsExt

Front(s) == SubSeq(s, 1, Len(s) - 1)
Last(s) == s[Len(s)]
RemoveAt(s, i) == SubSeq(s, 1, i - 1) \o SubSeq(s, i + 1, Len(s))
Reverse(s) == [i \in 1..Len(s) |-> s[Len(s) - i + 1]]

\* The sequences over S no longer than n.
BoundedSeq(S, n) == UNION {[1..len -> S] : len \in 0..n}

\* The first place whose element passes, and the last one; 0 when none does.
SelectInSeq(s, Test(_)) ==
    LET at == {i \in 1..Len(s) : Test(s[i])} IN IF at = {} THEN 0 ELSE Min(at)
SelectLastInSeq(s, Test(_)) ==
    LET at == {i \in 1..Len(s) : Test(s[i])} IN IF at = {} THEN 0 ELSE Max(at)

\* op(... op(op(base, s[1]), s[2]) ..., s[Len(s)])
FoldLeft(op(_, _), base, s) ==
    MapThenFoldSet(LAMBDA x, acc : op(acc, x), base, LAMBDA i : s[i],
                   LAMBDA at : Max(at), DOMAIN s)
===============================================================================
