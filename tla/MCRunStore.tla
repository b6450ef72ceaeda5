------------------------------ MODULE MCRunStore ------------------------------
(* The store of runs and those who read and write it, for TLC: deletes and pins of a run   *)
(* that is saved again, a reader of it, a list of two runs, and the compaction.            *)
EXTENDS RunReaders

CONSTANTS r1, r2, v0, v1, v2

Cast(actors, runs, versions) == [actors |-> actors, runs |-> runs, versions |-> versions]
FourCasts ==
    {Cast({"delete", "pin"}, {r1}, {v1, v2}), Cast({"delete", "reader"}, {r1}, {v0, v1, v2}),
     Cast({"list"}, {r1, r2}, {v0}), Cast({"delete", "tool"}, {r1}, {v0, v1, v2})}
===============================================================================
