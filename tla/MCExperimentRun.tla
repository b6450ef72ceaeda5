-------------------------- MODULE MCExperimentRun --------------------------
(* Instances of ExperimentRun: one run with everything around it, and two  *)
(* runs of unequal length, one of an external RAG, that share one thread.  *)
EXTENDS ExperimentRun, TLC

CONSTANTS r1, r2

OneRun == {r1}
OneDataset == (r1 :> 2)
TwoRuns == {r1, r2}
TwoDatasets == (r1 :> 2) @@ (r2 :> 1)
============================================================================
