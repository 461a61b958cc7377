---------------------------- MODULE MCMultiCycle ----------------------------
(***************************************************************************)
(* Model values for the runs of the multi-cycle executor.                  *)
(***************************************************************************)
EXTENDS MultiCycleProperties, TLC

CONSTANTS w1, w2

OneWorker  == {w1}
TwoWorkers == {w1, w2}

\* The workers are interchangeable: nothing compares or orders them.
Interchangeable == Permutations(TwoWorkers)
=============================================================================
