----------------------------- MODULE MCPublisher -----------------------------
(***************************************************************************)
(* Instances of Publisher for TLC.  Runs are interchangeable: symmetry is  *)
(* used where no liveness is checked.                                      *)
(***************************************************************************)
EXTENDS Publisher, TLC

CONSTANTS r1, r2, r3

TwoRuns == {r1, r2}
ThreeRuns == {r1, r2, r3}

TwoRunsSymmetry == Permutations(TwoRuns)
ThreeRunsSymmetry == Permutations(ThreeRuns)
==============================================================================
