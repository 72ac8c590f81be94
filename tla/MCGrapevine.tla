----------------------------- MODULE MCGrapevine -----------------------------
(***************************************************************************)
(* Instances of the whole system for TLC.  Symmetry is used where no       *)
(* liveness is checked.                                                    *)
(***************************************************************************)
EXTENDS Grapevine, TLC

CONSTANTS r1, r2

OneRun == {r1}
TwoRuns == {r1, r2}

TwoRunsSymmetry == Permutations(TwoRuns)
==============================================================================
