------------------------- MODULE MCRunnerAssignment -------------------------
(* Instances of RunnerAssignment for TLC.                                  *)
EXTENDS RunnerAssignment, TLC

CONSTANTS r1, r2, j1, j2

TwoRunners == {r1, r2}
TwoJobs    == {j1, j2}
Tied       == [j \in Jobs |-> 0]     \* created at the same time: any order

JobSymmetry    == Permutations(Jobs)
Symmetry       == Permutations(Runners) \cup Permutations(Jobs)
=============================================================================
