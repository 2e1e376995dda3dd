------------------------ MODULE MCConcurrencyGate ---------------------------
EXTENDS ConcurrencyGate, TLC

CONSTANTS r1, r2, j1, j2

MCAge == [r \in Runs |-> IF r = r1 THEN 1 ELSE 2]

(* Controller processes are interchangeable.                               *)
WorkerSymmetry == Permutations(Workers)
=============================================================================
