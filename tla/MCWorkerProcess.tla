-------------------------- MODULE MCWorkerProcess --------------------------
(* Messages and processes are alike, so both are symmetric. *)
EXTENDS WorkerProcess, TLC

CONSTANTS c1, c2, c3, c4, m1, m2

Symmetry == Permutations(Children) \cup Permutations(Messages)
=============================================================================
