----------------------------- MODULE MCStaging -----------------------------
(* Staging for TLC: the processes are alike.                               *)
EXTENDS Staging, TLC

Symmetry == Permutations(Procs)
=============================================================================
