----------------------------- MODULE MCVmManager -----------------------------
(* Instances of VmManager for TLC.  Nothing orders ids, calls or addresses, *)
(* so the runs that check no liveness may permute them.                     *)
EXTENDS VmRefinement, TLC

Symmetry == Permutations(Vms) \cup Permutations(Slots) \cup Permutations(Pool)
=============================================================================
