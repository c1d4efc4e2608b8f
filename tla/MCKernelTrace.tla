----------------------------- MODULE MCKernelTrace -----------------------------
(* KernelTrace for TLC: nothing tells tasks or paths apart, and no liveness is  *)
(* checked.                                                                     *)
EXTENDS KernelTrace, TLC

Symmetry == Permutations(Tasks) \cup Permutations(Paths)
=============================================================================
