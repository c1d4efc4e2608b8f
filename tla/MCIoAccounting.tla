---------------------------- MODULE MCIoAccounting ----------------------------
(* IoAccounting for TLC: nothing tells CPUs, processes, sockets or elements   *)
(* apart, and no liveness is checked.                                         *)
EXTENDS IoAccounting, TLC

Symmetry == Permutations(Cpus) \cup Permutations(Pids)
            \cup Permutations(Socks) \cup Permutations(Elems)
=============================================================================
