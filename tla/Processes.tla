------------------------------ MODULE Processes ------------------------------
(* What the byte counters of the kernel and the poller that reads them have *)
(* in common.                                                               *)
CONSTANTS
  Pids,  \* processes
  None   \* no key, no entry
=============================================================================
