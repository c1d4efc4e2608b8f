------------------------------ MODULE IoCounters ------------------------------
(***************************************************************************)
(* What process_io_stats looks like to its reader, src/bpf/maps.rs: a      *)
(* counter per process that only grows, and may vanish and start anew.     *)
(* IoAccounting, the map as the BPF programs write it, implements this;    *)
(* Rates reads it.                                                         *)
(***************************************************************************)
EXTENDS Integers, Processes

VARIABLE counter \* process -> the sum of its shares, or None

CountersInit == counter = [p \in Pids |-> None]

\* What is added to: an entry that is missing starts from zero.
Base(p) == IF counter[p] = None THEN 0 ELSE counter[p]

\* A byte is counted for p; the entries of `gone' make room.
Count(p, gone) ==
  /\ p \notin gone
  /\ counter' = [q \in Pids |-> IF q = p THEN Base(p) + 1
                                ELSE IF q \in gone THEN None ELSE counter[q]]

CountersNext == \E p \in Pids, gone \in SUBSET Pids : Count(p, gone)

CountersSpec == CountersInit /\ [][CountersNext]_counter
=============================================================================
