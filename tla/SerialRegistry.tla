---------------------------- MODULE SerialRegistry ----------------------------
(***************************************************************************)
(* StreamRegistry under the two conditions that make it keep its promise.  *)
(* target_pids takes every PID; and nobody subscribes to a PID between the *)
(* moment its last guard gives the `streams' lock back (stream.rs:62) and  *)
(* the moment that guard removes the PID from target_pids (stream.rs:65).  *)
(* Whatever else overlaps, the registry then implements TraceControl.      *)
(***************************************************************************)
EXTENDS StreamRegistry

\* target_pids takes every PID.
Room ==
  /\ IsFiniteSet(Pids)
  /\ MaxTargets \in Nat
  /\ Cardinality(Pids) <= MaxTargets
  /\ ~InsertMayFail

UnmapPending(p) == \E c \in Clients : call[c] = "unmap" /\ pid[c] = p

SerialNext ==
  \/ \E c \in Clients : Proceed(c) \/ \E p \in Pids : ~UnmapPending(p) /\ Subscribe(c, p)
  \/ Forks

SerialSpec == Init /\ [][SerialNext]_vars

FairSerialSpec == SerialSpec /\ Fairness

\* The clients whose receivers are alive, per PID.
Subscribers == [p \in Pids |-> {c \in Clients : rx[c] # None /\ pid[c] = p}]

Promise == INSTANCE TraceControl WITH subs <- Subscribers, armed <- Inserted

\* Every step of the registry is a step of TraceControl or invisible to it, and
\* a PID whose subscribers are all gone is disarmed unless a new one comes.  The
\* promise is about the keys the registry inserts: a fork is invisible to it.
KeepsPromise == Promise!FairSpec
=============================================================================
