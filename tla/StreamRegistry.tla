---------------------------- MODULE StreamRegistry ----------------------------
(***************************************************************************)
(* The per-PID subscription registry (src/stream.rs).  It maps every       *)
(* monitored PID to a broadcast channel and switches the kernel's tracing  *)
(* of that PID on and off through the BPF map target_pids.                 *)
(*                                                                         *)
(* `streams' is guarded by a mutex that `subscribe' holds from its first   *)
(* line to its last and that the guard's `drop' gives back BEFORE it       *)
(* removes the PID from target_pids, so the two maps are not changed in    *)
(* one critical section.  Dropping a receiver takes no lock.  The mutex    *)
(* around target_pids protects one map operation at a time and needs no    *)
(* variable.                                                               *)
(*                                                                         *)
(* target_pids has a second writer that knows of neither: the kernel's     *)
(* fork program adds the children of traced processes (`Inherit').         *)
(***************************************************************************)
EXTENDS Integers, FiniteSets

CONSTANTS
  Pids,           \* process ids clients may ask for
  Clients,        \* slots for concurrent subscriptions
  Channels,       \* identities of broadcast channels
  None,           \* no channel, no process, nobody
  MaxTargets,     \* capacity of target_pids
  InsertMayFail   \* may an insert fail though the map has room?

ASSUME NoneAssumption == None \notin Pids \cup Clients \cup Channels

VARIABLES
  streams,  \* PID -> channel registered for it, or None
  target,   \* keys of the BPF map target_pids
  lock,     \* holder of the `streams' mutex, or None
  call,     \* the registry call a client is inside of
  pid,      \* the PID a client's subscription is for
  rx,       \* the channel a client's live receiver reads, or None
  guards,   \* clients whose SubscriptionGuard is alive
  inherited \* history: keys a fork added and `subscribe' has not inserted since

vars == <<streams, target, lock, call, pid, rx, guards, inherited>>

-----------------------------------------------------------------------------
(* What the code asks of a channel or of the map.                          *)

\* receiver_count() of the channel registered for p is zero, or there is none.
NoReceiver(p) == \A c \in Clients : rx[c] = None \/ rx[c] # streams[p]

\* A channel nobody refers to: what broadcast::channel returns.
FreshChannels == { ch \in Channels : /\ \A p \in Pids : streams[p] # ch
                                     /\ \A c \in Clients : rx[c] # ch }

\* A hash map at its capacity still updates a key it has.
HasRoom(p) == p \in target \/ Cardinality(target) < MaxTargets

Idle(c) == call[c] = "none" /\ rx[c] = None /\ c \notin guards

\* Mutant: every subscriber arms.
NeedsArm_Always(p) == TRUE

\* subscribe: nobody listens to p, so p has to be armed.
NeedsArm(p) == NoReceiver(p)

\* Mutant: receiver_count is not looked at.
ShouldUnmap_Unchecked(p) == streams[p] # None

\* SubscriptionGuard::drop: p has a channel that nobody listens to any more.
ShouldUnmap(p) == streams[p] # None /\ NoReceiver(p)

\* Mutant: the channel stays.
Evicted_Not(p) == streams

\* SubscriptionGuard::drop: the registry without p's channel.
Evicted(p) == [streams EXCEPT ![p] = None]

\* Mutant: the PID stays.
Disarmed_Not(p) == target

\* SubscriptionGuard::drop: target_pids without p.
Disarmed(p) == target \ {p}

\* Mutant: the PID is gone with the receiver.
PidWithoutRx_Forgets(c) == [pid EXCEPT ![c] = None]

\* The guard keeps the PID of a subscription that lost its receiver.
PidWithoutRx(c) == IF c \in guards THEN pid ELSE [pid EXCEPT ![c] = None]

-----------------------------------------------------------------------------
Init ==
  /\ streams = [p \in Pids |-> None]
  /\ target = {}
  /\ lock = None
  /\ call = [c \in Clients |-> "none"]
  /\ pid = [c \in Clients |-> None]
  /\ rx = [c \in Clients |-> None]
  /\ guards = {}
  /\ inherited = {}

\* subscribe: take the lock, see whether the PID must be armed, find or make
\* its channel.  The lock stays held.
Subscribe(c, p) ==
  /\ Idle(c)
  /\ lock = None
  /\ lock' = c
  /\ pid' = [pid EXCEPT ![c] = p]
  /\ call' = [call EXCEPT ![c] = IF NeedsArm(p) THEN "arm" ELSE "attach"]
  /\ \/ streams[p] # None /\ UNCHANGED streams
     \/ /\ streams[p] = None
        /\ \E ch \in FreshChannels : streams' = [streams EXCEPT ![p] = ch]
  /\ UNCHANGED <<target, rx, guards, inherited>>

\* subscribe, first receiver: insert into target_pids.  A failure is logged
\* and the subscription goes on.
Arm(c) ==
  /\ call[c] = "arm"
  /\ call' = [call EXCEPT ![c] = "attach"]
  /\ \/ /\ HasRoom(pid[c])
        /\ target' = target \cup {pid[c]}
        /\ inherited' = inherited \ {pid[c]}
     \/ (~HasRoom(pid[c]) \/ InsertMayFail) /\ UNCHANGED <<target, inherited>>
  /\ UNCHANGED <<streams, lock, pid, rx, guards>>

\* Mutant: the lock is not given back.
Attach_KeepsLock(c) ==
  /\ call[c] = "attach"
  /\ call' = [call EXCEPT ![c] = "none"]
  /\ rx' = [rx EXCEPT ![c] = streams[pid[c]]]
  /\ guards' = guards \cup {c}
  /\ UNCHANGED <<streams, target, lock, pid, inherited>>

\* subscribe, last part: sender.subscribe(), make the guard, release the lock.
Attach(c) ==
  /\ call[c] = "attach"
  /\ call' = [call EXCEPT ![c] = "none"]
  /\ rx' = [rx EXCEPT ![c] = streams[pid[c]]]
  /\ guards' = guards \cup {c}
  /\ lock' = None
  /\ UNCHANGED <<streams, target, pid, inherited>>

\* The receiver is dropped: receiver_count goes down, no lock is taken.
DropRx(c) ==
  /\ rx[c] # None
  /\ rx' = [rx EXCEPT ![c] = None]
  /\ pid' = PidWithoutRx(c)
  /\ UNCHANGED <<streams, target, lock, call, guards, inherited>>

\* SubscriptionGuard::drop finds its PID's channel without a receiver: the
\* entry goes, the lock is released, target_pids is still to be changed.
DropGuardLast(c) ==
  /\ c \in guards
  /\ lock = None
  /\ ShouldUnmap(pid[c])
  /\ guards' = guards \ {c}
  /\ streams' = Evicted(pid[c])
  /\ call' = [call EXCEPT ![c] = "unmap"]
  /\ UNCHANGED <<target, lock, pid, rx, inherited>>

\* SubscriptionGuard::drop finds no entry or a channel with receivers.
DropGuardOther(c) ==
  /\ c \in guards
  /\ lock = None
  /\ ~ShouldUnmap(pid[c])
  /\ guards' = guards \ {c}
  /\ pid' = IF rx[c] = None THEN [pid EXCEPT ![c] = None] ELSE pid
  /\ UNCHANGED <<streams, target, lock, call, rx, inherited>>

DropGuard(c) == DropGuardLast(c) \/ DropGuardOther(c)

\* SubscriptionGuard::drop, after the unlock: remove the PID from target_pids.
Unmap(c) ==
  /\ call[c] = "unmap"
  /\ target' = Disarmed(pid[c])
  /\ inherited' = inherited \ {pid[c]}
  /\ call' = [call EXCEPT ![c] = "none"]
  /\ pid' = [pid EXCEPT ![c] = None]
  /\ UNCHANGED <<streams, lock, rx, guards>>

\* trace_sched_process_fork: a traced process p has a child q, which gets a key
\* of its own if the map has room.  Nothing takes such a key out again but the
\* last subscriber of that very PID.  (KernelTrace has the program's two look-ups
\* and its insert as steps of their own.)
Inherit(p, q) ==
  /\ p \in target
  /\ q \notin target
  /\ HasRoom(q)
  /\ target' = target \cup {q}
  /\ inherited' = inherited \cup {q}
  /\ UNCHANGED <<streams, lock, call, pid, rx, guards>>

\* Field order of Subscription: the receiver goes before the guard.
DropGuardAfterRx(c) == rx[c] = None /\ DropGuard(c)

\* What a client does once it is inside `subscribe'.
Proceed(c) ==
  \/ Arm(c)
  \/ Attach(c)
  \/ DropRx(c)
  \/ DropGuardAfterRx(c)
  \/ Unmap(c)

Forks == \E p, q \in Pids : Inherit(p, q)

Next == \/ \E c \in Clients : Proceed(c) \/ \E p \in Pids : Subscribe(c, p)
        \/ Forks

Spec == Init /\ [][Next]_vars

\* A call that has begun goes on, and a guard whose receiver is gone is
\* dropped at once: strong fairness because it waits for a mutex that others
\* take and give back.  Nothing says when a client subscribes or leaves.
Fairness == \A c \in Clients : /\ WF_vars(Arm(c) \/ Attach(c) \/ Unmap(c))
                               /\ SF_vars(DropGuardAfterRx(c))

FairSpec == Spec /\ Fairness
-----------------------------------------------------------------------------
(* Properties.                                                             *)

\* State has its shape, and the bookkeeping of a subscription stage agrees
\* with it: a client inside a call, with a receiver or with a guard has a PID
\* (stream.rs keeps it in the guard), and exactly the client inside
\* `subscribe' holds the lock.
TypeOK ==
  /\ streams \in [Pids -> Channels \cup {None}]
  /\ target \in SUBSET Pids
  /\ lock \in Clients \cup {None}
  /\ call \in [Clients -> {"none", "arm", "attach", "unmap"}]
  /\ pid \in [Clients -> Pids \cup {None}]
  /\ rx \in [Clients -> Channels \cup {None}]
  /\ guards \in SUBSET Clients
  /\ inherited \in SUBSET target
  /\ \A c \in Clients : pid[c] = None <=> Idle(c)
  /\ \A c \in Clients : lock = c <=> call[c] \in {"arm", "attach"}

\* `forward' finds every live receiver: the channel it reads is the one
\* registered for its PID.  An entry evicted while a receiver is alive, or
\* replaced by a second channel, would leave that subscriber silent for ever.
ReceiverRegistered ==
  \A c \in Clients : rx[c] # None => streams[pid[c]] = rx[c]

\* An entry of `streams' is there for somebody: a subscription whose guard is
\* still to be dropped, or a `subscribe' under way (the "removed when the last
\* receiver drops" of stream.rs:28).
EntryOwned ==
  \A p \in Pids : streams[p] # None =>
    \E c \in Clients : pid[c] = p /\ (c \in guards \/ call[c] \in {"arm", "attach"})

\* The keys of target_pids that `subscribe' inserted.
Inserted == target \ inherited

\* No key that the registry inserted is left behind: it has an entry in
\* `streams' or a removal on its way (stream.rs:63-69), in every interleaving of
\* the last drop with a new subscription.  The keys the fork program adds
\* (beemon.bpf.c:435) are the others: they have no owner to speak of.
TargetOwned ==
  \A p \in Inserted : \/ streams[p] # None
                      \/ \E c \in Clients : call[c] = "unmap" /\ pid[c] = p

\* Who has a receiver is traced: "the first subscriber inserts the PID into
\* the BPF target_pids map; the last one to drop removes it".
SubscribedArmed == \A c \in Clients : rx[c] # None => pid[c] \in target

\* Tracing that was lost under a live receiver stays lost as long as that
\* receiver lives, however many clients come and go: only a subscriber that
\* finds no receiver inserts the PID (stream.rs:93-96).  What can bring it back
\* is no subscriber but a fork whose child takes that PID.
DisarmSticks ==
  [][\A c \in Clients : rx[c] # None /\ pid[c] \notin target /\ rx'[c] # None
        => pid[c] \notin Inserted']_vars

\* A subscription whose receiver is gone is wound up: its guard's drop returns,
\* with the PID removed from target_pids if that was its business.
WoundUp == \A c \in Clients : (c \in guards /\ rx[c] = None) ~> Idle(c)
=============================================================================
