------------------------ MODULE StreamRegistry_proofs ------------------------
(***************************************************************************)
(* Proofs about StreamRegistry and the two modules built on it, for every  *)
(* set of PIDs, clients and channels.                                      *)
(*                                                                         *)
(* First what holds in whatever order receivers and guards are dropped     *)
(* (Core).  Then the registry as its own Subscription uses it: the receiver *)
(* goes first (IInv).  Then SerialRegistry, which implements TraceControl  *)
(* where target_pids has room.  Last the HTTP handlers of EventStreams,    *)
(* which drop the two in orders of their own.                              *)
(***************************************************************************)
EXTENDS EventStreams, SerialRegistry, FiniteSetTheorems, TLAPS

\* A client inside a registry call has no receiver and no guard.
CallExclusive ==
  \A c \in Clients : call[c] # "none" => rx[c] = None /\ c \notin guards

\* The entry a `subscribe' under way works on is there.
CallerHasEntry ==
  \A c \in Clients : call[c] \in {"arm", "attach"} => streams[pid[c]] # None

\* Nobody listens to a PID that is about to be armed.
ArmAlone == \A c \in Clients : call[c] = "arm" => NoReceiver(pid[c])

\* Two PIDs never share a channel.
ChannelsDistinct ==
  \A p, q \in Pids : streams[p] # None /\ streams[p] = streams[q] => p = q

\* What holds in whatever order receivers and guards go.
Core ==
  /\ TypeOK
  /\ CallExclusive
  /\ CallerHasEntry
  /\ ArmAlone
  /\ ChannelsDistinct
  /\ ReceiverRegistered
  /\ TargetOwned

\* The steps of the registry, with the drops in any order.
AnyStep(c) ==
  \/ \E p \in Pids : Subscribe(c, p)
  \/ Arm(c)
  \/ Attach(c)
  \/ DropRx(c)
  \/ DropGuard(c)
  \/ Unmap(c)

-----------------------------------------------------------------------------
\* The empty registry is in order (StreamRegistry::new).
LEMMA InitCore == Init => Core
BY NoneAssumption DEF Init, Core, TypeOK, CallExclusive, CallerHasEntry, ArmAlone,
   ChannelsDistinct, ReceiverRegistered, TargetOwned, Inserted, Idle

\* The first part of `subscribe' keeps it so: a fresh channel is nobody's, and
\* nobody listens where it decides to arm.
LEMMA SubscribeCore ==
  ASSUME Core, NEW c \in Clients, NEW p \in Pids, Subscribe(c, p)
  PROVE  Core'
<1>1. TypeOK'
  BY NoneAssumption DEF Core, TypeOK, Subscribe, Idle, FreshChannels
<1>2. CallExclusive'
  BY DEF Core, CallExclusive, Subscribe, Idle
<1>3. CallerHasEntry'
  BY DEF Core, TypeOK, CallerHasEntry, Subscribe, Idle, FreshChannels
<1>4. ArmAlone'
  BY DEF Core, TypeOK, ArmAlone, Subscribe, NoReceiver, NeedsArm, Idle,
     FreshChannels
<1>5. ChannelsDistinct'
  BY DEF Core, TypeOK, ChannelsDistinct, Subscribe, FreshChannels
<1>6. ReceiverRegistered'
  BY DEF Core, TypeOK, ReceiverRegistered, Subscribe, Idle
<1>7. TargetOwned'
  BY NoneAssumption DEF Core, TypeOK, TargetOwned, Inserted, Subscribe
<1>8. QED
  BY <1>1, <1>2, <1>3, <1>4, <1>5, <1>6, <1>7 DEF Core

\* So does the insert into target_pids, whether it fails or not.
LEMMA ArmCore ==
  ASSUME Core, NEW c \in Clients, Arm(c)
  PROVE  Core'
<1>1. TypeOK'
  BY DEF Core, TypeOK, Arm, Idle
<1>2. CallExclusive'
  BY DEF Core, CallExclusive, Arm
<1>3. CallerHasEntry'
  BY DEF Core, CallerHasEntry, Arm
<1>4. ArmAlone'
  BY DEF Core, TypeOK, ArmAlone, Arm
<1>5. ChannelsDistinct'
  BY DEF Core, ChannelsDistinct, Arm
<1>6. ReceiverRegistered'
  BY DEF Core, ReceiverRegistered, Arm
<1>7. TargetOwned'
  BY DEF Core, TypeOK, CallerHasEntry, TargetOwned, Inserted, Arm
<1>8. QED
  BY <1>1, <1>2, <1>3, <1>4, <1>5, <1>6, <1>7 DEF Core

\* So does the end of `subscribe': the entry found under the lock is still
\* the one the new receiver reads.
LEMMA AttachCore ==
  ASSUME Core, NEW c \in Clients, Attach(c)
  PROVE  Core'
<1>1. TypeOK'
  BY NoneAssumption DEF Core, TypeOK, Attach, Idle
<1>2. CallExclusive'
  BY DEF Core, TypeOK, CallExclusive, Attach
<1>3. CallerHasEntry'
  BY DEF Core, CallerHasEntry, Attach
<1>4. ArmAlone'
  BY DEF Core, TypeOK, ArmAlone, Attach
<1>5. ChannelsDistinct'
  BY DEF Core, ChannelsDistinct, Attach
<1>6. ReceiverRegistered'
  BY DEF Core, ReceiverRegistered, Attach
<1>7. TargetOwned'
  BY DEF Core, TargetOwned, Inserted, Attach
<1>8. QED
  BY <1>1, <1>2, <1>3, <1>4, <1>5, <1>6, <1>7 DEF Core

\* So does the drop of a receiver.
LEMMA DropRxCore ==
  ASSUME Core, NEW c \in Clients, DropRx(c)
  PROVE  Core'
<1>1. TypeOK'
  BY DEF Core, TypeOK, CallExclusive, DropRx, PidWithoutRx, Idle
<1>2. CallExclusive'
  BY DEF Core, CallExclusive, DropRx
<1>3. CallerHasEntry'
  BY DEF Core, CallExclusive, CallerHasEntry, DropRx, PidWithoutRx
<1>4. ArmAlone'
  BY DEF Core, ArmAlone, ReceiverRegistered, DropRx, NoReceiver, PidWithoutRx
<1>5. ChannelsDistinct'
  BY DEF Core, ChannelsDistinct, DropRx
<1>6. ReceiverRegistered'
  BY DEF Core, TypeOK, ReceiverRegistered, DropRx, PidWithoutRx
<1>7. TargetOwned'
  BY DEF Core, ReceiverRegistered, TargetOwned, Inserted, DropRx, PidWithoutRx
<1>8. QED
  BY <1>1, <1>2, <1>3, <1>4, <1>5, <1>6, <1>7 DEF Core

\* So does the guard that finds no receiver: no receiver loses its entry, and
\* the PID is left to the removal that follows.  Its own receiver, which would
\* be one of the entry's, is gone.
LEMMA GuardLastCore ==
  ASSUME Core, NEW c \in Clients, DropGuardLast(c)
  PROVE  Core'
<1>1. pid[c] \in Pids /\ rx[c] = None
  BY DEF Core, TypeOK, Idle, ReceiverRegistered, DropGuardLast, ShouldUnmap, NoReceiver
<1>2. TypeOK'
  BY <1>1, NoneAssumption DEF Core, TypeOK, DropGuardLast, Evicted, Idle
<1>3. CallExclusive'
  BY <1>1 DEF Core, CallExclusive, DropGuardLast
<1>4. CallerHasEntry'
  BY <1>1, NoneAssumption DEF Core, TypeOK, CallerHasEntry, DropGuardLast
<1>5. ArmAlone'
  BY <1>1, NoneAssumption DEF Core, TypeOK, ArmAlone, DropGuardLast
<1>6. ChannelsDistinct'
  BY <1>1 DEF Core, ChannelsDistinct, DropGuardLast, Evicted
<1>7. ReceiverRegistered'
  BY <1>1 DEF Core, ReceiverRegistered, DropGuardLast, NoReceiver, ShouldUnmap,
     Evicted
<1>8. TargetOwned'
  BY <1>1 DEF Core, TypeOK, TargetOwned, Inserted, DropGuardLast, Evicted
<1>9. QED
  BY <1>1, <1>2, <1>3, <1>4, <1>5, <1>6, <1>7, <1>8 DEF Core

\* So does the guard that finds a receiver, its own or another's.
LEMMA GuardOtherCore ==
  ASSUME Core, NEW c \in Clients, DropGuardOther(c)
  PROVE  Core'
<1>1. TypeOK'
  BY DEF Core, TypeOK, CallExclusive, DropGuardOther, Idle
<1>2. CallExclusive'
  BY DEF Core, CallExclusive, DropGuardOther
<1>3. CallerHasEntry'
  BY DEF Core, CallExclusive, CallerHasEntry, DropGuardOther
<1>4. ArmAlone'
  BY NoneAssumption DEF Core, TypeOK, ArmAlone, DropGuardOther
<1>5. ChannelsDistinct'
  BY DEF Core, ChannelsDistinct, DropGuardOther
<1>6. ReceiverRegistered'
  BY DEF Core, ReceiverRegistered, DropGuardOther
<1>7. TargetOwned'
  BY DEF Core, CallExclusive, TargetOwned, Inserted, DropGuardOther
<1>8. QED
  BY <1>1, <1>2, <1>3, <1>4, <1>5, <1>6, <1>7 DEF Core

\* So does the removal from target_pids.
LEMMA UnmapCore ==
  ASSUME Core, NEW c \in Clients, Unmap(c)
  PROVE  Core'
<1>1. TypeOK'
  BY DEF Core, TypeOK, CallExclusive, Unmap, Disarmed, Idle
<1>2. CallExclusive'
  BY DEF Core, CallExclusive, Unmap
<1>3. CallerHasEntry'
  BY DEF Core, CallerHasEntry, Unmap
<1>4. ArmAlone'
  BY DEF Core, ArmAlone, Unmap, NoReceiver
<1>5. ChannelsDistinct'
  BY DEF Core, ChannelsDistinct, Unmap
<1>6. ReceiverRegistered'
  BY DEF Core, CallExclusive, ReceiverRegistered, Unmap
<1>7. TargetOwned'
  BY DEF Core, TargetOwned, Inserted, Unmap, Disarmed
<1>8. QED
  BY <1>1, <1>2, <1>3, <1>4, <1>5, <1>6, <1>7 DEF Core

\* No step breaks it.
LEMMA AnyStepCore ==
  ASSUME Core, NEW c \in Clients, AnyStep(c)
  PROVE  Core'
BY SubscribeCore, ArmCore, AttachCore, DropRxCore, GuardLastCore, GuardOtherCore, UnmapCore
   DEF AnyStep, DropGuard

\* Nor does a fork: the key it adds is its own.
LEMMA InheritCore ==
  ASSUME Core, Forks
  PROVE  Core'
<1> PICK p, q \in Pids : Inherit(p, q)
  BY DEF Forks
<1>1. /\ UNCHANGED <<streams, lock, call, pid, rx, guards>>
      /\ target' = target \cup {q} /\ inherited' = inherited \cup {q}
  BY DEF Inherit
<1>2. TypeOK'
  BY <1>1 DEF Core, TypeOK, Idle
<1>3. TargetOwned'
  BY <1>1 DEF Core, TargetOwned, Inserted
<1>4. CallExclusive' /\ CallerHasEntry' /\ ArmAlone' /\ ChannelsDistinct' /\ ReceiverRegistered'
  BY <1>1 DEF Core, CallExclusive, CallerHasEntry, ArmAlone, NoReceiver, ChannelsDistinct,
     ReceiverRegistered
<1>5. QED
  BY <1>2, <1>3, <1>4 DEF Core

\* Nor does a step of somebody else.
LEMMA StutterCore == Core /\ UNCHANGED vars => Core'
BY DEF vars, Core, TypeOK, CallExclusive, CallerHasEntry, ArmAlone, ChannelsDistinct,
   ReceiverRegistered, TargetOwned, Inserted, Idle, NoReceiver

-----------------------------------------------------------------------------
(* The registry as Subscription uses it.                                   *)

\* A receiver never outlives its guard (field order of Subscription).
ReceiverGuarded == \A c \in Clients : rx[c] # None => c \in guards

\* The inductive invariant.
IInv == Core /\ ReceiverGuarded /\ EntryOwned

\* The empty registry satisfies it.
LEMMA InitIInv == Init => IInv
BY InitCore DEF Init, IInv, ReceiverGuarded, EntryOwned

\* The registry's steps are among those above.
LEMMA NextIsAny ==
  ASSUME NEW c \in Clients, Proceed(c) \/ \E p \in Pids : Subscribe(c, p)
  PROVE  AnyStep(c)
BY DEF Proceed, DropGuardAfterRx, AnyStep

\* No receiver outlives its guard.
LEMMA GuardedStep ==
  ASSUME IInv, NEW c \in Clients, Proceed(c) \/ \E p \in Pids : Subscribe(c, p)
  PROVE  ReceiverGuarded'
<1>1. CASE (\E p \in Pids : Subscribe(c, p)) \/ Arm(c) \/ Unmap(c)
  BY <1>1 DEF IInv, ReceiverGuarded, Subscribe, Arm, Unmap
<1>2. CASE Attach(c)
  BY <1>2 DEF IInv, ReceiverGuarded, Attach
<1>3. CASE DropRx(c)
  BY <1>3 DEF IInv, ReceiverGuarded, DropRx
<1>4. CASE DropGuardAfterRx(c)
  BY <1>4 DEF IInv, ReceiverGuarded, DropGuardAfterRx, DropGuard, DropGuardLast,
     DropGuardOther
<1>5. QED
  BY <1>1, <1>2, <1>3, <1>4 DEF Proceed

\* Every entry keeps an owner: the drop of a receiver leaves it to its guard, the
\* guard that goes without evicting it to the guard of the receiver it found.
LEMMA OwnedStep ==
  ASSUME IInv, NEW c \in Clients, Proceed(c) \/ \E p \in Pids : Subscribe(c, p)
  PROVE  EntryOwned'
<1>1. CASE \E p \in Pids : Subscribe(c, p)
  BY <1>1, NoneAssumption DEF IInv, Core, TypeOK, EntryOwned, Subscribe, Idle
<1>2. CASE Arm(c)
  BY <1>2 DEF IInv, EntryOwned, Arm
<1>3. CASE Attach(c)
  BY <1>3 DEF IInv, EntryOwned, Attach
<1>4. CASE DropRx(c)
  BY <1>4 DEF IInv, ReceiverGuarded, EntryOwned, DropRx, PidWithoutRx
<1>5. CASE DropGuardAfterRx(c) /\ DropGuardLast(c)
  BY <1>5 DEF IInv, Core, TypeOK, EntryOwned, DropGuardLast, Evicted
<1>6. CASE DropGuardAfterRx(c) /\ DropGuardOther(c)
  BY <1>6 DEF IInv, Core, TypeOK, ReceiverGuarded, ChannelsDistinct, ReceiverRegistered,
     EntryOwned, DropGuardAfterRx, DropGuardOther, NoReceiver, ShouldUnmap, Idle
<1>7. CASE Unmap(c)
  BY <1>7 DEF IInv, Core, CallExclusive, EntryOwned, Unmap
<1>8. QED
  BY <1>1, <1>2, <1>3, <1>4, <1>5, <1>6, <1>7 DEF Proceed, DropGuardAfterRx, DropGuard

\* No step of the registry breaks the invariant.
LEMMA NextIInv == IInv /\ [Next]_vars => IInv'
<1> SUFFICES ASSUME IInv, [Next]_vars
             PROVE  IInv'
  OBVIOUS
<1>1. CASE UNCHANGED vars
  <2>1. Core'
    BY <1>1, StutterCore DEF IInv
  <2>2. QED
    BY <1>1, <2>1 DEF vars, IInv, ReceiverGuarded, EntryOwned
<1>2. CASE \E c \in Clients : Proceed(c) \/ \E p \in Pids : Subscribe(c, p)
  <2>1. Core'
    BY <1>2, NextIsAny, AnyStepCore DEF IInv
  <2>2. QED
    BY <1>2, <2>1, GuardedStep, OwnedStep DEF IInv
<1>3. CASE Forks
  <2>1. Core' /\ UNCHANGED <<streams, call, pid, rx, guards>>
    BY <1>3, InheritCore DEF IInv, Forks, Inherit
  <2>2. QED
    BY <2>1 DEF IInv, ReceiverGuarded, EntryOwned
<1>4. QED
  BY <1>1, <1>2, <1>3 DEF Next

\* The invariant holds in every behaviour of the registry.
THEOREM Invariance == Spec => []IInv
<1>1. Init => IInv
  BY InitIInv
<1>2. IInv /\ [Next]_vars => IInv'
  BY NextIInv
<1>3. QED
  BY <1>1, <1>2, PTL DEF Spec

\* The lock, the stages of a subscription and the maps keep their shape and
\* agree with each other.
THEOREM TypeCorrect == Spec => []TypeOK
BY Invariance, PTL DEF IInv, Core

\* `forward' reaches every live receiver.
THEOREM ForwardReaches == Spec => []ReceiverRegistered
BY Invariance, PTL DEF IInv, Core

\* No entry of `streams' outlives the subscriptions it is for.
THEOREM NoEntryLeaks == Spec => []EntryOwned
BY Invariance, PTL DEF IInv, Core

\* No key that the registry inserted into target_pids outlives the subscriptions
\* it is for, except until a removal that is already under way.
THEOREM NoTargetLeaks == Spec => []TargetOwned
BY Invariance, PTL DEF IInv, Core

\* A step of the registry's that adds a PID to target_pids is one that found it
\* without receivers.
LEMMA ArmedAlone ==
  ASSUME IInv, [Next]_vars, NEW p \in Pids, p \notin target, p \in Inserted'
  PROVE  \A c \in Clients : rx[c] # None => pid[c] # p
<1>1. p \in target' /\ p \notin inherited'
  BY DEF Inserted
<1>2. ~Forks
  BY <1>1 DEF Forks, Inherit
<1>3. PICK d \in Clients : Arm(d) /\ pid[d] = p
  BY <1>1, <1>2 DEF vars, Next, Proceed, Subscribe, Arm, Attach, DropRx, DropGuardAfterRx,
     DropGuard, DropGuardLast, DropGuardOther, Unmap, Disarmed
<1>4. NoReceiver(p)
  BY <1>3 DEF IInv, Core, ArmAlone, Arm
<1>5. QED
  BY <1>4 DEF IInv, Core, ReceiverRegistered, NoReceiver

\* Tracing lost under a live receiver is not mended by a later subscriber while
\* that receiver lives.
THEOREM LostTracingStaysLost == Spec => DisarmSticks
<1>1. IInv /\ [Next]_vars =>
        [\A c \in Clients : rx[c] # None /\ pid[c] \notin target /\ rx'[c] # None
            => pid[c] \notin Inserted']_vars
  <2> SUFFICES ASSUME IInv, [Next]_vars, NEW c \in Clients,
                      rx[c] # None, pid[c] \notin target
               PROVE  pid[c] \notin Inserted'
    OBVIOUS
  <2>1. pid[c] \in Pids
    BY DEF IInv, Core, TypeOK, Idle
  <2>2. QED
    BY <2>1, ArmedAlone
<1>2. QED
  BY <1>1, Invariance, PTL DEF Spec, DisarmSticks

-----------------------------------------------------------------------------
(* The serial registry.                                                    *)

\* A PID whose removal is pending has no entry: nobody relies on it.
UnmapAlone ==
  \A c \in Clients : call[c] = "unmap" => streams[pid[c]] = None

\* Whoever is about to get a receiver finds the PID armed, by the registry.
AttachArmed ==
  \A c \in Clients : call[c] = "attach" => pid[c] \in Inserted

\* So does whoever has one.
ReceiverArmed == \A c \in Clients : rx[c] # None => pid[c] \in Inserted

\* The inductive invariant of the serial registry.
SInv == IInv /\ UnmapAlone /\ AttachArmed /\ ReceiverArmed

-----------------------------------------------------------------------------
\* A serial step is a step of the registry.
LEMMA SerialStep == [SerialNext]_vars => [Next]_vars
BY DEF SerialNext, Next

\* target_pids has room for whoever asks.
LEMMA AlwaysRoom ==
  ASSUME Room, IInv, NEW p \in Pids
  PROVE  HasRoom(p)
<1>1. target \in SUBSET Pids
  BY DEF IInv, Core, TypeOK
<1>2. IsFiniteSet(target) /\ Cardinality(target) <= Cardinality(Pids)
      /\ (Cardinality(target) = Cardinality(Pids) => target = Pids)
  BY <1>1, FS_Subset DEF Room
<1>3. Cardinality(target) \in Nat /\ Cardinality(Pids) \in Nat
  BY <1>2, FS_CardinalityType DEF Room
<1>4. QED
  BY <1>2, <1>3 DEF HasRoom, Room

\* The empty registry satisfies it.
LEMMA InitSInv == Init => SInv
BY InitIInv DEF SInv, UnmapAlone, AttachArmed, ReceiverArmed, Init

\* `subscribe' finds receivers only where the PID is armed, and never makes an
\* entry for a PID with a pending removal.
LEMMA SubscribeSerial ==
  ASSUME SInv, IInv', NEW c \in Clients, NEW p \in Pids, Subscribe(c, p),
         ~UnmapPending(p)
  PROVE  SInv'
<1>1. UnmapAlone'
  BY DEF SInv, IInv, Core, TypeOK, UnmapAlone, Subscribe, UnmapPending, Idle
<1>2. ~NoReceiver(p) => p \in Inserted
  BY DEF SInv, IInv, Core, TypeOK, ReceiverArmed, ReceiverRegistered,
     ChannelsDistinct, NoReceiver, Idle
<1>3. AttachArmed'
  BY <1>2 DEF SInv, IInv, Core, TypeOK, AttachArmed, Inserted, Subscribe, NeedsArm
<1>4. ReceiverArmed'
  BY DEF SInv, ReceiverArmed, Inserted, Subscribe, Idle
<1>5. QED
  BY <1>1, <1>3, <1>4 DEF SInv

\* The insert cannot fail.
LEMMA ArmSerial ==
  ASSUME Room, SInv, IInv', NEW c \in Clients, Arm(c)
  PROVE  SInv'
<1>1. pid[c] \in Pids
  BY DEF IInv, Core, TypeOK, Arm, Idle
<1>2. Inserted' = Inserted \cup {pid[c]}
  BY <1>1, AlwaysRoom DEF SInv, Arm, Room, Inserted
<1>3. UnmapAlone'
  BY DEF SInv, UnmapAlone, Arm
<1>4. AttachArmed'
  BY <1>2 DEF IInv, Core, TypeOK, AttachArmed, Arm
<1>5. ReceiverArmed'
  BY <1>2 DEF SInv, ReceiverArmed, Arm
<1>6. QED
  BY <1>3, <1>4, <1>5 DEF SInv

\* The new receiver is of an armed PID.
LEMMA AttachSerial ==
  ASSUME SInv, IInv', NEW c \in Clients, Attach(c)
  PROVE  SInv'
<1>1. UnmapAlone'
  BY DEF SInv, UnmapAlone, Attach
<1>2. AttachArmed'
  BY DEF SInv, AttachArmed, Inserted, Attach
<1>3. ReceiverArmed'
  BY DEF SInv, AttachArmed, ReceiverArmed, Inserted, Attach
<1>4. QED
  BY <1>1, <1>2, <1>3 DEF SInv

\* A receiver less changes nothing for the others.
LEMMA DropRxSerial ==
  ASSUME SInv, IInv', NEW c \in Clients, DropRx(c)
  PROVE  SInv'
<1>1. UnmapAlone'
  BY DEF SInv, IInv, Core, CallExclusive, UnmapAlone, DropRx, PidWithoutRx
<1>2. AttachArmed'
  BY DEF SInv, IInv, Core, CallExclusive, AttachArmed, Inserted, DropRx, PidWithoutRx
<1>3. ReceiverArmed'
  BY DEF SInv, IInv, Core, TypeOK, ReceiverArmed, Inserted, DropRx, PidWithoutRx
<1>4. QED
  BY <1>1, <1>2, <1>3 DEF SInv

\* The guard that evicts leaves a PID without an entry behind.
LEMMA GuardSerial ==
  ASSUME SInv, IInv', NEW c \in Clients, DropGuardAfterRx(c)
  PROVE  SInv'
<1>1. UnmapAlone'
  BY DEF SInv, IInv, Core, TypeOK, UnmapAlone, DropGuardAfterRx, DropGuard,
     DropGuardLast, DropGuardOther, Evicted, Idle
<1>2. AttachArmed'
  BY DEF SInv, IInv, Core, TypeOK, CallExclusive, AttachArmed, Inserted, DropGuardAfterRx,
     DropGuard, DropGuardLast, DropGuardOther
<1>3. ReceiverArmed'
  BY DEF SInv, IInv, Core, TypeOK, ReceiverArmed, Inserted, DropGuardAfterRx, DropGuard,
     DropGuardLast, DropGuardOther
<1>4. QED
  BY <1>1, <1>2, <1>3 DEF SInv

\* The removal takes away a PID that has no entry, hence no receiver and nobody
\* about to get one.
LEMMA UnmapSerial ==
  ASSUME SInv, IInv', NEW c \in Clients, Unmap(c)
  PROVE  SInv'
<1>1. UnmapAlone'
  BY DEF SInv, IInv, Core, TypeOK, UnmapAlone, Unmap
<1>2. AttachArmed'
  BY DEF SInv, IInv, Core, UnmapAlone, CallerHasEntry, AttachArmed, Inserted, Unmap, Disarmed
<1>3. ReceiverArmed'
  BY DEF SInv, IInv, Core, UnmapAlone, ReceiverRegistered, ReceiverArmed, Inserted, Unmap,
     Disarmed
<1>4. QED
  BY <1>1, <1>2, <1>3 DEF SInv

\* No serial step breaks the invariant.
LEMMA NextSInv == Room /\ SInv /\ [SerialNext]_vars => SInv'
<1> SUFFICES ASSUME Room, SInv, [SerialNext]_vars
             PROVE  SInv'
  OBVIOUS
<1>1. IInv'
  BY SerialStep, NextIInv DEF SInv
<1>2. CASE UNCHANGED vars
  BY <1>1, <1>2 DEF vars, SInv, UnmapAlone, AttachArmed, ReceiverArmed, Inserted
<1>3. CASE Forks
  <2>1. Inserted \subseteq Inserted' /\ UNCHANGED <<streams, call, pid, rx>>
    BY <1>3 DEF SInv, IInv, Core, TypeOK, Forks, Inherit, Inserted
  <2>2. QED
    BY <1>1, <2>1 DEF SInv, UnmapAlone, AttachArmed, ReceiverArmed
<1>4. CASE \E c \in Clients : Proceed(c) \/ \E p \in Pids : ~UnmapPending(p) /\ Subscribe(c, p)
  <2> PICK c \in Clients : Proceed(c) \/ \E p \in Pids : ~UnmapPending(p) /\ Subscribe(c, p)
    BY <1>4
  <2>1. CASE \E p \in Pids : ~UnmapPending(p) /\ Subscribe(c, p)
    BY <1>1, <2>1, SubscribeSerial
  <2>2. CASE Arm(c)
    BY <1>1, <2>2, ArmSerial
  <2>3. CASE Attach(c)
    BY <1>1, <2>3, AttachSerial
  <2>4. CASE DropRx(c)
    BY <1>1, <2>4, DropRxSerial
  <2>5. CASE DropGuardAfterRx(c)
    BY <1>1, <2>5, GuardSerial
  <2>6. CASE Unmap(c)
    BY <1>1, <2>6, UnmapSerial
  <2>7. QED
    BY <2>1, <2>2, <2>3, <2>4, <2>5, <2>6 DEF Proceed
<1>5. QED
  BY <1>2, <1>3, <1>4 DEF SerialNext

\* The invariant holds in every serial behaviour.
THEOREM SerialInvariance == Room => (SerialSpec => []SInv)
<1> SUFFICES ASSUME Room
             PROVE  SerialSpec => []SInv
  OBVIOUS
<1>1. Init => SInv
  BY InitSInv
<1>2. SInv /\ [SerialNext]_vars => SInv'
  BY NextSInv
<1>3. QED
  BY <1>1, <1>2, PTL DEF SerialSpec

\* Whoever has a receiver is traced.
THEOREM SubscribersTraced == Room => (SerialSpec => []SubscribedArmed)
<1>1. SInv => SubscribedArmed
  BY DEF SInv, ReceiverArmed, SubscribedArmed, Inserted
<1>2. QED
  BY <1>1, SerialInvariance, PTL

-----------------------------------------------------------------------------
\* The empty registry is TraceControl's initial state.
LEMMA InitPromise == Init => Promise!Init
BY DEF Init, Promise!Init, Subscribers, Inserted

\* Every serial step is a step of TraceControl or leaves it alone: `subscribe'
\* and the guards stutter, Arm switches on, Attach joins, DropRx leaves, Unmap
\* switches off.
LEMMA StepPromise ==
  Room /\ SInv /\ SInv' /\ [SerialNext]_vars => [Promise!Next]_Promise!abstractVars
<1> SUFFICES ASSUME Room, SInv, SInv', [SerialNext]_vars
             PROVE  [Promise!Next]_Promise!abstractVars
  OBVIOUS
<1> USE DEF Promise!abstractVars
<1>1. CASE UNCHANGED vars
  BY <1>1 DEF vars, Subscribers, Inserted
<1>2. CASE Forks
  <2>1. Inserted' = Inserted /\ UNCHANGED <<pid, rx>>
    BY <1>2 DEF SInv, IInv, Core, TypeOK, Forks, Inherit, Inserted
  <2>2. QED
    BY <2>1 DEF Subscribers
<1>3. CASE \E c \in Clients : Proceed(c) \/ \E p \in Pids : ~UnmapPending(p) /\ Subscribe(c, p)
  <2> PICK c \in Clients : Proceed(c) \/ \E p \in Pids : ~UnmapPending(p) /\ Subscribe(c, p)
    BY <1>3
  <2>1. CASE \E p \in Pids : ~UnmapPending(p) /\ Subscribe(c, p)
    <3>1. Subscribers' = Subscribers
      BY <2>1 DEF Subscribe, Idle, Subscribers
    <3>2. QED
      BY <2>1, <3>1 DEF Subscribe, Inserted
  <2>2. CASE Arm(c)
    <3>1. pid[c] \in Pids
      BY <2>2 DEF SInv, IInv, Core, TypeOK, Arm, Idle
    <3>2. Inserted' = Inserted \cup {pid[c]}
      BY <2>2, <3>1, AlwaysRoom DEF SInv, Arm, Room, Inserted
    <3>3. Subscribers[pid[c]] = {} /\ UNCHANGED Subscribers
      BY <2>2, <3>1 DEF SInv, IInv, Core, ArmAlone, ReceiverRegistered, NoReceiver,
         Arm, Subscribers
    <3>4. QED
      BY <3>1, <3>2, <3>3 DEF Promise!Next, Promise!SwitchOn
  <2>3. CASE Attach(c)
    <3>1. pid[c] \in Pids /\ pid[c] \in Inserted
      BY <2>3 DEF SInv, IInv, Core, TypeOK, AttachArmed, Attach, Idle
    <3>2. \A q \in Pids : c \notin Subscribers[q]
      BY <2>3 DEF SInv, IInv, Core, CallExclusive, Attach, Subscribers
    <3>3. Subscribers' = [Subscribers EXCEPT ![pid[c]] = @ \cup {c}]
      <4>1. /\ rx'[c] # None /\ pid' = pid
            /\ \A d \in Clients : d # c => rx'[d] = rx[d]
        BY <2>3 DEF SInv, IInv, Core, TypeOK, CallerHasEntry, Attach
      <4>2. Subscribers'[pid[c]] = Subscribers[pid[c]] \cup {c}
        BY <3>1, <4>1 DEF Subscribers
      <4>3. \A q \in Pids : q # pid[c] => Subscribers'[q] = Subscribers[q]
        BY <4>1 DEF Subscribers
      <4>4. QED
        BY <4>2, <4>3 DEF Subscribers
    <3>4. QED
      BY <2>3, <3>1, <3>2, <3>3 DEF Promise!Next, Promise!Join, Attach, Inserted
  <2>4. CASE DropRx(c)
    <3>1. pid[c] \in Pids /\ c \in Subscribers[pid[c]]
      BY <2>4 DEF SInv, IInv, Core, TypeOK, DropRx, Idle, Subscribers
    <3>2. Subscribers' = [Subscribers EXCEPT ![pid[c]] = @ \ {c}]
      <4>1. /\ rx'[c] = None
            /\ \A d \in Clients : d # c => rx'[d] = rx[d] /\ pid'[d] = pid[d]
        BY <2>4 DEF SInv, IInv, Core, TypeOK, DropRx, PidWithoutRx
      <4>2. Subscribers'[pid[c]] = Subscribers[pid[c]] \ {c}
        BY <3>1, <4>1 DEF Subscribers
      <4>3. \A q \in Pids : q # pid[c] => Subscribers'[q] = Subscribers[q]
        BY <4>1 DEF Subscribers
      <4>4. QED
        BY <4>2, <4>3 DEF Subscribers
    <3>3. QED
      BY <2>4, <3>1, <3>2 DEF Promise!Next, Promise!Leave, DropRx, Inserted
  <2>5. CASE DropGuardAfterRx(c)
    <3>1. Subscribers' = Subscribers
      BY <2>5 DEF SInv, IInv, Core, TypeOK, DropGuardAfterRx, DropGuard,
         DropGuardLast, DropGuardOther, Subscribers
    <3>2. QED
      BY <2>5, <3>1 DEF DropGuardAfterRx, DropGuard, DropGuardLast,
         DropGuardOther, Inserted
  <2>6. CASE Unmap(c)
    <3>1. pid[c] \in Pids
      BY <2>6 DEF SInv, IInv, Core, TypeOK, Unmap, Idle
    <3>2. Subscribers[pid[c]] = {}
      BY <2>6, <3>1 DEF SInv, IInv, Core, UnmapAlone, ReceiverRegistered, Unmap,
         Subscribers
    <3>3. UNCHANGED Subscribers
      BY <2>6 DEF SInv, IInv, Core, CallExclusive, Unmap, Subscribers
    <3>4. QED
      BY <2>6, <3>1, <3>2, <3>3 DEF Promise!Next, Promise!SwitchOff, Unmap,
         Disarmed, Inserted
  <2>7. QED
    BY <2>1, <2>2, <2>3, <2>4, <2>5, <2>6 DEF Proceed
<1>4. QED
  BY <1>1, <1>2, <1>3 DEF SerialNext

\* The serial registry implements TraceControl, safety part.
THEOREM SerialKeepsPromise == Room => (SerialSpec => Promise!Spec)
<1> SUFFICES ASSUME Room
             PROVE  SerialSpec => Promise!Spec
  OBVIOUS
<1>1. Init => Promise!Init
  BY InitPromise
<1>2. SInv /\ SInv' /\ [SerialNext]_vars => [Promise!Next]_Promise!abstractVars
  BY StepPromise
<1>3. QED
  BY <1>1, <1>2, SerialInvariance, PTL DEF SerialSpec, Promise!Spec

-----------------------------------------------------------------------------
(* The HTTP handlers.                                                      *)

\* The inductive invariant of the streams.
StreamsInv == Core /\ StreamsTypeOK

\* A step of the handlers is one of the registry's, with the drops in whatever
\* order the handlers have, or a fork, or none of them.
LEMMA StreamsStep ==
  ASSUME [StreamsNext]_allVars
  PROVE  (\E c \in Clients : AnyStep(c)) \/ Forks \/ UNCHANGED vars
<1>1. CASE UNCHANGED allVars
  BY <1>1 DEF allVars
<1>2. CASE \E p \in Pids : Forward(p)
  BY <1>2 DEF Forward
<1>3. CASE \E p \in Pids, c \in Clients : Request(c, p)
  BY <1>3 DEF Request, AnyStep
<1>4. CASE \E c \in Clients : Registry(c) \/ WsStart(c) \/ SseStart(c) \/ SseStep(c)
  BY <1>4 DEF Registry, WsStart, SseStart, SseStep, SseReturn, SseSend, SseDisconnect, AnyStep
<1>5. CASE \E c \in WsClients : WsStep(c)
  <2> PICK c \in WsClients : WsStep(c)
    BY <1>5
  <2>1. c \in Clients
    BY WsAssumption
  <2>2. CASE PeerChange(c) \/ ReaderStep(c)
    BY <2>2 DEF PeerChange, ReaderStep, ReaderError, ReaderEnd
  <2>3. CASE PumpStep(c)
    BY <2>1, <2>3 DEF PumpStep, PumpCancel, PumpTake, PumpSend, PumpSendFails, PumpEnds, AnyStep
  <2>4. CASE MainStep(c)
    BY <2>1, <2>4 DEF MainStep, MainCancel, MainPing, MainTake, MainSends, MainSent,
       MainDropsGuard, MainDropsQueue, AnyStep
  <2>5. QED
    BY <2>2, <2>3, <2>4 DEF WsStep
<1>6. QED
  BY <1>1, <1>2, <1>3, <1>4, <1>5 DEF StreamsNext

\* Hence the registry's part of the invariant.
LEMMA StreamsCore ==
  ASSUME Core, [StreamsNext]_allVars
  PROVE  Core'
BY StreamsStep, AnyStepCore, InheritCore, StutterCore

\* Who owns what in a WebSocket session.
Owners ==
  \A c \in WsClients : /\ rx[c] # None <=> pump[c] # "off"
                       /\ c \in guards <=> main[c] \in {"run", "sending", "leaving"}

\* The shapes of the tasks.
Tasks ==
  /\ backlog \in [Clients -> 0..EventLimit]
  /\ peer \in [WsClients -> {"up", "stalled", "closed", "broken"}]
  /\ reader \in [WsClients -> {"off", "run"}]
  /\ pump \in [WsClients -> {"off", "run", "sending"}]
  /\ main \in [WsClients -> {"off", "run", "sending", "leaving", "returning"}]
  /\ queue \in [WsClients -> 0..QueueCap]
  /\ notified \in SUBSET WsClients

LEMMA StreamsParts == StreamsTypeOK <=> Tasks /\ Owners
BY DEF StreamsTypeOK, Tasks, Owners

\* Nobody has a session at the start.
LEMMA InitStreams == StreamsInit => StreamsInv
<1> SUFFICES ASSUME StreamsInit
             PROVE  StreamsInv
  OBVIOUS
<1>1. Core
  BY InitCore DEF StreamsInit
<1>2. 0 \in 0..EventLimit /\ 0 \in 0..QueueCap
  BY CapacityAssumption
<1>3. Tasks
  BY <1>2 DEF StreamsInit, Tasks
<1>4. Owners
  BY WsAssumption DEF StreamsInit, Init, Owners
<1>5. QED
  BY <1>1, <1>3, <1>4, StreamsParts DEF StreamsInv

\* Steps of the registry that give or take no receiver and no guard, and steps of
\* SSE sessions, change nothing for the WebSocket sessions.
LEMMA OwnersElsewhere ==
  ASSUME StreamsInv, UNCHANGED <<pump, main>>,
         \A c \in WsClients : rx'[c] = rx[c] /\ (c \in guards' <=> c \in guards)
  PROVE  Owners'
BY StreamsParts DEF StreamsInv, Owners

\* A request, and the inside of the registry's calls.
LEMMA RequestStreams ==
  ASSUME StreamsInv,
         \/ \E c \in Clients, p \in Pids : Request(c, p)
         \/ \E c \in Clients : Registry(c)
  PROVE  Tasks' /\ Owners'
<1>1. UNCHANGED taskVars /\ UNCHANGED <<rx, guards>>
  BY DEF Request, Registry, Subscribe, Arm, Unmap
<1>2. Tasks'
  BY <1>1, StreamsParts DEF StreamsInv, Tasks, taskVars
<1>3. Owners'
  BY <1>1, OwnersElsewhere DEF taskVars
<1>4. QED
  BY <1>2, <1>3

\* A session begins with all that it needs: the entry is there, so its receiver is.
LEMMA StartStreams ==
  ASSUME StreamsInv, NEW c \in Clients, WsStart(c) \/ SseStart(c)
  PROVE  Tasks' /\ Owners'
<1>1. /\ rx' = [rx EXCEPT ![c] = streams[pid[c]]] /\ streams[pid[c]] # None
      /\ guards' = guards \cup {c}
      /\ backlog' = [backlog EXCEPT ![c] = 0]
  BY DEF StreamsInv, Core, CallerHasEntry, WsStart, SseStart, Attach
<1>2. Tasks /\ Owners /\ 0 \in 0..EventLimit /\ 0 \in 0..QueueCap
  BY StreamsParts, CapacityAssumption DEF StreamsInv
<1>3. rx \in [Clients -> Channels \cup {None}]
  BY DEF StreamsInv, Core, TypeOK
<1>4. CASE WsStart(c)
  <2>1. Tasks'
    BY <1>1, <1>2, <1>4 DEF Tasks, WsStart
  <2>2. Owners'
    BY <1>1, <1>2, <1>3, <1>4, WsAssumption DEF Owners, Tasks, WsStart
  <2>3. QED
    BY <2>1, <2>2
<1>5. CASE SseStart(c)
  <2>1. Tasks'
    BY <1>1, <1>2, <1>5 DEF Tasks, SseStart
  <2>2. Owners'
    BY <1>1, <1>3, <1>5, OwnersElsewhere, WsAssumption DEF SseStart, SseClients
  <2>3. QED
    BY <2>1, <2>2
<1>6. QED
  BY <1>4, <1>5

\* An event reaches the channel: no backlog passes the channel's capacity.
LEMMA ForwardStreams ==
  ASSUME StreamsInv, NEW p \in Pids, Forward(p)
  PROVE  Tasks' /\ Owners'
<1>1. Tasks /\ UNCHANGED <<vars, peer, reader, pump, main, queue, notified>>
  BY StreamsParts DEF StreamsInv, Forward
<1>2. backlog' \in [Clients -> 0..EventLimit]
  BY <1>1, CapacityAssumption DEF Tasks, Forward
<1>3. Tasks'
  BY <1>1, <1>2 DEF Tasks
<1>4. Owners'
  BY <1>1, OwnersElsewhere DEF vars
<1>5. QED
  BY <1>3, <1>4

\* The steps of a SSE session.
LEMMA SseStreams ==
  ASSUME StreamsInv, NEW c \in Clients, SseStep(c)
  PROVE  Tasks' /\ Owners'
<1>1. Tasks /\ c \notin WsClients /\ UNCHANGED <<peer, reader, pump, main, queue, notified>>
  BY StreamsParts
     DEF StreamsInv, SseStep, SseReturn, SseSend, SseDisconnect, SseClients, taskVars
<1>2. \/ UNCHANGED backlog
      \/ backlog' = [backlog EXCEPT ![c] = 0]
      \/ backlog[c] > 0 /\ backlog' = [backlog EXCEPT ![c] = @ - 1]
  BY DEF SseStep, SseReturn, SseSend, SseDisconnect, taskVars
<1>3. backlog' \in [Clients -> 0..EventLimit]
  BY <1>1, <1>2, CapacityAssumption DEF Tasks
<1>4. Tasks'
  BY <1>1, <1>3 DEF Tasks
<1>5. \A d \in WsClients : rx'[d] = rx[d] /\ (d \in guards' <=> d \in guards)
  <2>1. CASE SseReturn(c)
    BY <1>1, <2>1 DEF SseReturn, DropGuard, DropGuardLast, DropGuardOther
  <2>2. CASE SseSend(c)
    BY <2>2 DEF SseSend, vars
  <2>3. CASE SseDisconnect(c)
    BY <1>1, <2>3 DEF StreamsInv, Core, TypeOK, SseDisconnect, DropRx
  <2>4. QED
    BY <2>1, <2>2, <2>3 DEF SseStep
<1>6. QED
  BY <1>1, <1>4, <1>5, OwnersElsewhere

\* The far end and the reader own nothing.
LEMMA ReaderStreams ==
  ASSUME StreamsInv, NEW c \in WsClients, PeerChange(c) \/ ReaderStep(c)
  PROVE  Tasks' /\ Owners'
<1>1. Tasks /\ UNCHANGED <<vars, backlog, pump, main, queue>>
  BY StreamsParts DEF StreamsInv, PeerChange, ReaderStep, ReaderError, ReaderEnd
<1>2. /\ peer' \in [WsClients -> {"up", "stalled", "closed", "broken"}]
      /\ reader' \in [WsClients -> {"off", "run"}]
      /\ notified' \in SUBSET WsClients
  BY <1>1 DEF Tasks, PeerChange, ReaderStep, ReaderError, ReaderEnd
<1>3. Tasks'
  BY <1>1, <1>2 DEF Tasks
<1>4. QED
  BY <1>1, <1>3, OwnersElsewhere DEF vars

\* The pump ends with its receiver, and not before.
LEMMA PumpStreams ==
  ASSUME StreamsInv, NEW c \in WsClients, PumpStep(c)
  PROVE  Tasks' /\ Owners'
<1>1. Tasks /\ Owners /\ c \in Clients /\ UNCHANGED <<guards, peer, reader, main>>
  BY StreamsParts, WsAssumption
     DEF StreamsInv, PumpStep, PumpCancel, PumpTake, PumpSend, PumpSendFails, PumpEnds, DropRx,
         vars
<1>2. /\ notified' \in SUBSET WsClients
      /\ queue' \in [WsClients -> 0..QueueCap]
  BY <1>1, CapacityAssumption
     DEF Tasks, PumpStep, PumpCancel, PumpTake, PumpSend, PumpSendFails
<1>3. \/ UNCHANGED backlog
      \/ backlog' = [backlog EXCEPT ![c] = 0]
      \/ backlog[c] > 0 /\ backlog' = [backlog EXCEPT ![c] = @ - 1]
  BY DEF PumpStep, PumpCancel, PumpTake, PumpSend, PumpSendFails, PumpEnds
<1>4. backlog' \in [Clients -> 0..EventLimit]
  BY <1>1, <1>3, CapacityAssumption DEF Tasks
<1>5. \/ /\ rx' = [rx EXCEPT ![c] = None]
         /\ pump' = [pump EXCEPT ![c] = "off"]
      \/ /\ UNCHANGED rx /\ pump[c] # "off"
         /\ \E s \in {"run", "sending"} : pump' = [pump EXCEPT ![c] = s]
  BY DEF PumpStep, PumpCancel, PumpTake, PumpSend, PumpSendFails, PumpEnds, DropRx, vars
<1>6. rx \in [Clients -> Channels \cup {None}]
  BY DEF StreamsInv, Core, TypeOK
<1>7. Tasks'
  BY <1>1, <1>2, <1>4, <1>5 DEF Tasks
<1>8. Owners'
  BY <1>1, <1>5, <1>6, WsAssumption DEF Tasks, Owners
<1>9. QED
  BY <1>7, <1>8

\* The main loop has the guard until it drops it, on its way out.
LEMMA MainStreams ==
  ASSUME StreamsInv, NEW c \in WsClients, MainStep(c)
  PROVE  Tasks' /\ Owners'
<1> USE DEF MainStep, MainCancel, MainPing, MainTake, MainSends, MainSent, MainDropsGuard,
            MainDropsQueue
<1>1. Tasks /\ Owners /\ UNCHANGED <<backlog, peer, reader, pump, rx>>
  BY StreamsParts DEF StreamsInv, DropGuard, DropGuardLast, DropGuardOther, vars
<1>2. notified' \in SUBSET WsClients /\ queue' \in [WsClients -> 0..QueueCap]
  BY <1>1, CapacityAssumption DEF Tasks
<1>3. \/ /\ UNCHANGED guards /\ main[c] \in {"run", "sending"}
         /\ \E s \in {"run", "sending", "leaving"} : main' = [main EXCEPT ![c] = s]
      \/ /\ guards' = guards \ {c}
         /\ main' = [main EXCEPT ![c] = "returning"]
      \/ /\ UNCHANGED guards /\ main[c] = "returning"
         /\ main' = [main EXCEPT ![c] = "off"]
  BY DEF DropGuard, DropGuardLast, DropGuardOther, vars
<1>4. Tasks'
  BY <1>1, <1>2, <1>3 DEF Tasks
<1>5. Owners'
  BY <1>1, <1>3 DEF Tasks, Owners
<1>6. QED
  BY <1>4, <1>5

\* No step of the handlers breaks the invariant.
LEMMA NextStreams == StreamsInv /\ [StreamsNext]_allVars => StreamsInv'
<1> SUFFICES ASSUME StreamsInv, [StreamsNext]_allVars
             PROVE  StreamsInv'
  OBVIOUS
<1>1. Core'
  BY StreamsCore DEF StreamsInv
<1>2. CASE UNCHANGED allVars
  <2>1. StreamsTypeOK'
    BY <1>2 DEF StreamsInv, StreamsTypeOK, allVars, vars, taskVars
  <2>2. QED
    BY <1>1, <2>1 DEF StreamsInv
<1>3. CASE StreamsNext
  <2>1. Tasks' /\ Owners'
    <3>1. CASE \E p \in Pids : Forward(p) \/ \E c \in Clients : Request(c, p)
      BY <3>1, ForwardStreams, RequestStreams
    <3>2. CASE \E c \in Clients : Registry(c) \/ WsStart(c) \/ SseStart(c) \/ SseStep(c)
      BY <3>2, RequestStreams, StartStreams, SseStreams
    <3>3. CASE \E c \in WsClients : WsStep(c)
      BY <3>3, ReaderStreams, PumpStreams, MainStreams DEF WsStep
    <3>4. CASE Forks /\ UNCHANGED taskVars
      <4>1. UNCHANGED <<rx, guards, backlog, peer, reader, pump, main, queue, notified>>
        BY <3>4 DEF Forks, Inherit, taskVars
      <4>2. QED
        BY <4>1, OwnersElsewhere, StreamsParts DEF StreamsInv, Tasks
    <3>5. QED
      BY <1>3, <3>1, <3>2, <3>3, <3>4 DEF StreamsNext
  <2>2. QED
    BY <1>1, <2>1 DEF StreamsInv, StreamsTypeOK, Tasks, Owners
<1>4. QED
  BY <1>2, <1>3

\* The invariant holds whatever sessions come, go and overlap.
THEOREM StreamsInvariance == StreamsSpec => []StreamsInv
<1>1. StreamsInit => StreamsInv
  BY InitStreams
<1>2. StreamsInv /\ [StreamsNext]_allVars => StreamsInv'
  BY NextStreams
<1>3. QED
  BY <1>1, <1>2, PTL DEF StreamsSpec

\* In a WebSocket session the pump has the receiver and the main loop the guard,
\* for just as long as they run.
THEOREM OwnersKept == StreamsSpec => []StreamsTypeOK
BY StreamsInvariance, PTL DEF StreamsInv

\* `forward' reaches every live receiver, in whatever order the handlers drop the
\* halves of their subscriptions.
THEOREM StreamsReach == StreamsSpec => []ReceiverRegistered
BY StreamsInvariance, PTL DEF StreamsInv, Core

-----------------------------------------------------------------------------
\* Only a dropped receiver whose guard has gone leaves an entry to itself: a guard
\* that does not evict its entry has found a receiver, and that one cares.
LEMMA LastCare ==
  ASSUME Core, NEW c \in Clients, AnyStep(c), NEW p \in Pids, Cared(p), ~Cared(p)'
  PROVE  \E d \in Clients : pid[d] = p /\ rx[d] # None /\ d \notin guards /\ rx'[d] = None
<1>1. CASE \E q \in Pids : Subscribe(c, q)
  <2> PICK q \in Pids : Subscribe(c, q)
    BY <1>1
  <2>1. pid'[c] = q /\ call'[c] \in {"arm", "attach"}
    BY DEF Core, TypeOK, Subscribe
  <2>2. p # q
    BY <2>1 DEF Cared
  <2>3. \A d \in Clients : pid[d] = p => d # c
    BY NoneAssumption DEF Core, TypeOK, Subscribe
  <2>4. QED
    BY <2>2, <2>3 DEF Core, TypeOK, Cared, Subscribe
<1>2. CASE Arm(c)
  BY <1>2 DEF Core, TypeOK, Cared, Arm
<1>3. CASE Attach(c)
  BY <1>3 DEF Core, TypeOK, Cared, Attach
<1>4. CASE DropRx(c)
  <2>1. \A d \in Clients : d # c => pid'[d] = pid[d] /\ rx'[d] = rx[d]
    BY <1>4 DEF Core, TypeOK, DropRx, PidWithoutRx
  <2>2. rx[c] # None /\ rx'[c] = None /\ call[c] = "none"
    BY <1>4 DEF Core, TypeOK, CallExclusive, DropRx
  <2>3. c \in guards => pid'[c] = pid[c]
    BY <1>4 DEF DropRx, PidWithoutRx
  <2>4. QED
    BY <1>4, <2>1, <2>2, <2>3 DEF Cared, DropRx
<1>5. CASE DropGuardLast(c)
  <2>1. p # pid[c]
    BY <1>5 DEF Core, TypeOK, Cared, DropGuardLast, Evicted
  <2>2. QED
    BY <1>5, <2>1 DEF Core, TypeOK, Cared, DropGuardLast, Evicted
<1>6. CASE DropGuardOther(c)
  <2>1. p = pid[c] => streams[p] = None \/ \E d \in Clients : pid[d] = p /\ rx[d] # None
    BY <1>6 DEF Core, TypeOK, ReceiverRegistered, ChannelsDistinct, DropGuardOther, ShouldUnmap,
       NoReceiver, Idle
  <2>2. \A d \in Clients : d # c \/ rx[d] # None => pid'[d] = pid[d]
    BY <1>6 DEF Core, TypeOK, DropGuardOther
  <2>3. CASE p = pid[c]
    BY <1>6, <2>1, <2>2, <2>3 DEF Cared, DropGuardOther
  <2>4. CASE p # pid[c]
    BY <1>6, <2>2, <2>4 DEF Cared, DropGuardOther
  <2>5. QED
    BY <2>3, <2>4
<1>7. CASE Unmap(c)
  <2>1. \A d \in Clients : d # c => pid'[d] = pid[d]
    BY <1>7 DEF Core, TypeOK, Unmap
  <2>2. rx[c] = None /\ c \notin guards /\ call[c] = "unmap"
    BY <1>7 DEF Core, CallExclusive, Unmap
  <2>3. \A d \in Clients : d # c => call'[d] = call[d]
    BY <1>7 DEF Core, TypeOK, Unmap
  <2>4. QED
    BY <1>7, <2>1, <2>2, <2>3 DEF Cared, Unmap
<1>8. QED
  BY <1>1, <1>2, <1>3, <1>4, <1>5, <1>6, <1>7 DEF AnyStep, DropGuard

\* An entry is abandoned in one way only, in which the SSE handler and a WebSocket
\* session whose main loop was faster than its pump leave it.
THEOREM OnlyPastGuard == StreamsSpec => AbandonedOnlyPastGuard
<1>1. StreamsInv /\ [StreamsNext]_allVars =>
        [\A p \in Pids : Cared(p) /\ ~Cared(p)' =>
           \E c \in Clients : pid[c] = p /\ rx[c] # None /\ c \notin guards /\ rx'[c] = None]_allVars
  <2> SUFFICES ASSUME StreamsInv, [StreamsNext]_allVars, NEW p \in Pids, Cared(p), ~Cared(p)'
               PROVE  \E c \in Clients :
                        pid[c] = p /\ rx[c] # None /\ c \notin guards /\ rx'[c] = None
    OBVIOUS
  <2>1. ~ UNCHANGED vars /\ ~Forks
    BY DEF vars, Cared, Forks, Inherit
  <2>2. PICK c \in Clients : AnyStep(c)
    BY <2>1, StreamsStep
  <2>3. QED
    BY <2>2, LastCare DEF StreamsInv
<1>2. QED
  BY <1>1, StreamsInvariance, PTL DEF StreamsSpec, AbandonedOnlyPastGuard
=============================================================================
