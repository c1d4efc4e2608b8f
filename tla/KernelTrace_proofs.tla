-------------------------- MODULE KernelTrace_proofs --------------------------
(***************************************************************************)
(* Proofs of the safety properties of KernelTrace for any tasks and paths  *)
(* and any capacities of the two maps.                                     *)
(***************************************************************************)
EXTENDS KernelTrace, FiniteSetTheorems, TLAPS

\* Inside an open that was traced from its entry, open_args has the path of
\* this open or, for want of room, nothing.
SteadyArgs == \A t \in steady : args[t] = None \/ args[t] = opening[t]

\* Between the two look-ups of a fork program, the forking task lost its key
\* only to user space, and the child is remembered as raced.
ForkRaced ==
  \A t \in Tasks : forking[t] # None /\ ~ShouldTrace(t) => forking[t] \in raced

\* The inductive invariant.
IInv ==
  /\ TypeOK
  /\ SteadyArgs
  /\ ForkRaced
  /\ OpenNamed
  /\ ArgsReturned
  /\ MetricsExplained

-----------------------------------------------------------------------------
\* A map that gets a key it had, or one it has room for, stays within its
\* capacity (bpf_map_update_elem on a hash map).
LEMMA UpdateFits ==
  ASSUME NEW keys, keys \subseteq Tasks, NEW keys2, NEW id, keys2 \subseteq keys \cup {id},
         NEW max \in Nat, Cardinality(keys) <= max,
         id \in keys \/ Cardinality(keys) < max
  PROVE  Cardinality(keys2) <= max
<1>1. IsFiniteSet(keys)
  BY TasksAssumption, FS_Subset
<1>2. /\ IsFiniteSet(keys \cup {id})
      /\ Cardinality(keys \cup {id}) = IF id \in keys THEN Cardinality(keys) ELSE Cardinality(keys) + 1
  BY <1>1, FS_AddElement
<1>3. Cardinality(keys) \in Nat
  BY <1>1, FS_CardinalityType
<1>4. Cardinality(keys \cup {id}) <= max
  BY <1>2, <1>3
<1>5. IsFiniteSet(keys2) /\ Cardinality(keys2) <= Cardinality(keys \cup {id})
  BY <1>2, FS_Subset
<1>6. Cardinality(keys2) \in Nat
  BY <1>5, FS_CardinalityType
<1>7. QED
  BY <1>2, <1>3, <1>4, <1>5, <1>6

\* A map that gets no key stays within its capacity (bpf_map_delete_elem).
LEMMA DeleteFits ==
  ASSUME NEW keys, keys \subseteq Tasks, NEW keys2, keys2 \subseteq keys,
         NEW max \in Nat, Cardinality(keys) <= max
  PROVE  Cardinality(keys2) <= max
<1>1. IsFiniteSet(keys) /\ IsFiniteSet(keys2) /\ Cardinality(keys2) <= Cardinality(keys)
  BY TasksAssumption, FS_Subset
<1>2. QED
  BY <1>1, FS_CardinalityType

-----------------------------------------------------------------------------
\* Empty maps and one process satisfy the invariant.
LEMMA InitIInv == Init => IInv
<1> SUFFICES ASSUME Init PROVE IInv
  OBVIOUS
<1>1. Keys(target, "none") = {} /\ Keys(args, None) = {}
  BY DEF Init, Keys
<1>2. TypeOK
  BY <1>1, NoneAssumption, CapacityAssumption, FS_EmptySet DEF Init, TypeOK, Keys
<1>3. SteadyArgs /\ ForkRaced /\ OpenNamed /\ ArgsReturned /\ MetricsExplained
  BY DEF Init, SteadyArgs, ForkRaced, OpenNamed, ArgsReturned, MetricsExplained
<1>4. QED
  BY <1>2, <1>3 DEF IInv

\* So does an insert of user space: it takes a free place or a key that is
\* there, and gives all the flags.
LEMMA ArmStep ==
  ASSUME IInv, NEW p \in Tasks, Arm(p)
  PROVE  IInv'
<1>1. Cardinality(Keys(target', "none")) <= MaxTargets
  <2>1. Keys(target', "none") \subseteq Keys(target, "none") \cup {p}
    BY DEF IInv, TypeOK, Arm, Keys
  <2>2. p \in Keys(target, "none") \/ Cardinality(Keys(target, "none")) < MaxTargets
    BY DEF Arm, TargetRoom, ShouldTrace, Keys
  <2>3. Keys(target, "none") \subseteq Tasks /\ Cardinality(Keys(target, "none")) <= MaxTargets
    BY DEF IInv, TypeOK, Keys
  <2>4. QED
    BY <2>1, <2>2, <2>3, UpdateFits, CapacityAssumption
<1>2. TypeOK'
  BY <1>1 DEF IInv, TypeOK, Arm, Silent, opens, Keys, Alive
<1>3. SteadyArgs'
  BY DEF IInv, SteadyArgs, Arm, opens
<1>4. ForkRaced'
  BY DEF IInv, TypeOK, ForkRaced, Arm, ShouldTrace
<1>5. OpenNamed'
  BY DEF OpenNamed, Arm, Silent
<1>6. ArgsReturned'
  BY DEF IInv, ArgsReturned, Arm, opens
<1>7. MetricsExplained'
  BY DEF IInv, TypeOK, MetricsExplained, Arm
<1>8. QED
  BY <1>2, <1>3, <1>4, <1>5, <1>6, <1>7 DEF IInv

\* So does a removal: the child of a fork under way is remembered, and nobody
\* inside an open of that process is steady any more.
LEMMA DisarmStep ==
  ASSUME IInv, NEW p \in Tasks, Disarm(p)
  PROVE  IInv'
<1>1. Cardinality(Keys(target', "none")) <= MaxTargets
  <2>1. Keys(target', "none") \subseteq Keys(target, "none")
    BY DEF IInv, TypeOK, Disarm, Keys
  <2>2. Keys(target, "none") \subseteq Tasks /\ Cardinality(Keys(target, "none")) <= MaxTargets
    BY DEF IInv, TypeOK, Keys
  <2>3. QED
    BY <2>1, <2>2, DeleteFits, CapacityAssumption
<1>2. TypeOK'
  BY <1>1 DEF IInv, TypeOK, Disarm, Silent, Keys, Alive
<1>3. SteadyArgs'
  BY DEF IInv, SteadyArgs, Disarm
<1>4. ForkRaced'
  BY DEF IInv, TypeOK, ForkRaced, Disarm, ShouldTrace
<1>5. OpenNamed'
  BY DEF OpenNamed, Disarm, Silent
<1>6. ArgsReturned'
  BY DEF IInv, ArgsReturned, Disarm
<1>7. MetricsExplained'
  BY DEF IInv, TypeOK, MetricsExplained, Disarm
<1>8. QED
  BY <1>2, <1>3, <1>4, <1>5, <1>6, <1>7 DEF IInv

\* So does the first look-up of a fork: the program goes on only for a task
\* that has a key.
LEMMA ForkBeginStep ==
  ASSUME IInv, NEW t \in Tasks, NEW u \in Tasks, ForkBegin(t, u)
  PROVE  IInv'
<1>1. PICK g \in {u, group[t]} : group' = [group EXCEPT ![u] = g]
  BY DEF ForkBegin
<1>2. group[t] # None /\ g # None /\ g \in Tasks
  BY NoneAssumption DEF IInv, TypeOK, ForkBegin, Running, Alive
<1>3. TypeOK'
  BY <1>1, <1>2 DEF IInv, TypeOK, ForkBegin, Running, Silent, opens, Keys, Alive
<1>4. SteadyArgs'
  BY DEF IInv, SteadyArgs, ForkBegin, opens
<1>5. ForkRaced'
  BY DEF IInv, TypeOK, ForkRaced, ForkBegin, SeenFork, ShouldTrace
<1>6. OpenNamed'
  BY DEF OpenNamed, ForkBegin, Silent
<1>7. ArgsReturned'
  BY DEF IInv, ArgsReturned, ForkBegin, opens
<1>8. MetricsExplained'
  BY DEF IInv, MetricsExplained, ForkBegin
<1>9. QED
  BY <1>3, <1>4, <1>5, <1>6, <1>7, <1>8 DEF IInv

\* So does the second look-up: the child gets what its parent has, and only the
\* metrics flag where the parent was removed meanwhile or is itself such a child.
LEMMA ForkInheritStep ==
  ASSUME IInv, NEW t \in Tasks, ForkInherit(t)
  PROVE  IInv'
<1>1. forking[t] \in Tasks
  BY DEF IInv, TypeOK, ForkInherit
<1>2. Inherited(t) \in {"metrics", "all"}
  BY DEF IInv, TypeOK, Inherited, ShouldTrace
<1>3. Inherited(t) = "metrics" => forking[t] \in raced'
  BY DEF IInv, TypeOK, ForkRaced, MetricsExplained, ForkInherit, Inherited, ShouldTrace
<1>4. \A x \in Tasks : target'[x] = target[x] \/ (x = forking[t] /\ target'[x] = Inherited(t))
  BY <1>1 DEF IInv, TypeOK, ForkInherit
<1>5. target' \in [Tasks -> {"none", "metrics", "all"}]
  BY <1>1, <1>2 DEF IInv, TypeOK, ForkInherit
<1>6. Cardinality(Keys(target', "none")) <= MaxTargets
  <2>1. CASE TargetRoom(forking[t])
    <3>1. Keys(target', "none") \subseteq Keys(target, "none") \cup {forking[t]}
      BY <1>4 DEF Keys
    <3>2. \/ forking[t] \in Keys(target, "none")
          \/ Cardinality(Keys(target, "none")) < MaxTargets
      BY <1>1, <2>1 DEF TargetRoom, ShouldTrace, Keys
    <3>3. Keys(target, "none") \subseteq Tasks /\ Cardinality(Keys(target, "none")) <= MaxTargets
      BY DEF IInv, TypeOK, Keys
    <3>4. QED
      BY <3>1, <3>2, <3>3, UpdateFits, CapacityAssumption
  <2>2. CASE ~TargetRoom(forking[t])
    BY <2>2 DEF IInv, TypeOK, ForkInherit
  <2>3. QED
    BY <2>1, <2>2
<1>7. TypeOK'
  BY <1>1, <1>5, <1>6 DEF IInv, TypeOK, ForkInherit, opens, Keys, Alive
<1>8. SteadyArgs'
  BY DEF IInv, SteadyArgs, ForkInherit, opens
<1>9. ForkRaced'
  BY <1>2, <1>4 DEF IInv, TypeOK, ForkRaced, ForkInherit, ShouldTrace
<1>10. OpenNamed'
  BY DEF OpenNamed, ForkInherit, Emit, Event
<1>11. ArgsReturned'
  BY DEF IInv, ArgsReturned, ForkInherit, opens
<1>12. MetricsExplained'
  BY <1>3, <1>4 DEF IInv, MetricsExplained, ForkInherit
<1>13. QED
  BY <1>7, <1>8, <1>9, <1>10, <1>11, <1>12 DEF IInv

\* So does an exit: only a task without an open and without a fork ends.
LEMMA ExitStep ==
  ASSUME IInv, NEW t \in Tasks, Exit(t)
  PROVE  IInv'
<1>1. TypeOK'
  BY DEF IInv, TypeOK, Exit, Running, opens, Keys, Alive
<1>2. SteadyArgs'
  BY DEF IInv, SteadyArgs, Exit, opens
<1>3. ForkRaced'
  BY DEF IInv, ForkRaced, Exit, ShouldTrace
<1>4. OpenNamed'
  BY DEF OpenNamed, Exit, Emit, Silent, Event
<1>5. ArgsReturned'
  BY DEF IInv, ArgsReturned, Exit, opens
<1>6. MetricsExplained'
  BY DEF IInv, MetricsExplained, Exit
<1>7. QED
  BY <1>1, <1>2, <1>3, <1>4, <1>5, <1>6 DEF IInv

\* The programs that only report change nothing but the event.
Reports(t) ==
  \/ Call(t)
  \/ Accept(t)
  \/ \E u \in Tasks : SignalGenerate(t, u)

\* So do the programs that only report.
LEMMA ReportStep ==
  ASSUME IInv, NEW t \in Tasks, Reports(t)
  PROVE  IInv'
<1>1. UNCHANGED <<group, target, forking, opens, raced>>
  BY DEF Reports, Call, Accept, SignalGenerate
<1>2. event' = None \/ event'.kind # "open"
  BY DEF Reports, Call, Accept, SignalGenerate, Emit, Silent, Event
<1>3. TypeOK'
  BY <1>1 DEF IInv, TypeOK, opens, Keys, Alive
<1>4. SteadyArgs' /\ ForkRaced'
  BY <1>1 DEF IInv, SteadyArgs, ForkRaced, opens, ShouldTrace
<1>5. OpenNamed'
  BY <1>2 DEF OpenNamed
<1>6. ArgsReturned' /\ MetricsExplained'
  BY <1>1 DEF IInv, ArgsReturned, MetricsExplained, opens
<1>7. QED
  BY <1>3, <1>4, <1>5, <1>6 DEF IInv

\* So does the entry of an open: what it finds in open_args is overwritten, and
\* what it cannot write was not there before.
LEMMA OpenEnterStep ==
  ASSUME IInv, NEW t \in Tasks, NEW path \in Paths, OpenEnter(t, path)
  PROVE  IInv'
<1>1. opening' = [opening EXCEPT ![t] = path] /\ opening[t] = None /\ path # None
  BY NoneAssumption DEF OpenEnter, Running
<1>2. \A x \in Tasks : x # t => args'[x] = args[x]
  BY DEF IInv, TypeOK, OpenEnter, Remembered
<1>3. args'[t] = path \/ args'[t] = args[t]
  BY DEF IInv, TypeOK, OpenEnter, Remembered
<1>4. args' \in [Tasks -> Paths \cup {None}]
  BY DEF IInv, TypeOK, OpenEnter, Remembered
<1>5. t \in steady' => args'[t] \in {None, path}
  <2>1. t \notin steady
    BY <1>1 DEF IInv, TypeOK, Keys
  <2>2. ASSUME ShouldTrace(group[t]), args' = Remembered(t, path)
        PROVE  args'[t] \in {None, path}
    BY <2>2 DEF IInv, TypeOK, Remembered, ArgsRoom
  <2>3. QED
    BY <2>1, <2>2 DEF OpenEnter
<1>6. Cardinality(Keys(args', None)) <= MaxArgs
  <2>1. CASE ShouldTrace(group[t]) /\ ArgsRoom(t)
    <3>1. Keys(args', None) \subseteq Keys(args, None) \cup {t}
      BY <1>2 DEF Keys
    <3>2. t \in Keys(args, None) \/ Cardinality(Keys(args, None)) < MaxArgs
      BY <2>1 DEF ArgsRoom, Keys
    <3>3. Keys(args, None) \subseteq Tasks /\ Cardinality(Keys(args, None)) <= MaxArgs
      BY DEF IInv, TypeOK, Keys
    <3>4. QED
      BY <3>1, <3>2, <3>3, UpdateFits, CapacityAssumption
  <2>2. CASE ~(ShouldTrace(group[t]) /\ ArgsRoom(t))
    BY <2>2 DEF IInv, TypeOK, OpenEnter, Remembered
  <2>3. QED
    BY <2>1, <2>2
<1>7. steady' \subseteq Keys(opening', None)
  BY <1>1 DEF IInv, TypeOK, OpenEnter, Keys
<1>8. TypeOK'
  <2>1. UNCHANGED <<group, target, forking, raced>> /\ forking[t] = None
        /\ interrupted' \subseteq Tasks
    BY DEF IInv, TypeOK, OpenEnter, Running
  <2>2. opening' \in [Tasks -> Paths \cup {None}]
    BY <1>1 DEF IInv, TypeOK
  <2>3. \A x \in Tasks : forking'[x] # None => opening'[x] = None /\ Alive(x)'
    BY <1>1, <2>1 DEF IInv, TypeOK, Alive
  <2>4. Keys(target, "none")' = Keys(target, "none") /\ steady' \subseteq Keys(opening', None)
    BY <1>7, <2>1 DEF Keys
  <2>5. QED
    BY <1>4, <1>6, <2>1, <2>2, <2>3, <2>4 DEF IInv, TypeOK, Keys
<1>9. SteadyArgs'
  BY <1>1, <1>2, <1>5 DEF IInv, TypeOK, SteadyArgs, OpenEnter, Keys
<1>10. ForkRaced'
  BY DEF IInv, ForkRaced, OpenEnter, ShouldTrace
<1>11. OpenNamed'
  BY DEF OpenNamed, OpenEnter, Silent
<1>12. ArgsReturned'
  <2>1. \A x \in Tasks : x # t => (x \in interrupted' <=> x \in interrupted)
    BY DEF OpenEnter
  <2>2. ASSUME ShouldTrace(group[t]), args' = Remembered(t, path)
        PROVE  args'[t] \in {None, path}
    BY <2>2 DEF IInv, TypeOK, Remembered, ArgsRoom
  <2>3. ASSUME args' = args, interrupted' = interrupted
        PROVE  args'[t] = None \/ t \in interrupted'
    BY <1>1, <2>3 DEF IInv, ArgsReturned
  <2>4. args'[t] \in {None, path} \/ t \in interrupted'
    BY <2>2, <2>3 DEF OpenEnter
  <2>5. opening'[t] = path /\ \A x \in Tasks : x # t => opening'[x] = opening[x]
    BY <1>1 DEF IInv, TypeOK
  <2>6. QED
    BY <1>2, <2>1, <2>4, <2>5 DEF IInv, ArgsReturned
<1>13. MetricsExplained'
  BY DEF IInv, MetricsExplained, OpenEnter
<1>14. QED
  BY <1>8, <1>9, <1>10, <1>11, <1>12, <1>13 DEF IInv

\* So does the return of an open: it reports what its own entry has left, and
\* leaves an entry behind only where it is no longer traced.
LEMMA OpenExitStep ==
  ASSUME IInv, NEW t \in Tasks, NEW ok \in BOOLEAN, OpenExit(t, ok)
  PROVE  IInv'
<1>1. args' = args \/ args' = [args EXCEPT ![t] = None]
  BY DEF OpenExit, Forgotten
<1>2. Cardinality(Keys(args', None)) <= MaxArgs
  <2>1. CASE args' = args
    BY <2>1 DEF IInv, TypeOK
  <2>2. CASE args' = [args EXCEPT ![t] = None]
    <3>1. Keys(args', None) \subseteq Keys(args, None)
      BY <2>2 DEF IInv, TypeOK, Keys
    <3>2. Keys(args, None) \subseteq Tasks /\ Cardinality(Keys(args, None)) <= MaxArgs
      BY DEF IInv, TypeOK, Keys
    <3>3. QED
      BY <3>1, <3>2, DeleteFits, CapacityAssumption
  <2>3. QED
    BY <1>1, <2>1, <2>2
<1>3. steady' \subseteq Keys(opening', None)
  BY DEF IInv, TypeOK, OpenExit, Keys
<1>4. interrupted' \subseteq Tasks
  BY DEF IInv, TypeOK, OpenExit
<1>5. TypeOK'
  BY <1>1, <1>2, <1>3, <1>4 DEF IInv, TypeOK, OpenExit, Keys, Alive
<1>6. SteadyArgs'
  BY <1>1 DEF IInv, TypeOK, SteadyArgs, OpenExit, Keys
<1>7. ForkRaced'
  BY DEF IInv, ForkRaced, OpenExit, ShouldTrace
<1>8. OpenNamed'
  <2>1. CASE event' = None
    BY <2>1 DEF OpenNamed
  <2>2. CASE event' = OpenEvent(t) /\ args[t] # None
    <3>1. event'.path = args[t] /\ event'.truly = opening[t] /\ event'.steady = (t \in steady)
      BY <2>2 DEF OpenEvent, Event
    <3>2. QED
      BY <2>2, <3>1 DEF IInv, SteadyArgs, OpenNamed
  <2>3. QED
    BY <2>1, <2>2 DEF OpenExit, Emit, Silent
<1>9. ArgsReturned'
  BY <1>1 DEF IInv, TypeOK, ArgsReturned, OpenExit, Forgotten
<1>10. MetricsExplained'
  BY DEF IInv, MetricsExplained, OpenExit
<1>11. QED
  BY <1>5, <1>6, <1>7, <1>8, <1>9, <1>10 DEF IInv

-----------------------------------------------------------------------------
\* The invariant holds in every reachable state, whatever user space removes
\* between two map operations of a program.
THEOREM Invariance == Spec => []IInv
<1>1. Init => IInv
  BY InitIInv
<1>2. IInv /\ [Next]_vars => IInv'
  <2> SUFFICES ASSUME IInv, [Next]_vars PROVE IInv'
    OBVIOUS
  <2>1. ASSUME NEW p \in Tasks, Arm(p) PROVE IInv'
    BY <2>1, ArmStep
  <2>2. ASSUME NEW p \in Tasks, Disarm(p) PROVE IInv'
    BY <2>2, DisarmStep
  <2>3. ASSUME NEW t \in Tasks, Task(t) PROVE IInv'
    BY <2>3, ForkBeginStep, ForkInheritStep, ExitStep, ReportStep, OpenEnterStep, OpenExitStep
       DEF Task, Reports
  <2>4. CASE UNCHANGED vars
    BY <2>4 DEF IInv, TypeOK, SteadyArgs, ForkRaced, OpenNamed, ArgsReturned, MetricsExplained,
       vars, opens, Keys, Alive, ShouldTrace
  <2>5. QED
    BY <2>1, <2>2, <2>3, <2>4 DEF Next, Userspace
<1>3. QED
  BY <1>1, <1>2, PTL DEF Spec

\* The maps keep to their capacities, and states have their shapes.
THEOREM TypeCorrect == Spec => []TypeOK
BY Invariance, PTL DEF IInv

\* An open of a process that is armed at its entry and not disarmed before its
\* return is reported with the path it opened, if it is reported.
THEOREM OpensNamed == Spec => []OpenNamed
BY Invariance, PTL DEF IInv

\* open_args keeps an entry past its call only after an interrupted trace, until a
\* later open of that task is seen.
THEOREM ArgsGivenBack == Spec => []ArgsReturned
BY Invariance, PTL DEF IInv

\* Only a child whose fork raced with a removal, or its descendants, is traced
\* with less than its parent.
THEOREM MetricsFromRaces == Spec => []MetricsExplained
BY Invariance, PTL DEF IInv
=============================================================================
