----------------------------- MODULE KernelTrace -----------------------------
(***************************************************************************)
(* The BPF programs that decide what of a process is reported              *)
(* (kernelspace/x86_64/beemon.bpf.c).  target_pids holds the ids to trace; *)
(* user space inserts and removes them (src/bpf/maps.rs, called from       *)
(* src/stream.rs), and the fork program adds the child of a traced task.   *)
(* An open is reported at its return, with the path its entry has left in  *)
(* open_args.                                                              *)
(*                                                                         *)
(* A program runs in the context of the task that triggers it; user space  *)
(* may change target_pids between two of its map operations, which matters *)
(* to the fork program alone.  Every program drops its event when the ring *)
(* buffer has no room.                                                     *)
(***************************************************************************)
EXTENDS Integers, FiniteSets

CONSTANTS
  Tasks,      \* task ids; the id of a process is that of its first task
  Paths,      \* names of files
  None,       \* no process, no path, no event
  MaxTargets, \* capacity of target_pids
  MaxArgs     \* capacity of open_args

ASSUME NoneAssumption == None \notin Tasks /\ None \notin Paths
ASSUME TasksAssumption == IsFiniteSet(Tasks)
ASSUME CapacityAssumption == MaxTargets \in Nat /\ MaxArgs \in Nat

VARIABLES
  group,        \* task -> its process (tgid), or None
  target,       \* target_pids: id -> its flags, or "none" without a key
  forking,      \* task -> the child its fork program is adding, or None
  opening,      \* task -> the path it is opening, or None
  args,         \* open_args: task -> path, or None
  steady,       \* history: tasks traced ever since their open began
  interrupted,  \* history: tasks whose entry in open_args outlived an open
  raced,        \* history: see MetricsExplained
  event         \* the event the last step has emitted, or None

opens == <<opening, args, steady, interrupted>>
vars == <<group, target, forking, opens, raced, event>>

Init ==
  /\ \E p \in Tasks : group = [t \in Tasks |-> IF t = p THEN p ELSE None]
  /\ target = [t \in Tasks |-> "none"]
  /\ forking = [t \in Tasks |-> None]
  /\ opening = [t \in Tasks |-> None]
  /\ args = [t \in Tasks |-> None]
  /\ steady = {}
  /\ interrupted = {}
  /\ raced = {}
  /\ event = None

-----------------------------------------------------------------------------
Alive(t) == group[t] # None

\* A task that can make a system call: a child runs after the fork program of
\* its parent has ended.
Running(t) ==
  /\ Alive(t)
  /\ forking[t] = None
  /\ opening[t] = None
  /\ \A u \in Tasks : forking[u] # t

\* An id is used again once neither its task nor its process is left.
Unused(t) == \A u \in Tasks : u = t \/ group[u] = t => group[u] = None

\* should_trace: both flag values have TRACE_FLAG_METRICS.
ShouldTrace(id) == target[id] # "none"

Keys(map, none) == {t \in Tasks : map[t] # none}

\* Mutant: target_pids takes any number of keys.
TargetRoom_Always(id) == TRUE

TargetRoom(id) == ShouldTrace(id) \/ Cardinality(Keys(target, "none")) < MaxTargets

ArgsRoom(t) == args[t] # None \/ Cardinality(Keys(args, None)) < MaxArgs

\* An event on its way to user space, for the process `tgid' (convert.rs:23): of
\* an open the path it names, the path that was opened, and whether the process
\* was traced throughout.
Event(kind, tgid) == [kind |-> kind, tgid |-> tgid, path |-> None, truly |-> None, steady |-> TRUE]

OpenEvent(t) ==
  [Event("open", group[t]) EXCEPT !.path = args[t], !.truly = opening[t], !.steady = t \in steady]

\* bpf_ringbuf_reserve finds room or not.
Emit(e) == event' \in {e, None}

Silent == event' = None

\* should_trace_events: TRACE_FLAG_EVENTS is set.
ShouldTraceEvents(id) == target[id] = "all"

-----------------------------------------------------------------------------
(* User space.                                                             *)

\* OwnedTargetPids::insert with TRACE_FLAG_ALL.
Arm(p) ==
  /\ TargetRoom(p)
  /\ target' = [target EXCEPT ![p] = "all"]
  /\ Silent
  /\ UNCHANGED <<group, forking, opens, raced>>

\* OwnedTargetPids::remove.  Who is inside an open is no longer traced
\* throughout.
Disarm(p) ==
  /\ ShouldTrace(p)
  /\ target' = [target EXCEPT ![p] = "none"]
  /\ steady' = {t \in steady : group[t] # p}
  /\ raced' = raced \cup ({forking[p]} \ {None})
  /\ Silent
  /\ UNCHANGED <<group, forking, opening, args, interrupted>>

-----------------------------------------------------------------------------
(* Forks.                                                                  *)

\* sched_process_fork: `parent_pid' is the id of the forking task.
SeenFork(t) == ShouldTrace(t)

\* A task makes a process or a thread; the program looks the task up.
ForkBegin(t, u) ==
  /\ Running(t)
  /\ Unused(u)
  /\ \E g \in {u, group[t]} : group' = [group EXCEPT ![u] = g]
  /\ forking' = [forking EXCEPT ![t] = IF SeenFork(t) THEN u ELSE None]
  /\ Silent
  /\ UNCHANGED <<target, opens, raced>>

\* Mutant: the child is added with what its parent is not.
Inherited_Metrics(t) == "metrics"

\* The parent's flags, or TRACE_FLAG_METRICS if user space has removed it since.
Inherited(t) == IF ShouldTrace(t) THEN target[t] ELSE "metrics"

\* The child gets its flags; then the event.
ForkInherit(t) ==
  /\ forking[t] # None
  /\ target' = IF TargetRoom(forking[t]) THEN [target EXCEPT ![forking[t]] = Inherited(t)]
               ELSE target
  /\ forking' = [forking EXCEPT ![t] = None]
  /\ raced' = IF t \in raced THEN raced \cup {forking[t]} ELSE raced
  /\ Emit(Event("fork", t))
  /\ UNCHANGED <<group, opens>>

\* sched_process_exit: target_pids keeps the id.
Exit(t) ==
  /\ Running(t)
  /\ group' = [group EXCEPT ![t] = None]
  /\ IF ShouldTrace(group[t]) THEN Emit(Event("exit", group[t])) ELSE Silent
  /\ UNCHANGED <<target, forking, opens, raced>>

-----------------------------------------------------------------------------
(* Events without state.                                                   *)

\* The programs that begin with RESERVE_EVENT: system calls at their entry,
\* tcp_v4_connect, and a signal as it is delivered.
Call(t) ==
  /\ Running(t)
  /\ IF ShouldTraceEvents(group[t]) THEN Emit(Event("call", group[t])) ELSE Silent
  /\ UNCHANGED <<group, target, forking, opens, raced>>

\* The return of inet_csk_accept with a socket asks for either flag.
Accept(t) ==
  /\ Running(t)
  /\ IF ShouldTrace(group[t]) THEN Emit(Event("accept", group[t])) ELSE Silent
  /\ UNCHANGED <<group, target, forking, opens, raced>>

\* signal_generate: t sends a signal to the task u, and the event is for u.
SignalGenerate(t, u) ==
  /\ Running(t)
  /\ Alive(u)
  /\ IF ShouldTraceEvents(u) THEN Emit(Event("signal", u)) ELSE Silent
  /\ UNCHANGED <<group, target, forking, opens, raced>>

-----------------------------------------------------------------------------
(* Opens.                                                                  *)

\* Mutant: an entry that is there already stays (BPF_NOEXIST).
Remembered_First(t, path) ==
  IF ArgsRoom(t) /\ args[t] = None THEN [args EXCEPT ![t] = path] ELSE args

\* bpf_map_update_elem(&open_args, ..., BPF_ANY).
Remembered(t, path) == IF ArgsRoom(t) THEN [args EXCEPT ![t] = path] ELSE args

\* sys_enter_open, sys_enter_openat.
OpenEnter(t, path) ==
  /\ Running(t)
  /\ opening' = [opening EXCEPT ![t] = path]
  /\ \/ /\ ShouldTrace(group[t])
        /\ args' = Remembered(t, path)
        /\ steady' = steady \cup {t}
        /\ interrupted' = interrupted \ {t}
     \/ /\ ~ShouldTrace(group[t])
        /\ UNCHANGED <<args, steady, interrupted>>
  /\ Silent
  /\ UNCHANGED <<group, target, forking, raced>>

\* Mutant: only a successful open gives its entry back.
Forgotten_OnSuccess(t, ok) == IF ok THEN [args EXCEPT ![t] = None] ELSE args

\* bpf_map_delete_elem(&open_args, ...).
Forgotten(t, ok) == [args EXCEPT ![t] = None]

\* sys_exit_open, sys_exit_openat: without a key in either map nothing happens;
\* only a successful open is reported.
OpenExit(t, ok) ==
  /\ opening[t] # None
  /\ opening' = [opening EXCEPT ![t] = None]
  /\ steady' = steady \ {t}
  /\ \/ /\ ShouldTrace(group[t])
        /\ args[t] # None
        /\ args' = Forgotten(t, ok)
        /\ IF ok THEN Emit(OpenEvent(t)) ELSE Silent
        /\ interrupted' = interrupted \ {t}
     \/ /\ ShouldTrace(group[t]) => args[t] = None
        /\ interrupted' = IF args[t] = None THEN interrupted ELSE interrupted \cup {t}
        /\ Silent
        /\ UNCHANGED args
  /\ UNCHANGED <<group, target, forking, raced>>

-----------------------------------------------------------------------------
Userspace == \E p \in Tasks : Arm(p) \/ Disarm(p)

Task(t) ==
  \/ \E u \in Tasks : ForkBegin(t, u)
  \/ ForkInherit(t)
  \/ Call(t) \/ Accept(t) \/ Exit(t)
  \/ \E u \in Tasks : SignalGenerate(t, u)
  \/ \E path \in Paths : OpenEnter(t, path)
  \/ \E ok \in BOOLEAN : OpenExit(t, ok)

Next == Userspace \/ \E t \in Tasks : Task(t)

Spec == Init /\ [][Next]_vars

-----------------------------------------------------------------------------
(* Properties.                                                             *)

\* Shapes; the maps hold no more than they can, and a task reports a fork or
\* makes a call, not both.
TypeOK ==
  /\ group \in [Tasks -> Tasks \cup {None}]
  /\ target \in [Tasks -> {"none", "metrics", "all"}]
  /\ forking \in [Tasks -> Tasks \cup {None}]
  /\ opening \in [Tasks -> Paths \cup {None}]
  /\ args \in [Tasks -> Paths \cup {None}]
  /\ steady \subseteq Keys(opening, None)
  /\ interrupted \subseteq Tasks /\ raced \subseteq Tasks
  /\ Cardinality(Keys(target, "none")) <= MaxTargets
  /\ Cardinality(Keys(args, None)) <= MaxArgs
  /\ \A t \in Tasks : forking[t] # None => opening[t] = None /\ Alive(t)

\* The open of a process that was traced from its entry to its return is
\* reported with the path it opened, whatever earlier opens of that task have
\* left in open_args (updated at every entry, bpf.c:538).  Not so otherwise: disarmed
\* inside an open and armed again inside the next one, whose entry was not seen, a
\* process has the second open reported with the path of the first.
OpenNamed ==
  event # None => (event.kind = "open" /\ event.steady => event.path = event.truly)

\* open_args keeps an entry past its call only where the process was disarmed
\* in between, and until a later open of that task is seen: calls that fail give
\* theirs back too (bpf.c:568).
ArgsReturned == \A t \in Tasks : args[t] # None => args[t] = opening[t] \/ t \in interrupted

\* A key has less than the full flags only where user space has removed a parent
\* between the two look-ups of its fork, its own or one that it descends from: a
\* child of a process that stays armed is traced as its parent is (bpf.c:431-435).
MetricsExplained == \A t \in Tasks : target[t] = "metrics" => t \in raced
=============================================================================
