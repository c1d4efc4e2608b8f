---------------------------- MODULE SnapshotCaches ----------------------------
(***************************************************************************)
(* What the daemon knows of the host's processes (src/snapshot): the       *)
(* scanner walks /proc every period and publishes a list; proc_cache keeps *)
(* each process's stable fields (its namespaces here) for a TTL; the       *)
(* namespace tree is an index over a copy of proc_cache, rebuilt when it   *)
(* is stale; the ring-buffer task invalidates both caches when the kernel  *)
(* reports an exit, a setns or an unshare.  It reports those of processes  *)
(* that are traced, with the flag for that event, while the ring buffer    *)
(* has room.                                                               *)
(*                                                                         *)
(* The scanner holds the proc_cache lock for its whole walk and gives it   *)
(* back before it looks at the tree; the ring-buffer task takes the two    *)
(* locks one after the other.  The kernel changes at any time.             *)
(***************************************************************************)
EXTENDS Integers, Sequences

CONSTANTS
  Pids,         \* process ids
  Namespaces,   \* namespace inodes (of one type)
  None,         \* no process, no entry, nothing read
  MaxChanges    \* bound on what happens on the host: births, exits, failing walks...

ASSUME ChangesAssumption == MaxChanges \in Nat
ASSUME NoneAssumption ==
  None \notin Namespaces /\ None \notin [state : {"alive", "zombie"}, ns : Namespaces]

VARIABLES
  world,      \* the kernel's processes: alive or zombie, namespace
  entering,   \* the namespace a process's setns/unshare is about to enter
  changes,    \* changes of the host so far
  ring,       \* events in the ring buffer
  treeDue,    \* the ring-buffer task has invalidated proc_cache, not yet the tree
  cache,      \* proc_cache: PID -> entry
  tree,       \* PID -> the namespace it is filed under in the tree
  treeFresh,  \* the tree is built and within its TTL
  scan,       \* where the scanner is
  todo,       \* PIDs the walk has still to visit
  seen,       \* alive_pids
  list,       \* the processes of the walk so far
  copy,       \* the scanner's copy of proc_cache
  snap,       \* the published snapshot
  absent,     \* history: PIDs without a process since the walk began
  doubt       \* history: where a PID's namespace may be old, with no event to come

kernelVars == <<world, entering, changes, ring, absent>>
scanVars == <<scan, todo, seen, list, copy, snap>>
treeVars == <<tree, treeFresh>>
vars == <<kernelVars, treeDue, cache, treeVars, scanVars, doubt>>

Empty == [p \in Pids |-> None]
Alive(p) == world[p] # None /\ world[p].state = "alive"

\* The ring holds an event of p's setns or unshare.
Announced(p) == \E i \in 1..Len(ring) : ring[i] = [pid |-> p, kind |-> "ns"]

\* All that is known of the PIDs of s may be old: proc_cache's entry, the copy's
\* and the tree's.
Doubted(s) == [place \in DOMAIN doubt |-> doubt[place] \cup s]

-----------------------------------------------------------------------------
Init ==
  /\ world = Empty /\ entering = Empty
  /\ changes = 0
  /\ ring = <<>>
  /\ treeDue = FALSE
  /\ cache = Empty
  /\ tree = Empty /\ treeFresh = FALSE
  /\ scan = "idle"
  /\ todo = {} /\ seen = {} /\ list = Empty /\ copy = Empty
  /\ snap = Empty
  /\ absent = Pids
  /\ doubt = [cache |-> {}, copy |-> {}, tree |-> {}]

-----------------------------------------------------------------------------
(* The host.                                                               *)

Change == changes < MaxChanges /\ changes' = changes + 1

\* An event goes into the ring buffer, or nowhere: the process has no key in
\* target_pids, its key has not the flag, or the ring buffer is full.
Emit(p, kind) ==
  \/ ring' = Append(ring, [pid |-> p, kind |-> kind])
  \/ UNCHANGED ring

DaemonUnchanged == UNCHANGED <<treeDue, cache, treeVars, scanVars>>

HostUnchanged == DaemonUnchanged /\ UNCHANGED doubt

\* A process starts, under a PID that may have been used before.
Born(p) ==
  /\ Change
  /\ world[p] = None
  /\ \E n \in Namespaces : world' = [world EXCEPT ![p] = [state |-> "alive", ns |-> n]]
  /\ absent' = absent \ {p}
  /\ doubt' = Doubted({p})
  /\ UNCHANGED <<entering, ring>>
  /\ DaemonUnchanged

\* sched_process_exit: the process is a zombie, /proc still shows it.
Exit(p) ==
  /\ Change
  /\ Alive(p)
  /\ world' = [world EXCEPT ![p].state = "zombie"]
  /\ entering' = [entering EXCEPT ![p] = None]
  /\ Emit(p, "exit")
  /\ UNCHANGED absent
  /\ HostUnchanged

\* The zombie is reaped.
Reap(p) ==
  /\ world[p] # None
  /\ world[p].state = "zombie"
  /\ world' = [world EXCEPT ![p] = None]
  /\ UNCHANGED <<entering, changes, ring, absent>>
  /\ HostUnchanged

\* The exit of one thread of a process that lives on is reported alike.
ThreadExit(p) ==
  /\ Change
  /\ Alive(p)
  /\ Emit(p, "exit")
  /\ UNCHANGED <<world, entering, absent>>
  /\ HostUnchanged

\* The entry of setns or unshare: the event is emitted, nothing has changed.
SetnsEnter(p) ==
  /\ Change
  /\ Alive(p)
  /\ entering[p] = None
  /\ \E n \in Namespaces \ {world[p].ns} : entering' = [entering EXCEPT ![p] = n]
  /\ Emit(p, "ns")
  /\ UNCHANGED <<world, absent>>
  /\ HostUnchanged

\* The system call does its work.
SetnsEffect(p) ==
  /\ entering[p] # None
  /\ world' = [world EXCEPT ![p].ns = entering[p]]
  /\ entering' = [entering EXCEPT ![p] = None]
  /\ doubt' = IF Announced(p) THEN doubt ELSE Doubted({p})
  /\ UNCHANGED <<changes, ring, absent>>
  /\ DaemonUnchanged

-----------------------------------------------------------------------------
(* The ring-buffer task: CacheInvalidators::on_event.                      *)

\* proc_cache is locked for the whole of a walk.
CacheLockFree == scan # "walk"

\* ProcCache::invalidate.
InvalidateEntry(p) == [cache EXCEPT ![p] = None]

\* Mutant: the tree waits for its TTL.
TreeAffected_Never(kind) == FALSE

\* Only setns and unshare reach the tree.
TreeAffected(kind) == kind = "ns"

\* Take an event and invalidate its process's entry.
OnEvent ==
  /\ ring # <<>>
  /\ ~treeDue
  /\ CacheLockFree
  /\ cache' = InvalidateEntry(Head(ring).pid)
  /\ treeDue' = TreeAffected(Head(ring).kind)
  /\ ring' = Tail(ring)
  /\ doubt' = IF scan = "index" /\ Head(ring).kind = "ns"
               THEN [doubt EXCEPT !.copy = @ \cup {Head(ring).pid}] ELSE doubt
  /\ UNCHANGED <<world, entering, changes, absent, treeVars, scanVars>>

\* Then invalidate the tree.
OnEventTree ==
  /\ treeDue
  /\ treeDue' = FALSE
  /\ treeFresh' = FALSE
  /\ UNCHANGED <<kernelVars, cache, tree, scanVars, doubt>>

-----------------------------------------------------------------------------
(* Time.                                                                   *)

ExpireEntry(p) ==
  /\ cache[p] # None
  /\ cache[p].fresh
  /\ cache' = [cache EXCEPT ![p].fresh = FALSE]
  /\ UNCHANGED <<kernelVars, treeDue, treeVars, scanVars, doubt>>

ExpireTree ==
  /\ treeFresh
  /\ treeFresh' = FALSE
  /\ UNCHANGED <<kernelVars, treeDue, cache, tree, scanVars, doubt>>

-----------------------------------------------------------------------------
(* The scanner.                                                            *)

ScanUnchanged == UNCHANGED <<world, entering, ring, treeDue>>

\* Tick: /proc can be read; take the locks and walk.
ScanStart ==
  /\ scan = "idle"
  /\ scan' = "walk"
  /\ todo' = Pids
  /\ seen' = {}
  /\ list' = Empty
  /\ absent' = {p \in Pids : world[p] = None}
  /\ UNCHANGED <<changes, cache, treeVars, doubt, copy, snap>>
  /\ ScanUnchanged

\* Tick: all_processes() fails; an empty list is returned, and published.
ScanFail ==
  /\ Change
  /\ scan = "idle"
  /\ snap' = Empty
  /\ UNCHANGED <<absent, cache, treeVars, doubt, scan, todo, seen, list, copy>>
  /\ ScanUnchanged

\* read_light finds nothing: the PID is skipped.
VisitNone(p) ==
  /\ scan = "walk"
  /\ p \in todo
  /\ world[p] = None
  /\ todo' = todo \ {p}
  /\ UNCHANGED <<absent, changes, cache, treeVars, doubt, scan, seen, list, copy, snap>>
  /\ ScanUnchanged

\* Mutant: an entry within its TTL is never looked at again.
NeedsReload_Never(p) == cache[p] = None

\* get_or_load: the entry is missing or older than the TTL.
NeedsReload(p) == cache[p] # None => ~cache[p].fresh

\* load_entry: a zombie's ns links cannot be read, which is no error.
Loaded(p) ==
  [ns |-> IF Alive(p) THEN world[p].ns ELSE None, fresh |-> TRUE]

\* get_or_load and the list entry made from it.
Visit(p) ==
  /\ scan = "walk"
  /\ p \in todo
  /\ world[p] # None
  /\ todo' = todo \ {p}
  /\ seen' = seen \cup {p}
  /\ cache' = IF NeedsReload(p) THEN [cache EXCEPT ![p] = Loaded(p)] ELSE cache
  /\ list' = [list EXCEPT ![p] = [ns |-> cache'[p].ns]]
  /\ doubt' = IF NeedsReload(p) THEN [doubt EXCEPT !.cache = @ \ {p}] ELSE doubt
  /\ UNCHANGED <<absent, changes, treeVars, scan, copy, snap>>
  /\ ScanUnchanged

\* A zombie is reaped between the scanner's own read and load_entry's: the
\* entry goes, the process is listed with nothing but its light fields.
VisitVanishing(p) ==
  /\ scan = "walk"
  /\ p \in todo
  /\ world[p] # None
  /\ world[p].state = "zombie"
  /\ NeedsReload(p)
  /\ world' = [world EXCEPT ![p] = None]
  /\ todo' = todo \ {p}
  /\ seen' = seen \cup {p}
  /\ cache' = InvalidateEntry(p)
  /\ list' = [list EXCEPT ![p] = [ns |-> None]]
  /\ UNCHANGED <<entering, ring, treeDue, absent, changes, treeVars, doubt, scan, copy, snap>>

\* Mutant: nothing is swept.
Swept_Not == cache

\* ProcCache::sweep.
Swept == [p \in Pids |-> IF p \in seen THEN cache[p] ELSE None]

\* The walk is over: sweep, copy, give the locks back.
WalkEnd ==
  /\ scan = "walk"
  /\ todo = {}
  /\ scan' = "index"
  /\ cache' = Swept
  /\ copy' = Swept
  /\ doubt' = [doubt EXCEPT !.cache = @ \cap seen, !.copy = doubt.cache \cap seen]
  /\ UNCHANGED <<absent, changes, treeVars, todo, seen, list, snap>>
  /\ ScanUnchanged

\* Mutant: the copy outlives the rebuild.
CopyAfter_Kept == copy

\* The copy is given back with the rebuild.
CopyAfter == Empty

Rebuilt == [p \in Pids |-> IF copy[p] = None THEN None ELSE copy[p].ns]

\* A stale tree is rebuilt from the copy.
Index ==
  /\ scan = "index"
  /\ scan' = "publish"
  /\ tree' = IF treeFresh THEN tree ELSE Rebuilt
  /\ doubt' = IF treeFresh THEN doubt ELSE [doubt EXCEPT !.tree = doubt.copy]
  /\ treeFresh' = TRUE
  /\ copy' = CopyAfter
  /\ UNCHANGED <<absent, changes, cache, todo, seen, list, snap>>
  /\ ScanUnchanged

\* The snapshot is replaced.
Publish ==
  /\ scan = "publish"
  /\ scan' = "idle"
  /\ snap' = list
  /\ UNCHANGED <<absent, changes, cache, treeVars, doubt, todo, seen, list, copy>>
  /\ ScanUnchanged

-----------------------------------------------------------------------------
Host == \E p \in Pids : \/ Born(p) \/ Exit(p) \/ Reap(p)
                        \/ ThreadExit(p) \/ SetnsEnter(p) \/ SetnsEffect(p)

Ringbuf == OnEvent \/ OnEventTree

Time == ExpireTree \/ \E p \in Pids : ExpireEntry(p)

Scanner ==
  \/ ScanStart \/ ScanFail
  \/ \E p \in Pids : VisitNone(p) \/ Visit(p) \/ VisitVanishing(p)
  \/ WalkEnd \/ Index \/ Publish

Next == Host \/ Ringbuf \/ Time \/ Scanner

Spec == Init /\ [][Next]_vars

\* The scanner ticks and walks, a TTL runs out, a system call returns, the
\* ring-buffer task is scheduled.  It gets the proc_cache lock in the end: the
\* scanner sleeps between two walks.
Fairness ==
  /\ WF_vars(ScanStart) /\ WF_vars(WalkEnd) /\ WF_vars(Index) /\ WF_vars(Publish)
  /\ SF_vars(OnEvent) /\ WF_vars(OnEventTree) /\ WF_vars(ExpireTree)
  /\ \A p \in Pids : /\ WF_vars(VisitNone(p) \/ Visit(p))
                     /\ WF_vars(ExpireEntry(p))
                     /\ WF_vars(SetnsEffect(p))

FairSpec == Spec /\ Fairness

-----------------------------------------------------------------------------
(* Properties.                                                             *)

Entry == [ns : Namespaces \cup {None}, fresh : BOOLEAN]
Item == [ns : Namespaces \cup {None}]

\* Shapes; the copy lives from the end of a walk to the rebuild.
TypeOK ==
  /\ \A p \in Pids :
       /\ world[p] = None \/ world[p] \in [state : {"alive", "zombie"}, ns : Namespaces]
       /\ entering[p] \in Namespaces \cup {None}
       /\ entering[p] # None => Alive(p)
       /\ cache[p] = None \/ cache[p] \in Entry
       /\ list[p] = None \/ list[p] \in Item
       /\ snap[p] = None \/ snap[p] \in Item
       /\ copy[p] # None => scan = "index"
  /\ changes \in 0..MaxChanges
  /\ tree \in [Pids -> Namespaces \cup {None}]
  /\ treeDue \in BOOLEAN /\ treeFresh \in BOOLEAN
  /\ scan \in {"idle", "walk", "index", "publish"}
  /\ todo \subseteq Pids /\ seen \subseteq Pids /\ absent \subseteq Pids
  /\ doubt \in [cache : SUBSET Pids, copy : SUBSET Pids, tree : SUBSET Pids]

\* A PID without a process since the last walk began is in no cache and in no
\* published list, whatever exits, events and reloads went on (sweep and
\* invalidate, proc_cache.rs:81-89; the list, scanner.rs:123-183).
AbsentUnlisted ==
  scan # "walk" => \A p \in absent : cache[p] = None /\ (scan = "idle" => snap[p] = None)

\* The published list and the tree show the host as it is.
Current ==
  \A p \in Pids :
    /\ world[p] = None => snap[p] = None /\ tree[p] = None
    /\ Alive(p) => /\ snap[p] # None /\ snap[p].ns = world[p].ns
                   /\ tree[p] = world[p].ns

\* Once the host stops changing, the list and the tree catch up with it and
\* stay so: no interleaving of walk, rebuild, invalidation and TTL leaves a
\* wrong namespace behind for ever.
EventuallyCurrent == <>[]Current

\* A fresh tree files a process none of whose events is still to be dealt with
\* where it is: a change that the kernel reports marks the tree ("evicted promptly
\* on setns / unshare", mod.rs:22-24).  There are three exceptions (`doubt').
\* When the system call did its work no event of it was in the ring: the event,
\* emitted on entry to the call, had been dealt with before, or there was none,
\* the process being untraced, its key without the flag or the ring buffer full.
\* The event was dealt with between the scanner's copy of proc_cache and the
\* rebuild from it.  The PID is another process's now, of whose exit the tree is
\* not told.  Each ends with the first rebuild from an entry loaded since.
TreeExplained ==
  \A p \in Pids \ doubt.tree :
     treeFresh /\ ~treeDue /\ Alive(p) /\ ~Announced(p)
        => tree[p] \in {world[p].ns, None}
=============================================================================
