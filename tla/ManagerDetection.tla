-------------------------- MODULE ManagerDetection --------------------------
(***************************************************************************)
(* Which process manager a process belongs to (src/snapshot/manager.rs) as *)
(* the scanner finds it: proc_cache loads an entry, and unless the former  *)
(* entry names a manager detect_manager climbs from parent to parent, a    *)
(* process at a time, through the cached entries first and /proc where     *)
(* there is none.  Meanwhile processes start, exec and exit, their         *)
(* children are adopted, and PIDs are used again.                          *)
(*                                                                         *)
(* The scanner holds the proc_cache lock for its whole pass.  A process    *)
(* exits and is reaped in one step: zombies are in SnapshotCaches.         *)
(***************************************************************************)
EXTENDS Naturals, FiniteSets

CONSTANTS
  Pids,       \* process ids; 1 is init
  InitComm,   \* the command name of init
  Comms,      \* the command names that processes exec
  None,       \* no process, no entry, no manager
  MaxChanges  \* bound on what happens on the host

ASSUME PidsAssumption == 1 \in Pids /\ Pids \subseteq Nat \ {0}
ASSUME NoneAssumption == None \notin [comm : Comms \cup {InitComm}, ppid : Pids \cup {0}]
ASSUME ChangesAssumption == MaxChanges \in Nat

VARIABLES
  world,    \* the host's processes: command and parent
  changes,  \* what has happened on the host so far
  cache,    \* entries of proc_cache
  scanning, \* the scanner is in a pass
  todo,     \* PIDs the pass has still to visit
  seen,     \* alive_pids
  walk,     \* the load_entry under way, or None (calm is history)
  sure      \* history: see ManagerNearest

hostVars == <<world, changes>>
passVars == <<scanning, todo, seen>>
vars == <<hostVars, cache, passVars, walk, sure>>

-----------------------------------------------------------------------------
(* The reference: what the managers of a process are in a tree of          *)
(* processes, without a walk.                                              *)

Alive(w) == {p \in Pids : w[p] # None}

\* The ancestors of p: all that is in every set with p's parent and the parents
\* of its members.
Above(w, p) ==
  {q \in Alive(w) : \A S \in SUBSET Alive(w) :
     /\ w[p].ppid # 0 => w[p].ppid \in S
     /\ \A r \in S : w[r].ppid # 0 => w[r].ppid \in S
     => q \in S}

\* manager.rs, the names it knows.
ManagerNamed(comm) ==
  CASE comm = "systemd" -> "systemd"
    [] comm \in {"containerd", "containerd-shim"} -> "containerd"
    [] comm = "dockerd" -> "dockerd"
    [] comm = "podman" -> "podman"
    [] comm = "crio" -> "crio"
    [] comm = "conmon" -> "conmon"
    [] OTHER -> None

Managers(w, p) == {q \in Above(w, p) : ManagerNamed(w[q].comm) # None}

\* The one of some of a process's ancestors that the others are above.
First(w, S) == CHOOSE q \in S : \A r \in S : r = q \/ r \in Above(w, q)

NearestOf(w, S) == IF S = {} THEN None ELSE ManagerNamed(w[First(w, S)].comm)

\* "The nearest ancestor process manager (systemd, containerd, etc.)"
\* (proc_cache.rs:35, beemon.proto:121).
Nearest(w, p) == NearestOf(w, Managers(w, p))

\* Where the code does not give that one: it is a systemd, and not p's parent
\* (manager.rs:71).
SystemdAway(w, p) ==
  /\ Managers(w, p) # {}
  /\ LET q == First(w, Managers(w, p)) IN w[q].comm = "systemd" /\ q # w[p].ppid

\* The nearest manager, but where it is such a systemd the nearest of the others.
Detected(w, p) ==
  IF SystemdAway(w, p)
  THEN NearestOf(w, {q \in Managers(w, p) : w[q].comm # "systemd"})
  ELSE Nearest(w, p)

Process == [comm : Comms, ppid : Pids]
InitProcess == [comm |-> InitComm, ppid |-> 0]

\* A host's processes: all descend from init.
WellFormed(w) ==
  /\ w[1] = InitProcess
  /\ \A p \in Alive(w) \ {1} : w[p].ppid \in Alive(w) /\ 1 \in Above(w, p)

-----------------------------------------------------------------------------
Init ==
  /\ world \in {w \in [Pids -> Process \cup {None, InitProcess}] : WellFormed(w)}
  /\ changes = 0
  /\ cache = [p \in Pids |-> None]
  /\ scanning = FALSE /\ todo = {} /\ seen = {}
  /\ walk = None
  /\ sure = {}

-----------------------------------------------------------------------------
(* The host.                                                               *)

\* What is known of a process stays true while it lives and has its manager.
HostStep(w) ==
  /\ changes < MaxChanges
  /\ changes' = changes + 1
  /\ world' = w
  /\ sure' = {p \in sure : w[p] # None /\ Detected(w, p) = Detected(world, p)}
  /\ walk' = IF walk = None THEN None ELSE [walk EXCEPT !.calm = FALSE]
  /\ UNCHANGED <<cache, passVars>>

\* fork: the child has its parent's command.
Fork(p, q) ==
  /\ world[p] = None
  /\ world[q] # None
  /\ HostStep([world EXCEPT ![p] = [comm |-> world[q].comm, ppid |-> q]])

Exec(p) ==
  /\ p # 1
  /\ world[p] # None
  /\ \E c \in Comms \ {world[p].comm} : HostStep([world EXCEPT ![p].comm = c])

\* The children of a process that exits go to one of its ancestors.
Exit(p) ==
  /\ p # 1
  /\ world[p] # None
  /\ \E q \in Above(world, p) :
       HostStep([r \in Pids |-> IF r = p THEN None
                                ELSE IF world[r] # None /\ world[r].ppid = p
                                     THEN [world[r] EXCEPT !.ppid = q]
                                     ELSE world[r]])

-----------------------------------------------------------------------------
(* proc_cache between two passes.                                          *)

\* The ring-buffer task reports an exit, a setns or an unshare of p.
Invalidate(p) ==
  /\ ~scanning
  /\ cache[p] # None
  /\ cache' = [cache EXCEPT ![p] = None]
  /\ sure' = sure \ {p}
  /\ UNCHANGED <<hostVars, passVars, walk>>

-----------------------------------------------------------------------------
(* The scanner's pass.                                                     *)

PassStart ==
  /\ ~scanning
  /\ scanning' = TRUE
  /\ todo' = Pids
  /\ UNCHANGED <<hostVars, cache, seen, walk, sure>>

\* /proc lists PIDs in ascending order.
IsNext(p) == p \in todo /\ \A q \in todo : p <= q

\* The directory entry or read_light fails: the PID is skipped.
VisitNone(p) ==
  /\ walk = None
  /\ IsNext(p)
  /\ world[p] = None
  /\ todo' = todo \ {p}
  /\ UNCHANGED <<hostVars, cache, scanning, seen, walk, sure>>

\* read_light succeeds.
Visit(p) ==
  /\ walk = None
  /\ IsNext(p)
  /\ world[p] # None
  /\ todo' = todo \ {p}
  /\ seen' = seen \cup {p}
  /\ UNCHANGED <<hostVars, cache, scanning, sure>>

\* get_or_load has an entry, and its TTL has not run out.
Hit(p) ==
  /\ Visit(p)
  /\ cache[p] # None
  /\ UNCHANGED walk

\* There is none, or its TTL has run out: time is not modelled, any may be old.
Miss(p) ==
  /\ Visit(p)
  /\ walk' = [pid |-> p, light |-> None, cur |-> p, visited |-> {}, calm |-> TRUE]

\* The entry that load_entry makes.
Loaded(light, manager) ==
  [comm |-> light.comm, ppid |-> light.ppid, manager |-> manager]

\* Mutant: what has been computed once is kept, the lack of a manager too.
KnownManager_Once(p) == cache[p] # None

\* old_managed_by is there: no walk.
KnownManager(p) == cache[p] # None /\ cache[p].manager # None

Loading == walk # None /\ walk.light = None
Climbing == walk # None /\ walk.light # None

\* load_entry's own read_light fails: the entry goes.
LoadNone ==
  /\ Loading
  /\ world[walk.pid] = None
  /\ cache' = [cache EXCEPT ![walk.pid] = None]
  /\ walk' = None
  /\ sure' = sure \ {walk.pid}
  /\ UNCHANGED <<hostVars, passVars>>

\* The fields are read anew, and the former entry's manager is kept.
LoadKnown ==
  /\ Loading
  /\ world[walk.pid] # None
  /\ KnownManager(walk.pid)
  /\ cache' = [cache EXCEPT ![walk.pid] = Loaded(world[walk.pid], @.manager)]
  /\ walk' = None
  /\ UNCHANGED <<hostVars, passVars, sure>>

\* The fields are read, and the search for a manager begins.
LoadLight ==
  /\ Loading
  /\ world[walk.pid] # None
  /\ ~KnownManager(walk.pid)
  /\ walk' = [walk EXCEPT !.light = world[walk.pid]]
  /\ UNCHANGED <<hostVars, cache, passVars, sure>>

-----------------------------------------------------------------------------
(* detect_manager: walk.cur is looked at, walk.visited have been.          *)

\* Mutant: the walk trusts the tree to have no cycles.
Revisited_Never == FALSE

Revisited == walk.cur \in walk.visited

\* The cached entry, however old (p's own former one too), or else /proc.
InfoOf(p) == IF cache[p] # None THEN cache[p] ELSE world[p]

\* depth and visited grow together.
Depth == Cardinality(walk.visited)

\* Mutant: any command is a manager's name.
ManagerAt_Raw(comm, depth) == IF depth = 0 THEN None ELSE comm

\* Mutant: a process may be its own manager.
ManagerAt_Self(comm, depth) ==
  IF comm = "systemd" /\ depth # 1 THEN None ELSE ManagerNamed(comm)

ManagerAt(comm, depth) ==
  IF depth = 0 \/ (comm = "systemd" /\ depth # 1) THEN None ELSE ManagerNamed(comm)

\* Nothing has happened since the walk began, and the entries it may use are true.
Calm ==
  /\ walk.calm
  /\ \A q \in Above(world, walk.pid) \cup {walk.pid} :
       cache[q] # None => cache[q].comm = world[q].comm /\ cache[q].ppid = world[q].ppid

\* load_entry returns, and get_or_load keeps the entry.
Return(manager) ==
  /\ cache' = [cache EXCEPT ![walk.pid] = Loaded(walk.light, manager)]
  /\ walk' = None
  /\ sure' = IF Calm THEN sure \cup {walk.pid} ELSE sure \ {walk.pid}
  /\ UNCHANGED <<hostVars, passVars>>

\* A process looked at before, or one that nothing is known of.
Lost ==
  /\ Climbing
  /\ Revisited \/ InfoOf(walk.cur) = None
  /\ Return(None)

Look ==
  /\ Climbing
  /\ ~Revisited
  /\ InfoOf(walk.cur) # None

Arrive ==
  /\ Look
  /\ ManagerAt(InfoOf(walk.cur).comm, Depth) # None
  /\ Return(ManagerAt(InfoOf(walk.cur).comm, Depth))

AtTop == InfoOf(walk.cur).ppid \in {0, walk.cur}

Top ==
  /\ Look
  /\ ManagerAt(InfoOf(walk.cur).comm, Depth) = None
  /\ AtTop
  /\ Return(None)

Climb ==
  /\ Look
  /\ ManagerAt(InfoOf(walk.cur).comm, Depth) = None
  /\ ~AtTop
  /\ walk' = [walk EXCEPT !.cur = InfoOf(@).ppid, !.visited = @ \cup {walk.cur}]
  /\ UNCHANGED <<hostVars, cache, passVars, sure>>

-----------------------------------------------------------------------------
\* The pass is over: sweep.
PassEnd ==
  /\ scanning
  /\ todo = {} /\ walk = None
  /\ scanning' = FALSE
  /\ cache' = [p \in Pids |-> IF p \in seen THEN cache[p] ELSE None]
  /\ seen' = {}
  /\ sure' = sure \cap seen
  /\ UNCHANGED <<hostVars, todo, walk>>

-----------------------------------------------------------------------------
Host == \E p \in Pids : Exec(p) \/ Exit(p) \/ \E q \in Pids : Fork(p, q)

Load == LoadNone \/ LoadKnown \/ LoadLight
WalkStep == Lost \/ Arrive \/ Top \/ Climb

Pass == PassStart \/ (\E p \in Pids : VisitNone(p) \/ Hit(p) \/ Miss(p)) \/ PassEnd

Next ==
  \/ Host
  \/ \E p \in Pids : Invalidate(p)
  \/ Pass \/ Load \/ WalkStep

Spec == Init /\ [][Next]_vars

\* The scanner ticks and goes on with what it does, and a TTL runs out again
\* and again.
FairSpec ==
  /\ Spec
  /\ WF_vars(Pass) /\ WF_vars(Load) /\ WF_vars(WalkStep)
  /\ \A p \in Pids : SF_vars(Miss(p))

-----------------------------------------------------------------------------
(* Properties.                                                             *)

ManagersNamed == {ManagerNamed(c) : c \in Comms \cup {InitComm}} \cup {None}

Entry == [comm : Comms \cup {InitComm}, ppid : Pids \cup {0}, manager : ManagersNamed]

\* Shapes; a manager has one of the names of manager.rs, a walk is for a process
\* that the pass has come to.
TypeOK ==
  /\ WellFormed(world)
  /\ changes \in 0..MaxChanges
  /\ \A p \in Pids : cache[p] = None \/ cache[p] \in Entry
  /\ scanning \in BOOLEAN
  /\ todo \subseteq Pids /\ seen \subseteq Pids /\ sure \subseteq Pids
  /\ walk # None => /\ scanning
                    /\ walk.pid \in seen \ todo /\ walk.cur \in Pids
                    /\ walk.visited \subseteq Pids

\* A manager found while nothing happened, by a walk over true entries, is the
\* nearest one, but for a systemd that is not the parent: that one is passed by,
\* contrary to what proc_cache.rs:35 and beemon.proto:121 say.  It stays the answer
\* of the cache, over refreshes, sweeps and other processes' walks, for as long as
\* it is right (manager.rs:48-92, proc_cache.rs:64, 107).
ManagerNearest ==
  \A p \in sure : cache[p] # None => cache[p].manager = Detected(world, p)

\* Each walk ends, although the parents it goes by are of different ages and
\* PIDs used again make them a cycle (visited, manager.rs:54).
WalkEnds == walk # None ~> walk = None

\* Once the host stops changing, no process with a manager to detect is without
\* one for ever: neither the entry of a walk that failed, nor a process's own old entry,
\* nor a command name cached before an exec keeps it so.
NoneMissed ==
  <>[](\A p \in Alive(world) :
         cache[p] # None /\ cache[p].manager = None => Detected(world, p) = None)
=============================================================================
