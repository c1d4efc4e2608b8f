# beemon in TLA+

TLA+ models of beemon, a daemon that watches the processes of a Linux host: BPF
programs report what traced processes do, a Rust daemon forwards the events to
HTTP clients and keeps a picture of all processes, a React UI shows it. The
models follow the source; comments give the lines where they matter.

Contents: [the system](#1-the-system), [modules](#2-modules), [runs](#3-runs-and-bounds),
[fairness](#4-fairness), [proofs](#5-proofs), [disagreements](#6-where-the-code-and-its-comments-disagree),
[observations](#7-observations), [not modelled](#8-what-is-not-modelled), [plan](#9-plan).

## 1. The system

| component | state | operations | talks to |
|---|---|---|---|
| BPF programs (`kernelspace/x86_64/beemon.bpf.c`) | `target_pids`, `open_args`, I/O and flow counters, the ring buffer | one program per tracepoint or probe | ring buffer -> drain task; maps <-> daemon |
| stream registry (`src/stream.rs`) | `streams`: PID -> broadcast sender; `target_pids` | `subscribe`, drop of a receiver, drop of a guard, `forward` | maps; handlers; drain task |
| HTTP streams (`src/http/routes.rs`, `ws.rs`) | per session: receiver, guard, tasks, queue, `Notify` | `stream_events` (SSE), `handle_ws` (WebSocket) | registry, socket |
| HTTP readers (`src/http/routes.rs`) | none | processes, metadata, flows, namespaces | snapshot, rates, namespace tree, `/proc` |
| drain task (`src/ringbuf.rs`) | where it is in its loop | drain until empty, sleep, wake | ring buffer, invalidators, registry |
| conversion (`src/convert.rs`) | none | C record -> `Event` | drain task |
| scanner (`src/snapshot/scanner.rs`) | previous CPU samples; the published snapshot | tick: walk, sweep, copy, rebuild, publish | `/proc`, all caches, rates |
| process cache (`src/snapshot/proc_cache.rs`) | PID -> namespaces, cgroup path, manager, age | `get_or_load`, `invalidate`, `sweep` | `/proc`; scanner, invalidators |
| namespace tree (`src/snapshot/namespace_tree_cache.rs`) | (type, inode) -> PIDs, age | `rebuild_from`, `invalidate`, look-ups | scanner, invalidators, HTTP |
| invalidators (`src/snapshot/mod.rs`) | none | `on_event` | drain task -> both caches |
| cgroup limits (`src/snapshot/cgroup_tree_cache.rs`, `cgroup.rs`) | path -> limits, age | `get_or_load` | scanner |
| manager detection (`src/snapshot/manager.rs`) | none | walk over the ancestors | process cache |
| rates poller (`src/rates.rs`) | previous counters; the published rates | tick: read maps, difference, publish | I/O and flow maps |
| web UI (`webui/src`) | lists, filters, event buffers, connection state | polling, streaming, pausing | HTTP |
| start and shutdown (`src/main.rs`, `config.rs`, `bpf/loader.rs`) | none | a straight sequence | all |

What makes them correct, and what is hard:

* **Registry and streams.** A live receiver gets its PID's events; nothing that
  the registry put there stays traced, or registered, for nobody. Hard: the drop works in two steps around
  the `streams` lock; receivers vanish without the lock; a handler takes a
  `Subscription` apart and its two halves die in an order the registry does not
  choose; three tasks of a WebSocket session share one `Notify`.
* **Delivery.** Each event reaches each subscriber once and in order, or is
  lost for a reason that can be named. Hard: records are committed out of
  order, the kernel signals selectively, receivers lag, clients come and go.
* **BPF programs.** An event says what happened, to the process that did it.
  Hard: a system call's entry and return are two programs with a map between
  them, the daemon arms and disarms in between, maps are bounded, threads are
  not processes.
* **Snapshot and caches.** The picture catches up with the host and contains no
  ghosts. Hard: two tasks, three locks, a copy used after its lock is given
  back, TTLs, an invalidation that comes before the change it announces, PIDs
  used again, zombies that can be read in part.
* **Byte counters and rates.** What is counted is what was moved, what a poll
  publishes is what was counted since the last one. Hard: a look-up and the
  write that follows it are two steps; per-CPU shares and a shared flow map are
  updated in two different ways; the LRU map takes elements from under a
  program; entries vanish and start anew between two polls; a poll can fail.
* **Manager detection.** The manager of a process is the nearest of its
  ancestors that is one, a `systemd` being passed by unless it is the parent
  (see [6](#6-where-the-code-and-its-comments-disagree)). Hard: the walk mixes cached entries of all ages with
  `/proc`, while processes exec, exit and are adopted; a cycle is possible.
* **Web UI.** A page shows what it is about. Hard: requests are never cancelled
  and answers overlap; a closed socket reports its close after the next one has
  opened; stream events and polls write the same file map.

## 2. Modules

| module | models | composes |
|---|---|---|
| `TraceControl` | what the registry promises: who is subscribed is traced, who is not will not stay traced | abstract |
| `StreamRegistry` | `stream.rs` | |
| `SerialRegistry` | the registry without one overlap, with room in the map; refines `TraceControl` | `StreamRegistry`, `TraceControl` |
| `EventStreams` | `ws.rs`, `stream_events` | `StreamRegistry` |
| `EventDelivery` | ring buffer, drain task, broadcast channels | |
| `KernelTrace` | gating, inheritance, opens, exits, accept and signals in the BPF programs | `MCKernelTrace` adds the symmetry for TLC |
| `Processes` | the PIDs, and what none of them is | for `IoCounters` and `IoAccounting` |
| `IoCounters` | what the I/O map promises its reader: counters that grow or vanish | abstract |
| `IoAccounting` | the I/O, flow and UDP programs on several CPUs; refines `IoCounters` | `IoCounters`; `MCIoAccounting` adds the symmetry |
| `Rates` | `rates.rs` over such counters | `IoCounters` |
| `SnapshotCaches` | scanner, process cache, namespace tree, invalidators | |
| `ManagerDetection` | `manager.rs` inside the scanner's walks over the process cache | |
| `WebUi` | dashboard, process page and event stream in the browser | |
| `StreamRegistry_proofs` | theorems about `StreamRegistry`, `SerialRegistry`, `EventStreams` | the last two |
| `IoAccounting_proofs` | theorems about `IoAccounting` and `Rates` | both |
| `EventDelivery_proofs`, `KernelTrace_proofs`, `SnapshotCaches_proofs`, `ManagerDetection_proofs`, `WebUi_proofs` | theorems about the module each is named after | that module |
| `SumTheorems` | lemmas about the sums of the community module `Functions`, for `IoAccounting_proofs` | |

**StreamRegistry.** `streams` is the map behind the mutex, with a channel
instead of a sender; `target` is `target_pids`; `lock` says who holds `streams`.
A client is one `subscribe` and what comes of it: `call` says where it is in the
registry's code, `rx` and `guards` which halves of its `Subscription` live.
`Subscribe`, `Arm`, `Attach` are the three parts of `subscribe`; the lock is
held from the first to the last, and only `target_pids` and `receiver_count`,
which others change without that lock, are looked at in between. `DropRx` is
the receiver's drop; `DropGuardLast` and `DropGuardOther` are the guard's drop up to
the unlock; `Unmap` is the removal after it. `InsertMayFail` lets any insert
fail, as the code expects. In this module the receiver goes before the guard, as
the field order of `Subscription` has it (`DropGuardAfterRx`); `EventStreams`
composes the same actions in the orders the handlers have. `Inherit` is the other
writer of `target_pids`, the kernel's fork program: the keys it adds are in the history
`inherited` until a subscriber inserts or removes the same PID, and nobody else takes them
out. Its look-ups and its insert are one step here; `KernelTrace` has them apart.

**EventStreams.** Adds to the registry, for each WebSocket client, the reader,
the pump and the main loop, the queue between the last two and the permit of the
`Notify`. `notify_one` leaves one permit, and either waiter may take it
(`PumpCancel`, `MainCancel`). `MainSent` returns only if the peer reads or the
socket is dead. When `handle_ws` returns, the guard goes first
(`MainDropsGuard`), then the queue (`MainDropsQueue`), which is what ends a pump
that is sending. A SSE client drops its guard when the handler returns
(`SseReturn`) and its receiver when the body goes (`SseDisconnect`). A client that is "closed" has
finished the closing handshake, a "broken" one gives errors.

**EventDelivery.** The ring holds records in the order of their reservation,
each filled or not; a commit signals the consumer only if it has come to that
record. `drain` is where `run` is. A channel is the sequence of events it has
carried, a receiver a position in it; being more than `EventLimit` behind is a
lag. Events are numbered, `born` holds their PIDs. The channel starts anew when its
last subscriber leaves.

**KernelTrace.** Tasks belong to processes (`group`), the id of a process is
that of its first task. `target` is `target_pids` with its flags, `args` is
`open_args`, `forking` holds the child between the two look-ups of the fork
program. `open` and `openat` have the same two programs and are one pair of
actions. `event` is what the last step has put into the ring buffer, together
with what it should have said (`truly`): the properties compare the two. `Call`
stands for every program that begins with `RESERVE_EVENT`; `Accept` and
`SignalGenerate` differ in the flag they ask for and in whose event it is.
Three variables are history: `steady`, the tasks inside an open that was traced from
its entry on; `interrupted`, those whose entry in `open_args` outlived its open;
`raced`, the children of forks that user space has raced.

**IoCounters, IoAccounting, Rates.** An element of `process_io_stats` has a key
(`slot`) and a share per CPU. A program on a CPU is where it stands between its
map operations (`prog`): it has looked the process up (`io`), asks whether the
process is traced (`trace`), has looked the flow up (`flow`). `IoInsert` under a
new key takes any element, that of another key included: the LRU list is not
modelled, so any entry may be the oldest. `FlowInsert` over an existing key
replaces the element and leaves others' pointers dangling (`ptr`), since both maps are
preallocated and elements are reused at once. The four counters of an entry are
alike and stand as one; bytes come one at a time. `udp_recv_sk` is per thread,
with the socket a thread really receives from beside it (`receiving`).
`Counted` is `io_stats_summed`, and under `counter <- Counted` (None without an
entry) the programs implement `IoCounters`: that is all that `Rates`
builds on. A rate is the bytes of one period; `total`, `mark` and `evicted` are
history, against which the published rate is compared.

**ManagerDetection.** `world` is a tree of processes with command names; `Fork`,
`Exec` and `Exit` (with the adoption of its children by any ancestor: init or a
subreaper) change it between any two steps of the scanner. `walk` is the
`load_entry` under way: `LoadLight` reads the process, then each `Climb` looks at
one ancestor, in the cache or else in `/proc`; `Lost`, `Arrive` and `Top` are the
three ways out. The reference is by sets of ancestors, without a walk: `Nearest` is the
nearest manager of all, as the comments have it, and `Detected` what the code promises: the
same, but where that one is a `systemd` that is not the parent (`SystemdAway`), the
nearest of the others.
`sure` is history: the processes whose manager was found while nothing happened
and from entries that were true, and is the same since.

**WebUi.** React runs the clean-ups and effects of one change together, so a
navigation is one step. Each request in flight keeps the page and key it was sent
for, and is answered by what the host is at the moment of `Serve`. `socks` are all
the sockets the page has made: "closing" after `ws.close()`, "closed" once
`onclose` has run. A process has one descriptor that it opens and closes
(`Toggle`), and its events may be lost on the way, as the daemon's channels do.

**SnapshotCaches.** `world` is the host. The scanner's tick is `ScanStart`, a
`Visit` per PID, `WalkEnd` (sweep, copy, unlock), `Index` (rebuild of a stale
tree from the copy), `Publish`. The process cache's lock is held during the
walk, so `OnEvent` waits for its end; `OnEvent` and `OnEventTree` are the two
locks of `on_event`. An age is fresh or not. Namespaces are of one type. A process
that dies between the scanner's own read and `load_entry`'s is
`VisitVanishing`. Every `Emit` may come to nothing: the process is not traced, its
key has not the flag (a key with `TRACE_FLAG_METRICS` only), or the ring is full. `doubt`
is history: for proc_cache, its copy and the tree each, the PIDs whose namespace there may be
old with no event to come that says so. It spreads as the data does (entry, copy, tree),
and a load, a walk's copy or a rebuild clears it.

## 3. Runs and bounds

| run | module, cfg | shows |
|---|---|---|
| `registry` | `StreamRegistry` | `TypeOK`; `ReceiverRegistered`, `EntryOwned`, `TargetOwned`: no receiver without its channel, no entry without an owner, and no key that the registry inserted, with forks adding their own beside them; `DisarmSticks`: lost tracing is not repaired under a live receiver; `WoundUp`: a drop that has begun ends |
| `serial_registry` | `SerialRegistry` | `SubscribedArmed` and the refinement `KeepsPromise`, with its liveness, for the keys the registry inserts |
| `event_streams` | `EventStreams` | ownership inside a session (`StreamsTypeOK`); `ReceiverRegistered` again in the handlers' drop orders; `AbandonedOnlyPastGuard`: the only way to leave an entry behind; `SessionEnds`: a dead socket ends its session |
| `delivery` | `EventDelivery` | `NoLostWakeup`, `Ordered`, `Accounted`, `Delivered` |
| `snapshot_caches` | `SnapshotCaches` | `AbsentUnlisted`: no ghosts; `TreeExplained`: a fresh tree is wrong of a process that no event in the ring speaks of for one of three reasons only; `EventuallyCurrent`: picture and tree converge |
| `manager` | `ManagerDetection` | `ManagerNearest`: the cached manager is `Detected` wherever the walk could know; `WalkEnds`: no walk goes round in a circle; `NoneMissed`: nobody stays without a manager by mistake |
| `kernel_trace` | `MCKernelTrace`, `KernelTrace.cfg` | `OpenNamed`: the path reported for an open that was traced from entry to return is the path opened; `ArgsReturned`: what may stay in `open_args`; `MetricsExplained`: where reduced flags can come from |
| `io_accounting` | `MCIoAccounting`, `IoAccounting.cfg` | `BytesAccounted`, `FlowExact`: which bytes can be lost, and where; `OwnSocket`: a datagram is counted for its own socket; `ImplementsCounters`: the refinement of `IoCounters` |
| `rates` | `Rates` | `RatesExplained`: a rate is what was counted, unless an eviction or a failed reading explains the difference |
| `web_ui` | `WebUi` | `StreamOfPage`: one live socket, that of the page, and no other process's events; `Indicator`: LIVE is never shown without a socket, and what can make it wrong the other way; `Settles`: the page catches up |
| `registry_disarmed`, `sse_abandons` | `StreamRegistry_disarmed`, `EventStreams_sse` | counterexamples to comments, see [6](#6-where-the-code-and-its-comments-disagree) |

Deadlock is checked in all of them: these systems never stop.

Bounds, and why they suffice:

* `registry`: three clients, PIDs and channels, two places in `target_pids`. Three
  clients are one that leaves, one that stays or leaves with it, and one that comes.
  A PID that is traced, one that a fork adds and one that finds the map full are three
  PIDs and two places. A client holds one channel at most, so there is one for each.
  `serial_registry` has two PIDs and two places, so `Room`, the hypothesis of its theorems, holds.
* `event_streams`: one WebSocket and one SSE client, two PIDs (together on one, or
  each on its own, or one of them added by a fork), channel and queue of one: each of
  them full and empty.
* `delivery`: a ring of two records (one can be committed behind an uncommitted
  one, and it can be full), three events (`MaxEvents`), a channel of one event,
  so that a second unread event is a lag. `EventLimit` is exact here; tokio
  rounds it up to a power of two.
* `snapshot_caches`: two PIDs, each of whose events may be lost, three changes of the host
  (`MaxChanges`): a birth, a change of namespace or an exit, and one more, which
  may use the PID again. Ticks, walks, events and expiries are not bounded.
* `manager`: PIDs 1 to 3, every tree of them as a start, two changes. Three
  processes are the fewest with a grandparent, which tells `systemd` at depth one
  from `systemd` above, and with a stale parent and a reused PID two changes make a
  cycle. One manager that counts at any depth (`dockerd`), `systemd` as init, one name that is no
  manager (`sh`): the other names behave as `dockerd` does. A manager beyond a `systemd` that
  is passed by takes a fourth process (the process, its parent, the `systemd`, the
  manager): that case is left to the theorem.
* `kernel_trace`: three tasks (a thread and a process besides the first), two
  paths, one place in `open_args` and two in `target_pids`, so both are full in
  some states. Tasks and paths are symmetric.
* `io_accounting`: two CPUs, processes, sockets and elements, room for two of the
  four flows, three bytes: one CPU can be between look-up and write while the other inserts,
  and the third byte finds the map or the flows full. An insert race takes two CPUs;
  a third would only repeat it. The four sets are symmetric.
* `rates`: two processes, five bytes (`MaxCounted`), two failing polls
  (`MaxFails`); polls are not bounded. An eviction, a restart of the counter above
  and below its former value, and a failure between any two polls all fit.
* `web_ui`: two keys, two requests in flight (`MaxInFlight`: one overtakes the
  other), two moves of the user (`MaxMoves`: there and back, or there and pause) and two
  changes outside (`MaxChanges`: open and close, or open and exit, or a failed
  request and a broken socket).

## 4. Fairness

* A call into the registry goes on (weak), and a guard that is to be dropped
  gets the `streams` mutex in the end (strong: others take it and give it back,
  and nobody holds it across an await). Clients need never come or leave.
* The tasks of a session run when they can, and the ticker of the main loop
  ticks every two seconds (`MainStep`, weak). Neither the peer nor the traced
  process has to do anything.
* A BPF program ends, so a reserved record is committed; the drain task and the
  clients' tasks are scheduled (weak).
* The scanner ticks, a visit ends, TTLs run out, a system call returns (weak).
  `OnEvent` gets the process cache's lock although the scanner takes it again
  and again (strong): the scanner holds it for a part of each period and sleeps
  for the rest.
* In `ManagerDetection` time is not modelled: an entry met by a pass is fresh or
  old (`Hit`, `Miss`). A TTL that runs out again and again makes an entry old in
  infinitely many of the passes that meet it, so each `Miss` is strongly fair; pass and
  walk go on (weak). Without it an entry would be fresh for ever.
* The intervals of a page run, the daemon answers, answers and messages arrive
  (weak). No socket has to open, no close to be reported, nobody to move.
* `IoAccounting`, `KernelTrace` and `Rates` have no liveness property and no fairness.

## 5. Proofs

The theorems hold for every set of PIDs, clients, tasks, processors and so on,
and for every capacity and bound; TLC found the same formulas true on the
instances above. What they assume of the constants stands in the modules as
`ASSUME`s that TLC evaluates, and is of five kinds: `None` is not one of the
values it stands beside; capacities and bounds are natural numbers; sets over
which something is summed or counted are finite (`Pids`, `Cpus`, `Socks`,
`Tasks`); a part is a part of its whole (`WsClients`, `FirstKey`); and, in `ManagerDetection`, PIDs are positive numbers and 1, init, is one. Each module proves `Invariance`, that its inductive invariant
always holds, from one lemma per action; the theorems about what the runs check
are consequences. Below is what each invariant adds, and why the checked
properties are not inductive without it.

**`StreamRegistry_proofs`** has three layers. `Core` is what holds in whatever
order receivers and guards go (`AnyStep`), so that the registry and the HTTP
handlers share its lemmas: `TypeOK`, `ReceiverRegistered`, `TargetOwned` (of the keys that `subscribe` inserted) and

* `CallExclusive`: a client inside a registry call has neither receiver nor guard;
* `CallerHasEntry`: nobody evicts the entry a `subscribe` under way works on, since it holds the lock;
* `ArmAlone`: nobody gets a receiver of a PID between the check and the insert;
* `ChannelsDistinct`: no two PIDs share a channel.

`ReceiverRegistered` alone is not inductive: the eviction of a guard would
take the channel of a receiver of which only `ChannelsDistinct` and
`receiver_count` say that it is another PID's. A fork changes `target` alone, and what it
adds is its own (`InheritCore`).

*The registry* adds `EntryOwned` and `ReceiverGuarded` (a receiver's guard is there:
the field order of `Subscription`) to make `IInv`. `TypeCorrect`, `ForwardReaches`,
`NoEntryLeaks`, `NoTargetLeaks` are parts of it; `LostTracingStaysLost` is the
action property `DisarmSticks`: an insert happens only where `ArmAlone` says that
nobody listens.

*The serial registry* has the hypothesis `Room` (finitely many PIDs, a map with
room for them, inserts that succeed) and lacks the overlap. It adds
`UnmapAlone` (a PID whose removal is pending has no entry) and `AttachArmed` (who is
about to get a receiver is armed): with the overlap the first one is what
breaks. `SubscribersTraced` is `SubscribedArmed`; `SerialKeepsPromise` is the
refinement of `TraceControl`'s safety: initial states map to initial states
(`InitPromise`), each step to a step or a stutter (`StepPromise`), under
`subs <- Subscribers, armed <- Inserted`: a fork is invisible to the promise, and its key
never stands in for one that `subscribe` should have inserted.

*The HTTP handlers* do not keep `ReceiverGuarded` and `EntryOwned`, and that is
`sse_abandons`. `Core` with the ownership in a session (`StreamsTypeOK`) is
inductive all the same: `OwnersKept`; `StreamsReach`, every live receiver is
reached whatever the drop order; and `OnlyPastGuard`, the action property
`AbandonedOnlyPastGuard`, by cases over who gives up what.

**`EventDelivery_proofs`.** `Ordered` and `Accounted` speak of what clients got, so
the invariant follows an event on its way: `ChannelOrder` (a channel's events
are of its process, in the order of birth, older than all in the ring),
`GotOrder` (what a client got is older than what it will get), `Unsubscribed`
(no subscription, no cursor, nothing got). `ChannelOrder` also says that the i-th
event of a channel is at least the i-th of all, which is why the channel's
length stays within the bound. Theorems: `NoWakeupLost`, `InOrder`, `NothingElseLost`.

**`KernelTrace_proofs`.** `OpenNamed` needs to know what `open_args` holds during an
open traced since its entry (`SteadyArgs`: this open's path or, for want of room, nothing), and
`MetricsExplained` needs what happens between the two look-ups of the fork program
(`ForkRaced`: the parent lost its key to user space, and the child is remembered).
`UpdateFits` is the capacity of a hash map. Theorems: `OpensNamed`, `ArgsGivenBack`,
`MetricsFromRaces`.

**`IoAccounting_proofs`.** The bytes are sums over processors, so the exactness of a
count depends on who is between a look-up and a write: `OneEntry`, `Unused`,
and `Pointers` (a program that found an element found one that was taken; a program
that found none has an empty share, should another processor have made the
entry meanwhile: that is why the insert that overwrites loses nothing);
`FlowPointers` (a dangling pointer only to a flow that has raced). `Exact` and
`Within` are the halves of `BytesAccounted`, `FlowsBounded` the sum that keeps
`flow` within the bytes moved. Theorems: `BytesCounted`, `FlowsCounted`, `SocketOwn`, and
`Implements`: under `counter <- Counted` each step is a step of `IoCounters` or a
stutter, on any number of processors.

*The rates*, in the same module, build on those counters. `Level` relates the counter to the
previous reading: above it by exactly what has been counted since, or, once the
entry has been evicted, at most that. `RatesTrue` is `RatesExplained`, with
the host's rates as sums over any finite set of processes.

**`SumTheorems`** shows of `SumFunction` that it yields a natural number, adds up
term by term, is monotone and grows with one term. The library's sum is a recursive
choice, and the library's induction theorems take a predicate, which these
provers cannot instantiate; `FiniteInduction` takes a set of sets in its place,
and `PartialExists` derives from it that the recursive function exists.

**`SnapshotCaches_proofs`.** A tree that is fresh is right because the copy it was made
from was, and the copy because the cache was. The invariant follows a
namespace along that way for every PID that is `Settled` (alive, no event of a change of
its namespace in the ring): `CacheFollows`, `CopyFollows` and `TreeFollows`, each for the PIDs outside its
own `doubt`. Nothing is assumed of the ring: an event that is lost puts its PID in doubt in
all three places when the system call does its work (`SetnsEffectStep`), one that is in the ring
is no less than an unsettled PID. `AbsentUnseen` says that a walk that began without a PID
does not meet it. Theorems: `AbsentForgotten`, `TreeRight`.

**`WebUi_proofs`.** `StreamOfPage` and `Indicator` are inductive together: since a
paused stream has no live socket, `connected` is false when it is resumed. To them
come the shapes of requests (what is in flight was sent by the page, and its answer
has the form that the page shows) and the number of sockets, which is bounded by the
user's moves. Theorems: `OneStream`, `IndicatorRight`.

**`ManagerDetection_proofs`.** `Detected` is defined by sets and the code walks, so the
proof starts with a theory of `Above`, the least set that holds the parent and is closed
under parents: it is the parent and what is above the parent (`AboveStep`), it is
transitive, and nobody is above himself (`Acyclic`: the processes below such a one
would be a closed set without init). No induction over the tree is needed: a set
that is closed takes its place. `ForkTree`, `ExecTree` and `ExitTree` show that the
host stays a tree below init; for an exit, a set closed in the new tree is completed
by the process that has gone and those between it and the adopter. The invariant adds
`WalkOnTheWay`: while a walk is `Calm` it has visited just what lies between its
process and `cur`, and no manager among it. From that, one visited process means that
`cur` is the parent (`AtParent`, the depth that systemd is asked for), the walk is
never `Lost`, and where it arrives is what the `CHOOSE` in `First` chooses, of the managers or
of those that are no systemd (`DetectedIs`, `NearestFound`). `ManagerNearest` alone says nothing of a walk under way. Theorems:
`NearestManager`; `NearestDefined` (of any ancestors of a process there is just one that the others are
above, so that both references mean something); and, for finitely many PIDs, `WalkBounded`: each step of
a walk, trusted or not, ends it or visits one process more. That is the part of
`WalkEnds` that is not about fairness.

Only model-checked is all liveness (`WoundUp`, `SessionEnds`, `Delivered`,
`EventuallyCurrent`, `WalkEnds`, `NoneMissed`, `Settles`, the fairness half of
`KeepsPromise`), since the prover does not handle fairness and `ENABLED`.

## 6. Where the code and its comments disagree

* `registry_disarmed`: a subscriber that comes after the last guard's unlock
  (`stream.rs:62`) and before its removal (`stream.rs:65`) has a receiver and no
  tracing, against the comment on `subscribe`. `DisarmSticks` shows that this
  lasts; `serial_registry` that this overlap is the only cause where the map has
  room.
* `sse_abandons`: an SSE session leaves its entry, and its PID in `target_pids`,
  behind (`routes.rs:107`), against the comment on `streams`
  (`stream.rs:28`). A WebSocket session does the same if the main loop drops the
  guard before the pump drops the receiver; `AbandonedOnlyPastGuard` shows that there
  is no third way.
* A manager that is a `systemd` counts as the direct parent only (`manager.rs:71`, `depth == 1`), where
  `proc_cache.rs:35` ("The nearest ancestor process manager (systemd, containerd,
  etc.)") and `beemon.proto:121` ("nearest ancestor process manager: systemd, ...") make no such
  exception: a grandchild of `systemd` with no manager between them has none, or one from above
  the `systemd`. `Nearest` is what the comments say, `Detected` what the code does, `SystemdAway`
  where they part; `ManagerNearest` holds the code to `Detected`: wherever
  the walk could know, they part there and nowhere else. Probably the code is what is meant, since everything on
  most hosts descends from a `systemd`.
* The manager is "computed once on first load" by `proc_cache.rs:36`; while none has been found,
  each reload searches again (`proc_cache.rs:107`, `or_else`). That is what `NoneMissed` rests
  on: without it a walk that failed once would leave the process without a manager.

## 7. Observations

What the models do because the code does, where no comment or document says
otherwise, or not clearly enough to be held to. None of them is a run.

* The namespace tree can be fresh and wrong, for up to a TTL of the cache and one of the tree, in
  three cases. When a setns or unshare did its work, no event of it was in the ring: it had been handled
  before (it is sent on entry, `beemon.bpf.c:701`), or none was sent, since the process is
  not traced, or its key has only `TRACE_FLAG_METRICS`, or the ring was full
  (`beemon.bpf.c:229-231`). Or the event was handled between the scanner's copy of the cache and
  the rebuild from it (`scanner.rs:196`). Or the PID is another process's by now and the exit
  of the former one left the tree alone (`mod.rs:53-57`). `mod.rs:22-24` speaks of eviction "promptly" on
  setns, unshare and process exit. `TreeExplained` shows that the tree is wrong in no other case while
  no event of the process is under way; each case ends with the first
  rebuild from an entry loaded since, which `EventuallyCurrent` shows to come.
* An open can be reported with the path of another one: disarmed inside an open and armed again
  inside the next one of the same thread, whose entry was not seen, a process has the second reported with
  the path that the first has left in `open_args` (`beemon.bpf.c:524-568`). `OpenNamed` speaks of opens
  traced from entry to return, where it cannot happen.
* The keys that the fork program adds to `target_pids` (`beemon.bpf.c:435`) stay until the last
  subscriber of that very PID leaves: most never have one, the map fills, and later subscribers are not
  traced. `TargetOwned` and `TraceControl` are about the keys that `subscribe` inserts.
* Forks by a thread other than the first are missed, and new threads take places
  in `target_pids` (`beemon.bpf.c:428-435`). The repository's `README.md:12` promises "parent-child tracking";
  it does not speak of threads.
* `process.exit_code` of an exit event is never written (`beemon.bpf.c:467-479`) and passed on
  (`convert.rs:82`).
* A failing `all_processes()` is logged as "cache not refreshed" and publishes an
  empty list (`scanner.rs:105-114`).
* After a poll that failed, the next one publishes whole counters as rates
  (`rates.rs:98`, `136`): `blind` in `RatesExplained`.
* The first bytes of a flow on two CPUs at once lose one insert, and a dangling
  pointer may credit another flow (`beemon.bpf.c:373`): `raced` in `FlowExact`.
* The stream view shows DISCONNECTED over a live socket when the former
  socket's close comes late (`ProcessStream.tsx:284`): `late` in `Indicator`. Nobody reconnects a
  socket that broke.
* The page of a process that has gone keeps its last data (`ProcessDetails.tsx:112`), and a
  late answer about the process left before can fill it; `Settles` therefore speaks of living processes.
* The flow chart of a process can get one sample of the process left before
  (`ProcessStream.tsx:93`).

## 8. What is not modelled

* Contents that no property tells apart: payloads, names, formats, the pb
  encoding, logging.
* The arm64 BPF source: the same programs for another system-call table.
* A poisoned mutex: no code that holds one panics on the modelled paths.
* Shutdown: the process ends, the kernel takes programs and maps with it;
  nothing is persisted.
* The 50 ms / 200 event batches of SSE: they delay, and keep order.
* The PID check of the handlers (0, the daemon's own): PIDs here have passed it.
* What the forks' keys do to the promise of `TraceControl`: it is about the keys that the
  registry inserts, and needs room in the map, which the forks can take away.
* The cgroup limits cache: a map with a TTL per path that one task reads through
  under its lock; its `invalidate` has no caller.
* The division by the elapsed seconds and the truncation of each rate to an integer, in
  `f32` (`rates.rs:145-158`): a rate in `Rates` is the difference itself.
* CPU percentages of the scanner: a quotient of two differences of the kernel's clocks.
* Of the readers behind HTTP, the flows and namespaces; `details.rs`, `procfields.rs`,
  `host.rs`: they keep no state.
* Of the web UI, the flow charts, the namespace page (which polls as the
  dashboard does), search, filters of events and rendering.
* The status of an answer: the dashboard does not look at `res.ok` (`Dashboard.tsx:76-78`), but the
  daemon's errors are bare status codes (`routes.rs:28`) whose empty body `res.json()` rejects, so that
  they end in the `catch` as a failed request does (`Fail`).
* Overflow of the 64-bit counters, and widths: sums of bytes do not get there.
* Most lines of the repository are generated or vendored headers (`vmlinux.h`,
  `bpf_helper_defs.h`), which define types and no behaviour.

## 9. Plan

Done, in this order: the registry, its abstract specification and proofs; the
HTTP streams on top of it; delivery; the BPF programs; the caches; I/O
accounting, its abstract specification and the rates; manager detection; the web UI.

Proved since, for all values of the constants: every invariant and action property
that the passing runs check, and the safety of both refinements.

What could come next is more of the system: the parts that section 8 leaves out and that
keep state (the cgroup limits cache once its `invalidate` has a caller, the namespace
page and the flow charts of the web UI).
