----------------------------- MODULE IoAccounting -----------------------------
(***************************************************************************)
(* The byte counters of the BPF programs (kernelspace/x86_64/beemon.bpf.c, *)
(* lines 248-390 and 1138-1242).  process_io_stats has an entry per        *)
(* process, whose value is one share per CPU; it is an LRU map: a new key  *)
(* may take the element of another.  process_net_flow_stats has an entry   *)
(* per process and connection, shared by the CPUs, never removed.          *)
(*                                                                         *)
(* A program looks a key up and then either adds through the pointer it    *)
(* has got or inserts a new value; programs on other CPUs run in between.  *)
(* Programs on one CPU do not overlap.  Both maps are preallocated: an     *)
(* element that is evicted or replaced serves another key at once, also    *)
(* while a program holds a pointer to it.                                  *)
(*                                                                         *)
(* Bytes come one at a time; the four counters of an entry are alike and   *)
(* stand here as one.                                                      *)
(***************************************************************************)
EXTENDS Integers, FiniteSets, Functions, Processes

\* Each process has one thread that receives datagrams; None is no program and
\* no socket, too.
CONSTANTS
  Cpus,      \* processors
  Socks,     \* sockets
  Elems,     \* elements of process_io_stats
  MaxFlows,  \* capacity of process_net_flow_stats
  MaxBytes   \* bound on the bytes moved

ASSUME NoneAssumption == None \notin Pids \cup Socks \cup Elems \cup Int
ASSUME FiniteAssumption == IsFiniteSet(Cpus) /\ IsFiniteSet(Pids) /\ IsFiniteSet(Socks)
ASSUME BoundsAssumption == MaxFlows \in Nat /\ MaxBytes \in Nat

VARIABLES
  slot,      \* element of process_io_stats -> its key, or None
  share,     \* element -> CPU -> bytes
  flow,      \* process_net_flow_stats: process, socket -> bytes, or None
  prog,      \* CPU -> the program it runs
  receiving, \* process -> the socket its thread receives from, or None
  recvSk,    \* udp_recv_sk (and udp_recv_msg): thread -> socket, or None
  moved,     \* history: process -> bytes it has moved
  flowMoved, \* history: process, socket -> bytes to be charged to the flow
  disturbed, \* history: processes whose entry was evicted, or mixed up by it
  raced      \* history: flows whose first bytes met, or found no room

ioVars == <<slot, share, moved, disturbed>>
flowVars == <<flow, flowMoved, raced>>
recvVars == <<receiving, recvSk>>
kernelVars == <<ioVars, flowVars, recvVars, prog>>

Flows == Pids \X Socks

Idle == [at |-> "idle"]

KernelInit ==
  /\ slot = [e \in Elems |-> None]
  /\ share = [e \in Elems |-> [c \in Cpus |-> 0]]
  /\ flow = [f \in Flows |-> None]
  /\ prog = [c \in Cpus |-> Idle]
  /\ receiving = [p \in Pids |-> None]
  /\ recvSk = [p \in Pids |-> None]
  /\ moved = [p \in Pids |-> 0]
  /\ flowMoved = [f \in Flows |-> 0]
  /\ disturbed = {}
  /\ raced = {}

-----------------------------------------------------------------------------
(* The maps as the programs see them.                                      *)

ElemOf(p) == {e \in Elems : slot[e] = p}

\* bpf_map_lookup_elem(&process_io_stats, ...): an element, or None.
Found(p) == IF ElemOf(p) = {} THEN {None} ELSE ElemOf(p)

\* Mutant: the map takes any number of flows.
FlowRoom_Always == TRUE

FlowRoom == Cardinality({f \in Flows : flow[f] # None}) < MaxFlows

FlowOf(c) == <<prog[c].pid, prog[c].sock>>

-----------------------------------------------------------------------------
(* add_file_io, and add_net_io as far as process_io_stats goes.            *)

\* A program begins: a byte of p has moved, through socket s or, with s = None,
\* through a file.  It looks the process up.
Begins(c, p, s) ==
  /\ prog[c] = Idle
  /\ SumFunction(moved) < MaxBytes
  /\ moved' = [moved EXCEPT ![p] = @ + 1]
  /\ \E e \in Found(p) : prog' = [prog EXCEPT ![c] = [at |-> "io", pid |-> p, sock |-> s, elem |-> e]]

\* A file program has done its work; a network program goes on to the flow.
AfterIo(c) == IF prog[c].sock = None THEN Idle ELSE [prog[c] EXCEPT !.at = "trace"]

\* The entry was there: the program adds to its CPU's share of the element,
\* whichever process that belongs to by now.
IoAdd(c) ==
  /\ prog[c].at = "io"
  /\ prog[c].elem # None
  /\ LET e == prog[c].elem
     IN  /\ share' = [share EXCEPT ![e][c] = @ + 1]
         /\ disturbed' = IF slot[e] = prog[c].pid THEN disturbed
                         ELSE disturbed \cup ({prog[c].pid, slot[e]} \ {None})
  /\ prog' = [prog EXCEPT ![c] = AfterIo(c)]
  /\ UNCHANGED <<slot, moved, flowVars, recvVars>>

\* Mutant: an insert writes the shares of all CPUs.
OverThere_All(e, c) == [d \in Cpus |-> IF d = c THEN 1 ELSE 0]

\* bpf_map_update_elem(..., BPF_ANY) on a key another CPU has made meanwhile
\* replaces this CPU's share.
OverThere(e, c) == [share[e] EXCEPT ![c] = 1]

\* Mutant: a new entry has the byte in the share of every CPU.
Fresh_All(c) == [d \in Cpus |-> 1]

\* The shares of a new entry.
Fresh(c) == [d \in Cpus |-> IF d = c THEN 1 ELSE 0]

\* The entry was not there: insert.  A new key gets any element, that of
\* another key included; its shares start from zero.
IoInsert(c) ==
  /\ prog[c].at = "io"
  /\ prog[c].elem = None
  /\ LET p == prog[c].pid
     IN  \/ /\ ElemOf(p) # {}
            /\ \E e \in ElemOf(p) : share' = [share EXCEPT ![e] = OverThere(e, c)]
            /\ UNCHANGED <<slot, disturbed>>
         \/ /\ ElemOf(p) = {}
            /\ \E e \in Elems :
                 /\ slot' = [slot EXCEPT ![e] = p]
                 /\ share' = [share EXCEPT ![e] = Fresh(c)]
                 /\ disturbed' = disturbed \cup ({slot[e]} \ {None})
  /\ prog' = [prog EXCEPT ![c] = AfterIo(c)]
  /\ UNCHANGED <<moved, flowVars, recvVars>>

-----------------------------------------------------------------------------
(* The rest of add_net_io: the flow, if the process is traced.             *)

\* should_trace; user space changes target_pids at any time.
FlowLook(c) ==
  /\ prog[c].at = "trace"
  /\ \/ /\ prog' = [prog EXCEPT ![c] = Idle]
        /\ UNCHANGED flowMoved
     \/ /\ prog' = [prog EXCEPT ![c] =
                      [at |-> "flow", pid |-> prog[c].pid, sock |-> prog[c].sock,
                       ptr |-> IF flow[FlowOf(c)] = None THEN "none" ELSE "valid"]]
        /\ flowMoved' = [flowMoved EXCEPT ![FlowOf(c)] = @ + 1]
  /\ UNCHANGED <<ioVars, flow, raced, recvVars>>

\* The flow was there, and its element still is: __sync_fetch_and_add.
FlowAdd(c) ==
  /\ prog[c].at = "flow"
  /\ prog[c].ptr = "valid"
  /\ flow' = [flow EXCEPT ![FlowOf(c)] = @ + 1]
  /\ prog' = [prog EXCEPT ![c] = Idle]
  /\ UNCHANGED <<ioVars, flowMoved, raced, recvVars>>

\* The flow was there, but its element has been replaced since: it is free, or
\* another flow's by now.
FlowAddStale(c) ==
  /\ prog[c].at = "flow"
  /\ prog[c].ptr = "stale"
  /\ \/ UNCHANGED <<flow, raced>>
     \/ \E f \in Flows :
          /\ flow[f] # None
          /\ flow' = [flow EXCEPT ![f] = @ + 1]
          /\ raced' = raced \cup {f}
  /\ prog' = [prog EXCEPT ![c] = Idle]
  /\ UNCHANGED <<ioVars, flowMoved, recvVars>>

\* The program leaves; pointers of other programs to the element of f dangle if
\* it has been replaced.
Leaves(c, f) ==
  prog' = [d \in Cpus |->
             IF d = c THEN Idle
             ELSE IF prog[d].at = "flow" /\ FlowOf(d) = f /\ prog[d].ptr = "valid"
                  THEN [prog[d] EXCEPT !.ptr = "stale"] ELSE prog[d]]

\* Mutant: a new flow starts empty.
FirstByte_Lost == 0

\* What a new flow starts with.
FirstByte == 1

\* The flow was not there: insert (BPF_ANY).  If another CPU has made it
\* meanwhile its value is replaced; without room nothing is written.
FlowInsert(c) ==
  /\ prog[c].at = "flow"
  /\ prog[c].ptr = "none"
  /\ LET f == FlowOf(c)
     IN  /\ Leaves(c, f)
         /\ IF flow[f] # None \/ FlowRoom
            THEN flow' = [flow EXCEPT ![f] = FirstByte] ELSE UNCHANGED flow
         /\ raced' = IF flow[f] # None \/ ~FlowRoom THEN raced \cup {f} ELSE raced
  /\ UNCHANGED <<ioVars, flowMoved, recvVars>>

-----------------------------------------------------------------------------
(* The probes.                                                             *)

\* vfs_read, vfs_write, vfs_readv, vfs_writev and copy_file_range at their
\* return, if they moved something.
FileIo(c, p) ==
  /\ Begins(c, p, None)
  /\ UNCHANGED <<slot, share, disturbed, flowVars, recvVars>>

\* tcp_sendmsg, tcp_cleanup_rbuf and udp_sendmsg at their entry.
NetIo(c, p, s) ==
  /\ Begins(c, p, s)
  /\ UNCHANGED <<slot, share, disturbed, flowVars, recvVars>>

\* Mutant: an entry that is there already stays (BPF_NOEXIST).
Handed_First(p, s) == IF recvSk[p] = None THEN [recvSk EXCEPT ![p] = s] ELSE recvSk

\* udp_recv_sk is updated, whatever is there (BPF_ANY).
Handed(p, s) == [recvSk EXCEPT ![p] = s]

\* udp_recvmsg at its entry.  The entries of other threads may fill the map: a
\* new key may find no room.
RecvEnter(p, s) ==
  /\ receiving[p] = None
  /\ receiving' = [receiving EXCEPT ![p] = s]
  /\ \/ recvSk' = Handed(p, s)
     \/ recvSk[p] = None /\ UNCHANGED recvSk
  /\ UNCHANGED <<ioVars, flowVars, prog>>

\* Its return with a datagram: the socket comes from the map.
RecvReturn(c, p) ==
  /\ receiving[p] # None
  /\ recvSk[p] # None
  /\ Begins(c, p, recvSk[p])
  /\ receiving' = [receiving EXCEPT ![p] = None]
  /\ recvSk' = [recvSk EXCEPT ![p] = None]
  /\ UNCHANGED <<slot, share, disturbed, flowVars>>

\* Its return with an error, or with nothing in the map.
RecvNothing(p) ==
  /\ receiving[p] # None
  /\ receiving' = [receiving EXCEPT ![p] = None]
  /\ recvSk' = [recvSk EXCEPT ![p] = None]
  /\ UNCHANGED <<ioVars, flowVars, prog>>

\* Its return without the return probe: the kernel has a limited number of them.
RecvUnseen(p) ==
  /\ receiving[p] # None
  /\ receiving' = [receiving EXCEPT ![p] = None]
  /\ UNCHANGED <<ioVars, flowVars, prog, recvSk>>

-----------------------------------------------------------------------------
Program(c) == IoAdd(c) \/ IoInsert(c) \/ FlowLook(c)
              \/ FlowAdd(c) \/ FlowAddStale(c) \/ FlowInsert(c)

Probe(c, p) == \/ FileIo(c, p)
               \/ RecvReturn(c, p)
               \/ \E s \in Socks : NetIo(c, p, s)

Receive(p) == \/ RecvNothing(p) \/ RecvUnseen(p)
              \/ \E s \in Socks : RecvEnter(p, s)

Kernel == \/ \E c \in Cpus : Program(c) \/ \E p \in Pids : Probe(c, p)
          \/ \E p \in Pids : Receive(p)

KernelSpec == KernelInit /\ [][Kernel]_kernelVars

-----------------------------------------------------------------------------
\* io_stats_summed for one process: the sum of its shares, 0 without an entry.
Counted(p) ==
  IF ElemOf(p) = {} THEN 0 ELSE SumFunction(share[CHOOSE e \in ElemOf(p) : TRUE])

Reader == INSTANCE IoCounters
            WITH counter <- [p \in Pids |-> IF ElemOf(p) = {} THEN None ELSE Counted(p)]

(* Properties.                                                             *)

Pending(p) == Cardinality({c \in Cpus : prog[c].at = "io" /\ prog[c].pid = p})

PendingFlow(f) == Cardinality({c \in Cpus : prog[c].at = "flow" /\ FlowOf(c) = f})

\* A process has one entry; a pointer dangles only where a flow was replaced.
KernelTypeOK ==
  /\ slot \in [Elems -> Pids \cup {None}]
  /\ \A p \in Pids : Cardinality(ElemOf(p)) <= 1
  /\ share \in [Elems -> [Cpus -> 0..MaxBytes]]
  /\ flow \in [Flows -> 0..MaxBytes \cup {None}]
  /\ receiving \in [Pids -> Socks \cup {None}]
  /\ recvSk \in [Pids -> Socks \cup {None}]
  /\ Cardinality({f \in Flows : flow[f] # None}) <= MaxFlows
  /\ \A c \in Cpus : prog[c].at = "flow" =>
       /\ prog[c].ptr = "valid" => flow[FlowOf(c)] # None
       /\ prog[c].ptr = "stale" => FlowOf(c) \in raced

\* As long as the LRU map has not taken an entry away, not one byte is lost or
\* counted twice, also where two CPUs make the entry at the same time: the
\* shares are free of races (bpf.c:258-260).  Eviction and dangling pointers lose
\* bytes or give them to another process, but the entries together never hold
\* more than was moved.
BytesAccounted ==
  /\ \A p \in Pids \ disturbed : Counted(p) + Pending(p) = moved[p]
  /\ SumFunction([p \in Pids |-> Counted(p)]) + SumFunction([p \in Pids |-> Pending(p)]) <= SumFunction(moved)

\* A flow's counter is exact unless its first bytes came on two CPUs at once or
\* found the map full (bpf.c:357-373): the inserts are where flows lose bytes.
FlowExact ==
  \A f \in Flows \ raced :
    (IF flow[f] = None THEN 0 ELSE flow[f]) + PendingFlow(f) = flowMoved[f]

\* What a receiving thread finds in udp_recv_sk at its return is the socket it
\* receives from, also after returns that no probe has seen (bpf.c:1217, 1236).
OwnSocket == \A p \in Pids : receiving[p] # None => recvSk[p] \in {None, receiving[p]}

\* To its reader the map is a set of counters that grow by what a program adds,
\* or vanish: no interleaving of adds, inserts and evictions makes an entry
\* shrink.
ImplementsCounters == Reader!CountersSpec
=============================================================================
