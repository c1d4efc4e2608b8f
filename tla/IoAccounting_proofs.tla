-------------------------- MODULE IoAccounting_proofs --------------------------
(***************************************************************************)
(* Proofs about IoAccounting and Rates.  For any number of processors,     *)
(* processes, sockets and elements no byte is lost or counted twice but by *)
(* evictions and first bytes that meet, and to its reader the map is       *)
(* IoCounters; and a poller of such counters publishes what was counted.   *)
(*                                                                         *)
(* What the counts rest on: a process has one entry; a program that holds  *)
(* an element holds one that was taken, and a program that has found none  *)
(* finds, if another processor has made the entry meanwhile, its own share *)
(* of it empty.  For a flow, a pointer is to an entry that is still there, *)
(* or the flow is among those that raced.                                  *)
(***************************************************************************)
EXTENDS IoAccounting, Rates, SumTheorems

Programs ==
  {Idle}
  \cup [at : {"io"}, pid : Pids, sock : Socks \cup {None}, elem : Elems \cup {None}]
  \cup [at : {"trace"}, pid : Pids, sock : Socks, elem : Elems \cup {None}]
  \cup [at : {"flow"}, pid : Pids, sock : Socks, ptr : {"none", "valid", "stale"}]

\* The shapes, without the bounds on numbers of bytes.
Shapes ==
  /\ slot \in [Elems -> Pids \cup {None}]
  /\ share \in [Elems -> [Cpus -> Nat]]
  /\ flow \in [Flows -> Nat \cup {None}]
  /\ prog \in [Cpus -> Programs]
  /\ receiving \in [Pids -> Socks \cup {None}]
  /\ recvSk \in [Pids -> Socks \cup {None}]
  /\ moved \in [Pids -> Nat]
  /\ flowMoved \in [Flows -> Nat]
  /\ disturbed \subseteq Pids
  /\ raced \subseteq Flows

\* No process has two entries.
OneEntry == \A e, g \in Elems : slot[e] = slot[g] /\ slot[e] # None => e = g

\* Elements that nobody has taken yet count nothing.
Unused == \A e \in Elems, c \in Cpus : slot[e] = None => share[e][c] = 0

\* An element that a program has found was taken and is still, by whomever.  The
\* entry that a program has not found has nothing in the share of its processor.
Pointers ==
  \A c \in Cpus : prog[c].at = "io" =>
    /\ prog[c].elem # None => slot[prog[c].elem] # None
    /\ prog[c].elem = None => \A e \in Elems : slot[e] = prog[c].pid => share[e][c] = 0

\* The bound on bytes.
Ceiling == SumFunction(moved) <= MaxBytes

\* Pointers to flows dangle only where a flow has been replaced.
FlowPointers ==
  \A c \in Cpus : prog[c].at = "flow" =>
    /\ prog[c].ptr = "valid" => flow[FlowOf(c)] # None
    /\ prog[c].ptr = "stale" => FlowOf(c) \in raced

FlowsFit == Cardinality({f \in Flows : flow[f] # None}) <= MaxFlows

FlowValue(f) == IF flow[f] = None THEN 0 ELSE flow[f]

Busy == {c \in Cpus : prog[c] # Idle}

\* The flows together hold at most what has been moved, less what programs are
\* still to add.
FlowsBounded ==
  SumFunction([f \in Flows |-> FlowValue(f)]) + Cardinality(Busy) <= SumFunction(moved)

\* The two parts of BytesAccounted.
Exact == \A p \in Pids \ disturbed : Counted(p) + Pending(p) = moved[p]

Within ==
  SumFunction([p \in Pids |-> Counted(p)]) + SumFunction([p \in Pids |-> Pending(p)]) <= SumFunction(moved)

IInv ==
  /\ Shapes
  /\ OneEntry /\ Unused /\ Pointers
  /\ Ceiling /\ Exact /\ Within
  /\ FlowPointers /\ FlowsFit /\ FlowExact /\ FlowsBounded
  /\ OwnSocket

-----------------------------------------------------------------------------
(* Programs and sets of programs.                                          *)

\* What a program is made of.
LEMMA ProgramParts ==
  ASSUME NEW r \in Programs
  PROVE  /\ r.at \in {"idle", "io", "trace", "flow"}
         /\ r.at = "idle" <=> r = Idle
         /\ r.at # "idle" => r.pid \in Pids
         /\ r.at = "io" => r.sock \in Socks \cup {None} /\ r.elem \in Elems \cup {None}
         /\ r.at \in {"trace", "flow"} => r.sock \in Socks
         /\ r.at = "flow" => r.ptr \in {"none", "valid", "stale"}
<1>1. CASE r = Idle
  BY <1>1 DEF Idle
<1>2. CASE r \in [at : {"io"}, pid : Pids, sock : Socks \cup {None}, elem : Elems \cup {None}]
  BY <1>2 DEF Idle
<1>3. CASE r \in [at : {"trace"}, pid : Pids, sock : Socks, elem : Elems \cup {None}]
  BY <1>3 DEF Idle
<1>4. CASE r \in [at : {"flow"}, pid : Pids, sock : Socks, ptr : {"none", "valid", "stale"}]
  BY <1>4 DEF Idle
<1> QED BY <1>1, <1>2, <1>3, <1>4 DEF Programs

\* What a program turns into.
LEMMA ProgramSteps ==
  ASSUME NEW r \in Programs
  PROVE  /\ r.at = "io" /\ r.sock # None => /\ [r EXCEPT !.at = "trace"] \in Programs
                                            /\ [r EXCEPT !.at = "trace"].at = "trace"
         /\ r.at = "flow" => LET s == [r EXCEPT !.ptr = "stale"]
                             IN  /\ s \in Programs /\ s.at = "flow"
                                 /\ s.pid = r.pid /\ s.sock = r.sock /\ s.ptr = "stale"
<1>1. ASSUME r.at = "io", r.sock # None
      PROVE  [r EXCEPT !.at = "trace"] \in Programs /\ [r EXCEPT !.at = "trace"].at = "trace"
  <2>1. r \in [at : {"io"}, pid : Pids, sock : Socks \cup {None}, elem : Elems \cup {None}]
    BY <1>1 DEF Programs, Idle
  <2> QED BY <1>1, <2>1 DEF Programs
<1>2. ASSUME r.at = "flow"
      PROVE  LET s == [r EXCEPT !.ptr = "stale"]
             IN  /\ s \in Programs /\ s.at = "flow"
                 /\ s.pid = r.pid /\ s.sock = r.sock /\ s.ptr = "stale"
  <2>1. r \in [at : {"flow"}, pid : Pids, sock : Socks, ptr : {"none", "valid", "stale"}]
    BY <1>2 DEF Programs, Idle
  <2> QED BY <2>1 DEF Programs
<1> QED BY <1>1, <1>2

\* A set of processors counts one more when c joins, and one less when c leaves.
LEMMA CountCpus ==
  ASSUME NEW c \in Cpus, NEW A \in SUBSET Cpus, NEW B \in SUBSET Cpus,
         \A d \in Cpus : d # c => (d \in A <=> d \in B)
  PROVE  /\ Cardinality(A) \in Nat /\ Cardinality(B) \in Nat
         /\ (c \in A <=> c \in B) => Cardinality(B) = Cardinality(A)
         /\ c \notin A /\ c \in B => Cardinality(B) = Cardinality(A) + 1
         /\ c \in A /\ c \notin B => Cardinality(B) = Cardinality(A) - 1
<1>1. IsFiniteSet(A) /\ IsFiniteSet(B) /\ Cardinality(A) \in Nat /\ Cardinality(B) \in Nat
  BY FiniteAssumption, FS_Subset, FS_CardinalityType
<1>2. CASE c \in A <=> c \in B
  <2>1. A = B
    BY <1>2
  <2> QED BY <1>1, <1>2, <2>1
<1>3. CASE c \notin A /\ c \in B
  <2>1. B = A \cup {c}
    BY <1>3
  <2> QED BY <1>1, <1>3, <2>1, FS_AddElement
<1>4. CASE c \in A /\ c \notin B
  <2>1. B = A \ {c}
    BY <1>4
  <2> QED BY <1>1, <1>4, <2>1, FS_RemoveElement
<1> QED BY <1>2, <1>3, <1>4

\* Pending, PendingFlow and Busy are counts of processors.
LEMMA PendingNat ==
  /\ \A p \in Pids : Pending(p) \in Nat
  /\ \A f \in Flows : PendingFlow(f) \in Nat
  /\ Cardinality(Busy) \in Nat
<1>1. \A A \in SUBSET Cpus : Cardinality(A) \in Nat
  BY FiniteAssumption, FS_Subset, FS_CardinalityType
<1> QED BY <1>1 DEF Pending, PendingFlow, Busy

\* There are finitely many flows.
LEMMA FlowsFinite == IsFiniteSet(Flows)
BY FiniteAssumption, FS_Product DEF Flows

-----------------------------------------------------------------------------
(* The entries as their reader sees them.                                  *)

\* A process's count is the sum over its one element.
LEMMA CountedIs ==
  Shapes /\ OneEntry =>
    \A p \in Pids : /\ \A e \in Elems : slot[e] = p => /\ ElemOf(p) = {e}
                                                       /\ Counted(p) = SumFunction(share[e])
                    /\ (\A e \in Elems : slot[e] # p) => ElemOf(p) = {} /\ Counted(p) = 0
                    /\ Counted(p) \in Nat
<1> SUFFICES ASSUME Shapes, OneEntry, NEW p \in Pids
             PROVE  /\ \A e \in Elems : slot[e] = p => /\ ElemOf(p) = {e}
                                                       /\ Counted(p) = SumFunction(share[e])
                    /\ (\A e \in Elems : slot[e] # p) => ElemOf(p) = {} /\ Counted(p) = 0
                    /\ Counted(p) \in Nat
  OBVIOUS
<1>1. p # None
  BY NoneAssumption
<1>2. ASSUME NEW e \in Elems, slot[e] = p
      PROVE  ElemOf(p) = {e} /\ Counted(p) = SumFunction(share[e]) /\ Counted(p) \in Nat
  <2>1. ElemOf(p) = {e}
    BY <1>1, <1>2 DEF OneEntry, ElemOf
  <2>2. (CHOOSE x \in {e} : TRUE) = e
    OBVIOUS
  <2>3. Counted(p) = SumFunction(share[e])
    BY <2>1, <2>2 DEF Counted
  <2>4. share[e] \in [Cpus -> Nat]
    BY DEF Shapes
  <2>5. SumFunction(share[e]) \in Nat
    BY <2>4, FiniteAssumption, SumNat
  <2> QED BY <2>1, <2>3, <2>5
<1>3. (\A e \in Elems : slot[e] # p) => ElemOf(p) = {} /\ Counted(p) = 0
  BY DEF ElemOf, Counted
<1> QED BY <1>2, <1>3

\* The same after a step.
LEMMA CountedAfter ==
  ASSUME slot' \in [Elems -> Pids \cup {None}], share' \in [Elems -> [Cpus -> Nat]], OneEntry'
  PROVE  \A p \in Pids : /\ \A e \in Elems : slot'[e] = p => /\ ElemOf(p)' = {e}
                                                             /\ Counted(p)' = SumFunction(share'[e])
                         /\ (\A e \in Elems : slot'[e] # p) => ElemOf(p)' = {} /\ Counted(p)' = 0
                         /\ Counted(p)' \in Nat
<1> SUFFICES ASSUME NEW p \in Pids
             PROVE  /\ \A e \in Elems : slot'[e] = p => /\ ElemOf(p)' = {e}
                                                        /\ Counted(p)' = SumFunction(share'[e])
                    /\ (\A e \in Elems : slot'[e] # p) => ElemOf(p)' = {} /\ Counted(p)' = 0
                    /\ Counted(p)' \in Nat
  OBVIOUS
<1>1. p # None
  BY NoneAssumption
<1>2. ASSUME NEW e \in Elems, slot'[e] = p
      PROVE  ElemOf(p)' = {e} /\ Counted(p)' = SumFunction(share'[e]) /\ Counted(p)' \in Nat
  <2>1. ElemOf(p)' = {e}
    BY <1>1, <1>2 DEF OneEntry, ElemOf
  <2>2. (CHOOSE x \in {e} : TRUE) = e
    OBVIOUS
  <2>3. Counted(p)' = SumFunction(share'[e])
    BY <2>1, <2>2 DEF Counted
  <2>4. SumFunction(share'[e]) \in Nat
    BY FiniteAssumption, SumNat
  <2> QED BY <2>1, <2>3, <2>4
<1>3. (\A e \in Elems : slot'[e] # p) => ElemOf(p)' = {} /\ Counted(p)' = 0
  BY DEF ElemOf, Counted
<1> QED BY <1>2, <1>3

\* The initial states satisfy the invariant.
LEMMA InitIInv == KernelInit => IInv
<1> SUFFICES ASSUME KernelInit PROVE IInv
  OBVIOUS
<1>1. Shapes
  BY DEF KernelInit, Shapes, Programs
<1>2. /\ \A e \in Elems : slot[e] = None
      /\ \A e \in Elems, c \in Cpus : share[e][c] = 0
      /\ \A c \in Cpus : prog[c].at = "idle" /\ prog[c] = Idle
      /\ \A f \in Flows : flow[f] = None
  BY DEF KernelInit, Idle
<1>3. OneEntry /\ Unused /\ Pointers /\ FlowPointers
  BY <1>2 DEF OneEntry, Unused, Pointers, FlowPointers
<1>4. Cardinality({}) = 0
  BY FS_EmptySet
<1>5. /\ \A p \in Pids : Pending(p) = 0
      /\ \A f \in Flows : PendingFlow(f) = 0
      /\ Busy = {}
  <2>1. \A p \in Pids : {c \in Cpus : prog[c].at = "io" /\ prog[c].pid = p} = {}
    BY <1>2
  <2>2. \A f \in Flows : {c \in Cpus : prog[c].at = "flow" /\ FlowOf(c) = f} = {}
    BY <1>2
  <2> QED BY <1>2, <1>4, <2>1, <2>2 DEF Pending, PendingFlow, Busy
<1>6. \A p \in Pids : Counted(p) = 0
  <2>1. \A p \in Pids, e \in Elems : slot[e] # p
    BY <1>2, NoneAssumption
  <2> QED BY <1>1, <1>3, <2>1, CountedIs
<1>7. SumFunction(moved) = 0
  BY FiniteAssumption, SumZero DEF KernelInit
<1>8. Ceiling
  BY <1>7, BoundsAssumption DEF Ceiling
<1>9. Exact
  BY <1>5, <1>6 DEF Exact, KernelInit
<1>10. Within
  <2> DEFINE C == [p \in Pids |-> Counted(p)]
             P == [p \in Pids |-> Pending(p)]
  <2>1. C \in [Pids -> Nat] /\ P \in [Pids -> Nat] /\ \A p \in Pids : C[p] = 0 /\ P[p] = 0
    BY <1>5, <1>6
  <2> HIDE DEF C, P
  <2>2. SumFunction(C) = 0 /\ SumFunction(P) = 0
    BY <2>1, FiniteAssumption, SumZero
  <2> QED BY <1>7, <2>2 DEF Within, C, P
<1>11. FlowsFit
  <2>1. {f \in Flows : flow[f] # None} = {}
    BY <1>2
  <2> QED BY <1>4, <2>1, BoundsAssumption DEF FlowsFit
<1>12. FlowExact
  BY <1>2, <1>5 DEF FlowExact, KernelInit
<1>13. FlowsBounded
  <2> DEFINE V == [f \in Flows |-> FlowValue(f)]
  <2>1. V \in [Flows -> Nat] /\ \A f \in Flows : V[f] = 0
    BY <1>2 DEF FlowValue
  <2> HIDE DEF V
  <2>2. SumFunction(V) = 0
    BY <2>1, FlowsFinite, SumZero
  <2> QED BY <1>4, <1>5, <1>7, <2>2 DEF FlowsBounded, V
<1>14. OwnSocket
  BY DEF OwnSocket, KernelInit
<1> QED BY <1>1, <1>3, <1>8, <1>9, <1>10, <1>11, <1>12, <1>13, <1>14 DEF IInv

-----------------------------------------------------------------------------
(* add_file_io and add_net_io: the entry of the process.                   *)

\* The program on c goes on, to what is no longer the process's entry.
GoesOn(c) ==
  /\ prog' \in [Cpus -> Programs]
  /\ prog'[c].at \in {"idle", "trace"}
  /\ \A d \in Cpus : d # c => prog'[d] = prog[d]

\* A byte is added to c's share of the element e.
Added(c, e) ==
  /\ slot' = slot
  /\ share' \in [Elems -> [Cpus -> Nat]]
  /\ share'[e][c] = share[e][c] + 1
  /\ \A d \in Cpus : d # c => share'[e][d] = share[e][d]
  /\ \A g \in Elems : g # e => share'[g] = share[g]

\* The element e is taken for p and holds a byte in c's share.
Taken(c, e, p) ==
  /\ slot' \in [Elems -> Pids \cup {None}]
  /\ slot'[e] = p
  /\ \A g \in Elems : g # e => slot'[g] = slot[g] /\ share'[g] = share[g]
  /\ share' \in [Elems -> [Cpus -> Nat]]
  /\ share'[e][c] = 1
  /\ \A d \in Cpus : d # c => share'[e][d] = 0

\* What a program does to the elements.
EntryStep(c) ==
  \/ \E e \in Elems : /\ Added(c, e)
                      /\ slot[e] \in Pids
                      /\ disturbed' = IF slot[e] = prog[c].pid THEN disturbed
                                      ELSE disturbed \cup {prog[c].pid, slot[e]}
  \/ \E e \in Elems : /\ \A g \in Elems : slot[g] # prog[c].pid
                      /\ Taken(c, e, prog[c].pid)
                      /\ disturbed' = disturbed \cup ({slot[e]} \ {None})

\* Whether a program goes on to the flow or not, it is past the entry.
LEMMA AfterIoGoesOn ==
  ASSUME Shapes, NEW c \in Cpus, prog[c].at = "io", prog' = [prog EXCEPT ![c] = AfterIo(c)]
  PROVE  GoesOn(c)
<1>1. prog \in [Cpus -> Programs] /\ prog[c] \in Programs
  BY DEF Shapes
<1>2. AfterIo(c) \in Programs /\ AfterIo(c).at \in {"idle", "trace"}
  <2>1. CASE prog[c].sock = None
    BY <2>1 DEF AfterIo, Programs, Idle
  <2>2. CASE prog[c].sock # None
    BY <1>1, <2>2, ProgramSteps DEF AfterIo
  <2> QED BY <2>1, <2>2
<1> HIDE DEF AfterIo
<1> QED BY <1>1, <1>2 DEF GoesOn

\* An add through a pointer adds to an element that is somebody's.
LEMMA IoAddCase ==
  ASSUME IInv, NEW c \in Cpus, IoAdd(c)
  PROVE  /\ prog[c].at = "io" /\ prog[c].pid \in Pids
         /\ GoesOn(c) /\ EntryStep(c)
         /\ UNCHANGED <<moved, flow, flowMoved, raced, receiving, recvSk>>
<1> DEFINE e == prog[c].elem
<1>1. /\ prog[c].at = "io" /\ e # None
      /\ prog' = [prog EXCEPT ![c] = AfterIo(c)]
      /\ UNCHANGED <<slot, moved, flow, flowMoved, raced, receiving, recvSk>>
      /\ share' = [share EXCEPT ![e][c] = @ + 1]
      /\ disturbed' = IF slot[e] = prog[c].pid THEN disturbed
                      ELSE disturbed \cup ({prog[c].pid, slot[e]} \ {None})
  BY DEF IoAdd, flowVars, recvVars
<1>2. Shapes /\ Pointers
  BY DEF IInv
<1>3. prog[c] \in Programs /\ slot \in [Elems -> Pids \cup {None}] /\ share \in [Elems -> [Cpus -> Nat]]
  BY <1>2 DEF Shapes
<1>4. e \in Elems /\ prog[c].pid \in Pids
  BY <1>1, <1>3, ProgramParts
<1>5. slot[e] \in Pids
  BY <1>1, <1>2, <1>3, <1>4 DEF Pointers
<1>6. GoesOn(c)
  BY <1>1, <1>2, AfterIoGoesOn
<1> HIDE DEF e
<1>7. Added(c, e)
  BY <1>1, <1>3, <1>4 DEF Added
<1>8. disturbed' = IF slot[e] = prog[c].pid THEN disturbed
                   ELSE disturbed \cup {prog[c].pid, slot[e]}
  BY <1>1, <1>4, <1>5, NoneAssumption
<1> QED BY <1>1, <1>4, <1>5, <1>6, <1>7, <1>8 DEF EntryStep

\* An insert adds to the entry that is there by now, whose share is empty, or
\* takes an element.
LEMMA IoInsertCase ==
  ASSUME IInv, NEW c \in Cpus, IoInsert(c)
  PROVE  /\ prog[c].at = "io" /\ prog[c].pid \in Pids
         /\ GoesOn(c) /\ EntryStep(c)
         /\ UNCHANGED <<moved, flow, flowMoved, raced, receiving, recvSk>>
<1> DEFINE p == prog[c].pid
<1>1. /\ prog[c].at = "io" /\ prog[c].elem = None
      /\ prog' = [prog EXCEPT ![c] = AfterIo(c)]
      /\ UNCHANGED <<moved, flow, flowMoved, raced, receiving, recvSk>>
      /\ \/ /\ \E e \in ElemOf(p) : share' = [share EXCEPT ![e] = OverThere(e, c)]
            /\ UNCHANGED <<slot, disturbed>>
         \/ /\ ElemOf(p) = {}
            /\ \E e \in Elems :
                 /\ slot' = [slot EXCEPT ![e] = p]
                 /\ share' = [share EXCEPT ![e] = Fresh(c)]
                 /\ disturbed' = disturbed \cup ({slot[e]} \ {None})
  BY DEF IoInsert, flowVars, recvVars
<1>2. Shapes /\ Pointers
  BY DEF IInv
<1>3. prog[c] \in Programs /\ slot \in [Elems -> Pids \cup {None}] /\ share \in [Elems -> [Cpus -> Nat]]
  BY <1>2 DEF Shapes
<1>4. p \in Pids
  BY <1>1, <1>3, ProgramParts
<1>5. GoesOn(c)
  BY <1>1, <1>2, AfterIoGoesOn
<1>6. ASSUME NEW e \in ElemOf(p), share' = [share EXCEPT ![e] = OverThere(e, c)], UNCHANGED <<slot, disturbed>>
      PROVE  EntryStep(c)
  <2>1. e \in Elems /\ slot[e] = p
    BY <1>6 DEF ElemOf
  <2>2. share[e][c] = 0
    BY <1>1, <1>2, <2>1 DEF Pointers
  <2> HIDE DEF p
  <2>3. share' = [share EXCEPT ![e] = [share[e] EXCEPT ![c] = 1]]
    BY <1>6 DEF OverThere
  <2>4. Added(c, e)
    BY <1>3, <1>6, <2>1, <2>2, <2>3 DEF Added
  <2> QED BY <1>4, <1>6, <2>1, <2>4 DEF EntryStep, p
<1>7. ASSUME NEW e \in Elems, ElemOf(p) = {}, slot' = [slot EXCEPT ![e] = p],
             share' = [share EXCEPT ![e] = Fresh(c)], disturbed' = disturbed \cup ({slot[e]} \ {None})
      PROVE  EntryStep(c)
  <2>1. \A g \in Elems : slot[g] # p
    BY <1>7 DEF ElemOf
  <2>2. Fresh(c) \in [Cpus -> Nat] /\ Fresh(c)[c] = 1 /\ \A d \in Cpus : d # c => Fresh(c)[d] = 0
    BY DEF Fresh
  <2> HIDE DEF p
  <2>3. Taken(c, e, p)
    BY <1>3, <1>4, <1>7, <2>2 DEF Taken
  <2> QED BY <1>7, <2>1, <2>3 DEF EntryStep, p
<1> QED BY <1>1, <1>4, <1>5, <1>6, <1>7

\* Either way the elements stay in order.
LEMMA EntryOrder ==
  ASSUME IInv, NEW c \in Cpus, prog[c].at = "io", prog[c].pid \in Pids, GoesOn(c), EntryStep(c)
  PROVE  /\ slot' \in [Elems -> Pids \cup {None}] /\ share' \in [Elems -> [Cpus -> Nat]]
         /\ disturbed' \subseteq Pids
         /\ OneEntry' /\ Unused' /\ Pointers'
<1> DEFINE p == prog[c].pid
<1>1. /\ slot \in [Elems -> Pids \cup {None}] /\ share \in [Elems -> [Cpus -> Nat]] /\ disturbed \subseteq Pids
      /\ prog \in [Cpus -> Programs]
  BY DEF IInv, Shapes
<1>2. OneEntry /\ Unused /\ Pointers
  BY DEF IInv
<1>3. p \in Pids /\ p # None
  BY NoneAssumption
<1>4. /\ prog'[c].at # "io"
      /\ \A d \in Cpus : d # c => prog'[d] = prog[d]
  BY DEF GoesOn
<1>5. \A d \in Cpus : prog[d].at = "io" /\ prog[d].elem # None => prog[d].elem \in Elems
  BY <1>1, ProgramParts
<1> HIDE DEF p
<1>6. ASSUME NEW e \in Elems, Added(c, e), slot[e] \in Pids,
             disturbed' = IF slot[e] = p THEN disturbed ELSE disturbed \cup {p, slot[e]}
      PROVE  /\ slot' \in [Elems -> Pids \cup {None}] /\ share' \in [Elems -> [Cpus -> Nat]]
             /\ disturbed' \subseteq Pids
             /\ OneEntry' /\ Unused' /\ Pointers'
  <2>1. slot' = slot /\ share' \in [Elems -> [Cpus -> Nat]]
    BY <1>6 DEF Added
  <2>2. \A g \in Elems, d \in Cpus : g # e \/ d # c => share'[g][d] = share[g][d]
    BY <1>6 DEF Added
  <2>3. disturbed' \subseteq Pids
    BY <1>1, <1>3, <1>6
  <2>4. OneEntry'
    BY <1>2, <2>1 DEF OneEntry
  <2>5. Unused'
    BY <1>2, <1>6, <2>1, <2>2, NoneAssumption DEF Unused
  <2>6. Pointers'
    BY <1>2, <1>4, <2>1, <2>2 DEF Pointers
  <2> QED BY <1>1, <2>1, <2>3, <2>4, <2>5, <2>6
<1>7. ASSUME NEW e \in Elems, \A g \in Elems : slot[g] # p, Taken(c, e, p),
             disturbed' = disturbed \cup ({slot[e]} \ {None})
      PROVE  /\ slot' \in [Elems -> Pids \cup {None}] /\ share' \in [Elems -> [Cpus -> Nat]]
             /\ disturbed' \subseteq Pids
             /\ OneEntry' /\ Unused' /\ Pointers'
  <2>1. /\ slot' \in [Elems -> Pids \cup {None}] /\ share' \in [Elems -> [Cpus -> Nat]]
        /\ slot'[e] = p
        /\ \A g \in Elems : g # e => slot'[g] = slot[g] /\ share'[g] = share[g]
        /\ \A d \in Cpus : d # c => share'[e][d] = 0
    BY <1>7 DEF Taken
  <2>2. disturbed' \subseteq Pids
    BY <1>1, <1>7
  <2>3. OneEntry'
    BY <1>2, <1>7, <2>1 DEF OneEntry
  <2>4. Unused'
    BY <1>2, <1>3, <2>1 DEF Unused
  <2>5. ASSUME NEW d \in Cpus, prog'[d].at = "io"
        PROVE  /\ prog'[d].elem # None => slot'[prog'[d].elem] # None
               /\ prog'[d].elem = None => \A g \in Elems : slot'[g] = prog'[d].pid => share'[g][d] = 0
    <3>1. d # c /\ prog'[d] = prog[d]
      BY <1>4, <2>5
    <3>2. /\ prog[d].elem # None => prog[d].elem \in Elems /\ slot[prog[d].elem] # None
          /\ prog[d].elem = None => \A g \in Elems : slot[g] = prog[d].pid => share[g][d] = 0
      BY <1>2, <1>5, <2>5, <3>1 DEF Pointers
    <3>3. prog[d].elem # None => slot'[prog[d].elem] # None
      BY <1>3, <2>1, <3>2
    <3>4. prog[d].elem = None => \A g \in Elems : slot'[g] = prog[d].pid => share'[g][d] = 0
      BY <2>1, <3>1, <3>2
    <3> QED BY <3>1, <3>3, <3>4
  <2>6. Pointers'
    BY <2>5 DEF Pointers
  <2> QED BY <2>1, <2>2, <2>3, <2>4, <2>6
<1> QED BY <1>6, <1>7 DEF EntryStep, p

\* Either way the reader sees one counter grow by one, and none or one vanish.
LEMMA EntryCounts ==
  ASSUME IInv, NEW c \in Cpus, prog[c].at = "io", prog[c].pid \in Pids, GoesOn(c), EntryStep(c)
  PROVE  \E q \in Pids, gone \in SUBSET Pids :
           /\ q \notin gone
           /\ ElemOf(q)' # {} /\ Counted(q)' = Counted(q) + 1
           /\ \A r \in gone : ElemOf(r)' = {} /\ Counted(r)' = 0
           /\ \A r \in Pids : r # q /\ r \notin gone =>
                (ElemOf(r)' = {} <=> ElemOf(r) = {}) /\ Counted(r)' = Counted(r)
           /\ disturbed \cup gone \subseteq disturbed'
           /\ q # prog[c].pid => {q, prog[c].pid} \subseteq disturbed'
<1>1. /\ slot \in [Elems -> Pids \cup {None}] /\ share \in [Elems -> [Cpus -> Nat]]
      /\ Shapes /\ OneEntry
  BY DEF IInv, Shapes
<1>2. /\ slot' \in [Elems -> Pids \cup {None}] /\ share' \in [Elems -> [Cpus -> Nat]]
      /\ OneEntry'
  BY EntryOrder
<1>3. \A q \in Pids : /\ \A e \in Elems : slot[e] = q => /\ ElemOf(q) = {e}
                                                         /\ Counted(q) = SumFunction(share[e])
                      /\ (\A e \in Elems : slot[e] # q) => ElemOf(q) = {} /\ Counted(q) = 0
  BY <1>1, CountedIs
<1>4. \A q \in Pids : /\ \A e \in Elems : slot'[e] = q => /\ ElemOf(q)' = {e}
                                                          /\ Counted(q)' = SumFunction(share'[e])
                      /\ (\A e \in Elems : slot'[e] # q) => ElemOf(q)' = {} /\ Counted(q)' = 0
  BY <1>2, CountedAfter
<1>5. PICK p \in Pids : p = prog[c].pid /\ p # None
  BY NoneAssumption
<1> DEFINE Effect(q, gone) ==
             /\ q \notin gone
             /\ ElemOf(q)' # {} /\ Counted(q)' = Counted(q) + 1
             /\ \A r \in gone : ElemOf(r)' = {} /\ Counted(r)' = 0
             /\ \A r \in Pids : r # q /\ r \notin gone =>
                  (ElemOf(r)' = {} <=> ElemOf(r) = {}) /\ Counted(r)' = Counted(r)
             /\ disturbed \cup gone \subseteq disturbed'
             /\ q # p => {q, p} \subseteq disturbed'
<1>6. ASSUME NEW e \in Elems, Added(c, e), slot[e] \in Pids,
             disturbed' = IF slot[e] = p THEN disturbed ELSE disturbed \cup {p, slot[e]}
      PROVE  \E q \in Pids : Effect(q, {})
  <2>0. PICK q \in Pids : q = slot[e]
    BY <1>6
  <2>1. slot' = slot /\ \A g \in Elems : g # e => share'[g] = share[g]
    BY <1>6 DEF Added
  <2>2. SumFunction(share'[e]) = SumFunction(share[e]) + 1
    <3>1. /\ share[e] \in [Cpus -> Nat] /\ share'[e] \in [Cpus -> Nat]
          /\ share'[e][c] = share[e][c] + 1
          /\ \A d \in Cpus : d # c => share'[e][d] = share[e][d]
      BY <1>1, <1>2, <1>6 DEF Added
    <3> QED BY <3>1, FiniteAssumption, SumGrows
  <2>3. ElemOf(q)' # {} /\ Counted(q)' = Counted(q) + 1
    BY <1>3, <1>4, <2>0, <2>1, <2>2
  <2>4. ASSUME NEW r \in Pids, r # q
        PROVE  (ElemOf(r)' = {} <=> ElemOf(r) = {}) /\ Counted(r)' = Counted(r)
    <3>1. CASE \E g \in Elems : slot[g] = r
      <4>1. PICK g \in Elems : slot[g] = r
        BY <3>1
      <4>2. g # e
        BY <2>0, <2>4, <4>1
      <4> QED BY <1>3, <1>4, <2>1, <4>1, <4>2
    <3>2. CASE \A g \in Elems : slot[g] # r
      BY <1>3, <1>4, <2>1, <3>2
    <3> QED BY <3>1, <3>2
  <2> QED BY <1>6, <2>0, <2>3, <2>4
<1>7. ASSUME NEW e \in Elems, \A g \in Elems : slot[g] # p, Taken(c, e, p),
             disturbed' = disturbed \cup ({slot[e]} \ {None})
      PROVE  Effect(p, {slot[e]} \ {None})
  <2> DEFINE gone == {slot[e]} \ {None}
  <2>1. /\ slot'[e] = p
        /\ \A g \in Elems : g # e => slot'[g] = slot[g] /\ share'[g] = share[g]
    BY <1>7 DEF Taken
  <2>2. SumFunction(share'[e]) = 1
    <3>1. /\ share'[e] \in [Cpus -> Nat] /\ share'[e][c] = 1
          /\ \A d \in Cpus : d # c => share'[e][d] = 0
      BY <1>2, <1>7 DEF Taken
    <3> QED BY <3>1, FiniteAssumption, SumSingle
  <2>3. ElemOf(p)' # {} /\ Counted(p)' = Counted(p) + 1
    <3>1. ElemOf(p)' = {e} /\ Counted(p)' = SumFunction(share'[e])
      BY <1>4, <1>5, <2>1
    <3>2. Counted(p) = 0
      BY <1>3, <1>5, <1>7
    <3> QED BY <2>2, <3>1, <3>2
  <2>4. ASSUME NEW r \in gone PROVE ElemOf(r)' = {} /\ Counted(r)' = 0
    <3>1. r = slot[e] /\ r \in Pids /\ r # p
      BY <1>1, <1>7
    <3>2. \A g \in Elems : slot'[g] # r
      BY <1>1, <2>1, <3>1, NoneAssumption DEF OneEntry
    <3> QED BY <1>4, <3>1, <3>2
  <2>5. ASSUME NEW r \in Pids, r # p, r \notin gone
        PROVE  (ElemOf(r)' = {} <=> ElemOf(r) = {}) /\ Counted(r)' = Counted(r)
    <3>1. slot[e] # r
      BY <2>5, NoneAssumption
    <3>2. CASE \E g \in Elems : slot[g] = r
      <4>1. PICK g \in Elems : slot[g] = r
        BY <3>2
      <4>2. g # e
        BY <3>1, <4>1
      <4> QED BY <1>3, <1>4, <2>1, <4>1, <4>2
    <3>3. CASE \A g \in Elems : slot[g] # r
      <4>1. \A g \in Elems : slot'[g] # r
        BY <2>1, <2>5, <3>3
      <4> QED BY <1>3, <1>4, <3>3, <4>1
    <3> QED BY <3>2, <3>3
  <2> QED BY <1>7, <2>3, <2>4, <2>5
<1>8. ASSUME NEW e \in Elems PROVE {slot[e]} \ {None} \in SUBSET Pids
  BY <1>1
<1>9. \E q \in Pids, gone \in SUBSET Pids : Effect(q, gone)
  <2> HIDE DEF Effect
  <2> QED BY <1>5, <1>6, <1>7, <1>8 DEF EntryStep
<1> QED BY <1>5, <1>9

\* The program that goes on is pending no more for its process, and for a flow
\* it is not pending yet.
LEMMA PendingDrops ==
  ASSUME Shapes, NEW c \in Cpus, prog[c].at = "io", GoesOn(c)
  PROVE  /\ \A q \in Pids : Pending(q)' = IF q = prog[c].pid THEN Pending(q) - 1 ELSE Pending(q)
         /\ \A f \in Flows : PendingFlow(f)' = PendingFlow(f)
         /\ Cardinality(Busy)' <= Cardinality(Busy) /\ Cardinality(Busy)' \in Nat
<1>1. /\ prog'[c].at \in {"idle", "trace"}
      /\ \A d \in Cpus : d # c => prog'[d] = prog[d]
  BY DEF GoesOn
<1>2. ASSUME NEW q \in Pids
      PROVE  Pending(q)' = IF q = prog[c].pid THEN Pending(q) - 1 ELSE Pending(q)
  <2> DEFINE A == {d \in Cpus : prog[d].at = "io" /\ prog[d].pid = q}
             B == {d \in Cpus : prog'[d].at = "io" /\ prog'[d].pid = q}
  <2>1. /\ A \in SUBSET Cpus /\ B \in SUBSET Cpus
        /\ \A d \in Cpus : d # c => (d \in A <=> d \in B)
        /\ c \notin B /\ (c \in A <=> prog[c].pid = q)
    BY <1>1
  <2> HIDE DEF A, B
  <2>2. Cardinality(B) = IF q = prog[c].pid THEN Cardinality(A) - 1 ELSE Cardinality(A)
    BY <2>1, CountCpus
  <2> QED BY <2>2 DEF Pending, A, B
<1>3. ASSUME NEW f \in Flows PROVE PendingFlow(f)' = PendingFlow(f)
  <2>1. {d \in Cpus : prog'[d].at = "flow" /\ FlowOf(d)' = f} = {d \in Cpus : prog[d].at = "flow" /\ FlowOf(d) = f}
    BY <1>1 DEF FlowOf
  <2> QED BY <2>1 DEF PendingFlow
<1>4. Cardinality(Busy)' <= Cardinality(Busy) /\ Cardinality(Busy)' \in Nat
  <2> DEFINE B == {d \in Cpus : prog'[d] # Idle}
  <2>1. /\ Busy \in SUBSET Cpus /\ B \in SUBSET Cpus /\ c \in Busy
        /\ \A d \in Cpus : d # c => (d \in Busy <=> d \in B)
    BY <1>1 DEF Busy, Idle
  <2> HIDE DEF B
  <2>2. Cardinality(B) <= Cardinality(Busy) /\ Cardinality(B) \in Nat
    BY <2>1, CountCpus
  <2> QED BY <2>2 DEF Busy, B
<1> QED BY <1>2, <1>3, <1>4

\* The byte goes from pending to counted, for its process or for those that an
\* eviction has mixed up with it.
LEMMA EntryBooks ==
  ASSUME IInv, NEW c \in Cpus, prog[c].at = "io", prog[c].pid \in Pids, GoesOn(c), EntryStep(c),
         moved' = moved
  PROVE  Exact' /\ Within' /\ Ceiling'
<1>1. Shapes /\ OneEntry /\ Exact /\ Within /\ Ceiling
  BY DEF IInv
<1>2. PICK q \in Pids, gone \in SUBSET Pids :
        /\ q \notin gone
        /\ Counted(q)' = Counted(q) + 1
        /\ \A r \in gone : Counted(r)' = 0
        /\ \A r \in Pids : r # q /\ r \notin gone => Counted(r)' = Counted(r)
        /\ disturbed \cup gone \subseteq disturbed'
        /\ q # prog[c].pid => {q, prog[c].pid} \subseteq disturbed'
  BY EntryCounts
<1>3. PICK p \in Pids : p = prog[c].pid
  OBVIOUS
<1>4. \A r \in Pids : Pending(r)' = IF r = p THEN Pending(r) - 1 ELSE Pending(r)
  BY <1>1, <1>3, PendingDrops
<1>5. \A r \in Pids : Counted(r) \in Nat /\ Pending(r) \in Nat /\ moved[r] \in Nat
  BY <1>1, CountedIs, PendingNat DEF Shapes
<1>6. \A r \in Pids : Counted(r)' \in Nat /\ Pending(r)' \in Nat
  <2>1. /\ slot' \in [Elems -> Pids \cup {None}] /\ share' \in [Elems -> [Cpus -> Nat]]
        /\ OneEntry'
    BY EntryOrder
  <2>2. \A r \in Pids : Counted(r)' \in Nat
    BY <2>1, CountedAfter
  <2>3. \A A \in SUBSET Cpus : Cardinality(A) \in Nat
    BY FiniteAssumption, FS_Subset, FS_CardinalityType
  <2>4. \A r \in Pids : Pending(r)' \in Nat
    BY <2>3 DEF Pending
  <2> QED BY <2>2, <2>4
<1>7. Exact'
  <2> SUFFICES ASSUME NEW r \in Pids, r \notin disturbed'
               PROVE  Counted(r)' + Pending(r)' = moved[r]
    BY DEF Exact
  <2>1. r \notin disturbed /\ r \notin gone /\ (r = p <=> r = q)
    BY <1>2, <1>3
  <2>2. Counted(r) + Pending(r) = moved[r]
    BY <1>1, <2>1 DEF Exact
  <2>3. CASE r = p
    <3>1. Counted(r)' = Counted(r) + 1 /\ Pending(r)' = Pending(r) - 1
      BY <1>2, <1>4, <2>1, <2>3
    <3>2. Counted(r) \in Nat /\ Pending(r) \in Nat /\ moved[r] \in Nat
      BY <1>5
    <3> QED BY <2>2, <3>1, <3>2
  <2>4. CASE r # p
    <3>1. Counted(r)' = Counted(r) /\ Pending(r)' = Pending(r)
      BY <1>2, <1>4, <2>1, <2>4
    <3> QED BY <2>2, <3>1
  <2> QED BY <2>3, <2>4
<1>8. Within'
  <2> DEFINE C == [r \in Pids |-> Counted(r)]
             D == [r \in Pids |-> Counted(r)']
             P == [r \in Pids |-> Pending(r)]
             Q == [r \in Pids |-> Pending(r)']
  <2>1. /\ C \in [Pids -> Nat] /\ D \in [Pids -> Nat] /\ P \in [Pids -> Nat] /\ Q \in [Pids -> Nat]
        /\ moved \in [Pids -> Nat]
    BY <1>1, <1>5, <1>6 DEF Shapes
  <2>2. D[q] <= C[q] + 1 /\ \A r \in Pids : r # q => D[r] <= C[r]
    <3>1. \A r \in Pids : r # q => D[r] = 0 \/ D[r] = C[r]
      BY <1>2
    <3>2. \A r \in Pids : C[r] \in Nat
      BY <1>5
    <3>3. D[q] = C[q] + 1
      BY <1>2
    <3> HIDE DEF C, D
    <3> QED BY <3>1, <3>2, <3>3
  <2>3. P[p] = Q[p] + 1 /\ \A r \in Pids : r # p => P[r] = Q[r]
    <3>1. Pending(p) \in Nat /\ Pending(p)' = Pending(p) - 1
      BY <1>4, <1>5
    <3> QED BY <1>4, <3>1
  <2>4. SumFunction(C) + SumFunction(P) <= SumFunction(moved)
    BY <1>1 DEF Within
  <2> HIDE DEF C, D, P, Q
  <2>5. SumFunction(D) <= SumFunction(C) + 1
    <3>1. 1 \in Nat /\ q \in Pids
      OBVIOUS
    <3>2. QED
      BY <2>1, <2>2, <3>1, FiniteAssumption, SumGrowsAtMost, Zenon
  <2>6. SumFunction(P) = SumFunction(Q) + 1
    <3>1. /\ 1 \in Nat /\ p \in Pids /\ IsFiniteSet(Pids)
          /\ P \in [Pids -> Nat] /\ Q \in [Pids -> Nat]
      BY <2>1, FiniteAssumption
    <3>2. P[p] = Q[p] + 1
      BY <2>3
    <3>3. \A r \in Pids : r # p => P[r] = Q[r]
      BY <2>3
    <3>4. QED
      BY <3>1, <3>2, <3>3, SumGrows, SMTT(30)
  <2>7. /\ SumFunction(C) \in Nat /\ SumFunction(D) \in Nat /\ SumFunction(P) \in Nat
        /\ SumFunction(Q) \in Nat /\ SumFunction(moved) \in Nat
    BY <2>1, FiniteAssumption, SumNat
  <2>8. SumFunction(D) + SumFunction(Q) <= SumFunction(moved')
    BY <2>4, <2>5, <2>6, <2>7
  <2> QED BY <2>8 DEF Within, D, Q
<1>9. Ceiling'
  BY <1>1 DEF Ceiling
<1> QED BY <1>7, <1>8, <1>9

\* The flows have no part in it.
LEMMA EntryFlows ==
  ASSUME IInv, NEW c \in Cpus, prog[c].at = "io", GoesOn(c),
         UNCHANGED <<moved, flow, flowMoved, raced>>
  PROVE  FlowPointers' /\ FlowsFit' /\ FlowExact' /\ FlowsBounded'
<1>1. Shapes /\ FlowPointers /\ FlowsFit /\ FlowExact /\ FlowsBounded
  BY DEF IInv
<1>2. /\ prog'[c].at \in {"idle", "trace"}
      /\ \A d \in Cpus : d # c => prog'[d] = prog[d]
  BY DEF GoesOn
<1>3. /\ \A f \in Flows : PendingFlow(f)' = PendingFlow(f)
      /\ Cardinality(Busy)' <= Cardinality(Busy) /\ Cardinality(Busy)' \in Nat
  BY <1>1, PendingDrops
<1>4. FlowPointers'
  BY <1>1, <1>2 DEF FlowPointers, FlowOf
<1>5. FlowsFit'
  BY <1>1 DEF FlowsFit
<1>6. FlowExact'
  BY <1>1, <1>3 DEF FlowExact
<1>7. FlowsBounded'
  <2> DEFINE V == [f \in Flows |-> FlowValue(f)]
  <2>1. V \in [Flows -> Nat] /\ V' = V /\ moved \in [Pids -> Nat]
    BY <1>1 DEF Shapes, FlowValue
  <2>2. SumFunction(V) + Cardinality(Busy) <= SumFunction(moved)
    BY <1>1 DEF FlowsBounded
  <2>3. SumFunction(V') + Cardinality(Busy)' <= SumFunction(moved')
    <3> HIDE DEF V
    <3>1. SumFunction(V) \in Nat /\ SumFunction(moved) \in Nat /\ Cardinality(Busy) \in Nat
      BY <2>1, FlowsFinite, FiniteAssumption, SumNat, PendingNat
    <3> QED BY <1>3, <2>1, <2>2, <3>1
  <2> QED BY <2>3 DEF FlowsBounded
<1> QED BY <1>4, <1>5, <1>6, <1>7

\* IoAdd and IoInsert keep the invariant.
LEMMA IoStep ==
  ASSUME IInv, NEW c \in Cpus, IoAdd(c) \/ IoInsert(c)
  PROVE  IInv'
<1>1. /\ prog[c].at = "io" /\ prog[c].pid \in Pids
      /\ GoesOn(c) /\ EntryStep(c)
      /\ UNCHANGED <<moved, flow, flowMoved, raced, receiving, recvSk>>
  BY IoAddCase, IoInsertCase
<1>2. /\ slot' \in [Elems -> Pids \cup {None}] /\ share' \in [Elems -> [Cpus -> Nat]]
      /\ disturbed' \subseteq Pids
      /\ OneEntry' /\ Unused' /\ Pointers'
  BY <1>1, EntryOrder
<1>3. Shapes'
  BY <1>1, <1>2 DEF IInv, Shapes, GoesOn
<1>4. Exact' /\ Within' /\ Ceiling'
  BY <1>1, EntryBooks
<1>5. FlowPointers' /\ FlowsFit' /\ FlowExact' /\ FlowsBounded'
  BY <1>1, EntryFlows
<1>6. OwnSocket'
  BY <1>1 DEF IInv, OwnSocket
<1> QED BY <1>2, <1>3, <1>4, <1>5, <1>6 DEF IInv

-----------------------------------------------------------------------------
(* The flow of a network program.                                          *)

\* What stays when only the flow's part of the state changes.
IoRest == UNCHANGED <<slot, share, moved, disturbed, receiving, recvSk>>

\* The program on c turns into r, where no program is at its entry; programs on
\* other processors may see their pointers dangle.
FlowProgram(c, r) ==
  /\ prog[c].at \in {"trace", "flow"} /\ r.at \in {"idle", "flow"}
  /\ prog' \in [Cpus -> Programs]
  /\ prog'[c] = r
  /\ \A d \in Cpus : d # c =>
       /\ prog'[d].at = prog[d].at
       /\ prog[d].at = "flow" => prog'[d].pid = prog[d].pid /\ prog'[d].sock = prog[d].sock
       /\ prog[d].at # "flow" => prog'[d] = prog[d]

\* Such a step leaves the entries as they are.
LEMMA FlowProgramKeeps ==
  ASSUME IInv, NEW c \in Cpus, NEW r, FlowProgram(c, r), IoRest
  PROVE  /\ OneEntry' /\ Unused' /\ Pointers'
         /\ Ceiling' /\ Exact' /\ Within' /\ OwnSocket'
<1>1. /\ OneEntry /\ Unused /\ Pointers /\ Ceiling /\ Exact /\ Within /\ OwnSocket
      /\ slot' = slot /\ share' = share /\ moved' = moved /\ disturbed' = disturbed
      /\ receiving' = receiving /\ recvSk' = recvSk
  BY DEF IInv, IoRest
<1>2. \A d \in Cpus : /\ prog'[d].at = "io" <=> prog[d].at = "io"
                      /\ prog[d].at = "io" => prog'[d] = prog[d]
  BY DEF FlowProgram
<1>3. OneEntry' /\ Unused' /\ Ceiling' /\ OwnSocket'
  BY <1>1 DEF OneEntry, Unused, Ceiling, OwnSocket
<1>4. Pointers'
  BY <1>1, <1>2 DEF Pointers
<1>5. \A p \in Pids : Pending(p)' = Pending(p)
  <2>1. \A p \in Pids : {d \in Cpus : prog'[d].at = "io" /\ prog'[d].pid = p}
                        = {d \in Cpus : prog[d].at = "io" /\ prog[d].pid = p}
    BY <1>2
  <2> QED BY <2>1 DEF Pending
<1>6. \A p \in Pids : Counted(p)' = Counted(p)
  BY <1>1 DEF Counted, ElemOf
<1>7. Exact'
  BY <1>1, <1>5, <1>6 DEF Exact
<1>8. Within'
  <2>1. [p \in Pids |-> Counted(p)'] = [p \in Pids |-> Counted(p)]
    BY <1>6
  <2>2. [p \in Pids |-> Pending(p)'] = [p \in Pids |-> Pending(p)]
    BY <1>5
  <2> QED BY <1>1, <2>1, <2>2 DEF Within
<1> QED BY <1>1, <1>3, <1>4, <1>7, <1>8

\* The counts of programs that are at a flow, and of programs at all.
LEMMA FlowProgramCounts ==
  ASSUME Shapes, NEW c \in Cpus, NEW r, FlowProgram(c, r)
  PROVE  /\ \A f \in Flows :
              PendingFlow(f)' = PendingFlow(f)
                - (IF prog[c].at = "flow" /\ FlowOf(c) = f THEN 1 ELSE 0)
                + (IF r.at = "flow" /\ <<r.pid, r.sock>> = f THEN 1 ELSE 0)
         /\ Cardinality(Busy)' = Cardinality(Busy) - (IF r = Idle THEN 1 ELSE 0)
<1>1. /\ prog[c].at \in {"trace", "flow"} /\ r.at \in {"idle", "flow"}
      /\ prog'[c] = r /\ r \in Programs
      /\ \A d \in Cpus : d # c =>
           /\ prog'[d].at = prog[d].at
           /\ prog[d].at = "flow" => prog'[d].pid = prog[d].pid /\ prog'[d].sock = prog[d].sock
           /\ prog[d].at # "flow" => prog'[d] = prog[d]
  BY DEF FlowProgram
<1>2. \A d \in Cpus : /\ prog[d].at = "idle" <=> prog[d] = Idle
                      /\ prog'[d].at = "idle" <=> prog'[d] = Idle
  BY ProgramParts DEF FlowProgram, Shapes
<1>3. ASSUME NEW f \in Flows
      PROVE  PendingFlow(f)' = PendingFlow(f)
                - (IF prog[c].at = "flow" /\ FlowOf(c) = f THEN 1 ELSE 0)
                + (IF r.at = "flow" /\ <<r.pid, r.sock>> = f THEN 1 ELSE 0)
  <2> DEFINE A == {d \in Cpus : prog[d].at = "flow" /\ FlowOf(d) = f}
             B == {d \in Cpus : prog'[d].at = "flow" /\ FlowOf(d)' = f}
  <2>1. /\ A \in SUBSET Cpus /\ B \in SUBSET Cpus
        /\ \A d \in Cpus : d # c => (d \in A <=> d \in B)
        /\ c \in A <=> prog[c].at = "flow" /\ FlowOf(c) = f
        /\ c \in B <=> r.at = "flow" /\ <<r.pid, r.sock>> = f
    BY <1>1 DEF FlowOf
  <2> HIDE DEF A, B
  <2>2. Cardinality(B) = Cardinality(A) - (IF c \in A THEN 1 ELSE 0) + (IF c \in B THEN 1 ELSE 0)
    BY <2>1, CountCpus
  <2> QED BY <2>1, <2>2 DEF PendingFlow, A, B
<1>4. Cardinality(Busy)' = Cardinality(Busy) - (IF r = Idle THEN 1 ELSE 0)
  <2> DEFINE B == {d \in Cpus : prog'[d] # Idle}
  <2>1. /\ Busy \in SUBSET Cpus /\ B \in SUBSET Cpus /\ c \in Busy
        /\ \A d \in Cpus : d # c => (d \in Busy <=> d \in B)
        /\ c \in B <=> r # Idle
    BY <1>1, <1>2 DEF Busy, Idle
  <2> HIDE DEF B
  <2>2. Cardinality(B) = Cardinality(Busy) - (IF r = Idle THEN 1 ELSE 0)
    BY <2>1, CountCpus
  <2> QED BY <2>2 DEF Busy, B
<1> QED BY <1>3, <1>4

\* FlowsBounded after a step that moves nothing: some flow has grown by what the
\* programs have less to add, at most.
LEMMA FlowsBoundedAfter ==
  ASSUME Shapes, FlowsBounded, moved' = moved, flow' \in [Flows -> Nat \cup {None}], NEW k \in Nat,
         Cardinality(Busy)' = Cardinality(Busy) - k,
         flow' = flow \/ \E f \in Flows : /\ FlowValue(f)' <= FlowValue(f) + k
                                          /\ \A h \in Flows : h # f => flow'[h] = flow[h]
  PROVE  FlowsBounded'
<1> DEFINE V == [f \in Flows |-> FlowValue(f)]
           W == [f \in Flows |-> FlowValue(f)']
<1>1. /\ V \in [Flows -> Nat] /\ W \in [Flows -> Nat] /\ moved \in [Pids -> Nat]
  BY DEF Shapes, FlowValue
<1>2. W = V \/ \E f \in Flows : W[f] <= V[f] + k /\ \A h \in Flows : h # f => W[h] <= V[h]
  <2>1. CASE flow' = flow
    BY <2>1 DEF FlowValue
  <2>2. CASE \E f \in Flows : /\ FlowValue(f)' <= FlowValue(f) + k
                              /\ \A h \in Flows : h # f => flow'[h] = flow[h]
    <3>1. PICK f \in Flows : /\ FlowValue(f)' <= FlowValue(f) + k
                             /\ \A h \in Flows : h # f => flow'[h] = flow[h]
      BY <2>2
    <3>2. W[f] <= V[f] + k
      BY <3>1
    <3>3. \A h \in Flows : h # f => W[h] = V[h] /\ V[h] \in Nat
      BY <1>1, <3>1 DEF FlowValue
    <3> QED BY <3>2, <3>3
  <2> QED BY <2>1, <2>2
<1>3. SumFunction(V) + Cardinality(Busy) <= SumFunction(moved)
  BY DEF FlowsBounded
<1> HIDE DEF V, W
<1>4. SumFunction(V) \in Nat /\ SumFunction(W) \in Nat /\ SumFunction(moved) \in Nat
  BY <1>1, FlowsFinite, FiniteAssumption, SumNat
<1>5. SumFunction(W) <= SumFunction(V) + k
  <2>1. CASE W = V
    BY <1>4, <2>1
  <2>2. CASE \E f \in Flows : W[f] <= V[f] + k /\ \A h \in Flows : h # f => W[h] <= V[h]
    BY <1>1, <2>2, FlowsFinite, SumGrowsAtMost
  <2> QED BY <1>2, <2>1, <2>2
<1>6. SumFunction(W) + (Cardinality(Busy) - k) <= SumFunction(moved)
  BY <1>3, <1>4, <1>5, PendingNat
<1> QED BY <1>6 DEF FlowsBounded, W

\* FlowLook keeps the invariant: a program that will write becomes pending with
\* the byte it is to write.
LEMMA FlowLookStep ==
  ASSUME IInv, NEW c \in Cpus, FlowLook(c)
  PROVE  IInv'
<1>1. /\ prog[c].at = "trace" /\ IoRest /\ UNCHANGED <<flow, raced>>
      /\ \/ /\ prog' = [prog EXCEPT ![c] = Idle]
            /\ UNCHANGED flowMoved
         \/ /\ prog' = [prog EXCEPT ![c] =
                          [at |-> "flow", pid |-> prog[c].pid, sock |-> prog[c].sock,
                           ptr |-> IF flow[FlowOf(c)] = None THEN "none" ELSE "valid"]]
            /\ flowMoved' = [flowMoved EXCEPT ![FlowOf(c)] = @ + 1]
  BY DEF FlowLook, IoRest, ioVars, recvVars
<1>2. Shapes /\ FlowPointers /\ FlowsFit /\ FlowExact /\ FlowsBounded
  BY DEF IInv
<1>3. /\ prog \in [Cpus -> Programs] /\ flow \in [Flows -> Nat \cup {None}] /\ flowMoved \in [Flows -> Nat]
      /\ prog[c] \in Programs
  BY <1>2 DEF Shapes
<1>4. PICK p \in Pids, s \in Socks : p = prog[c].pid /\ s = prog[c].sock /\ FlowOf(c) = <<p, s>>
  BY <1>1, <1>3, ProgramParts DEF FlowOf
<1>5. PICK f \in Flows : f = <<p, s>> /\ f = FlowOf(c)
  BY <1>4 DEF Flows
<1>6. PICK r \in Programs :
        /\ prog' = [prog EXCEPT ![c] = r]
        /\ r.at = "idle" => r = Idle
        /\ \/ r = Idle /\ r.at = "idle" /\ flowMoved' = flowMoved
           \/ /\ r.at = "flow" /\ r.pid = p /\ r.sock = s
              /\ r.ptr \in {"none", "valid"} /\ (r.ptr = "valid" => flow[f] # None)
              /\ flowMoved' = [flowMoved EXCEPT ![f] = @ + 1]
  <2>1. CASE prog' = [prog EXCEPT ![c] = Idle] /\ UNCHANGED flowMoved
    <3>1. Idle \in Programs /\ Idle.at = "idle"
      BY DEF Programs, Idle
    <3> QED BY <2>1, <3>1
  <2>2. CASE /\ prog' = [prog EXCEPT ![c] =
                          [at |-> "flow", pid |-> prog[c].pid, sock |-> prog[c].sock,
                           ptr |-> IF flow[FlowOf(c)] = None THEN "none" ELSE "valid"]]
             /\ flowMoved' = [flowMoved EXCEPT ![FlowOf(c)] = @ + 1]
    <3> DEFINE q == [at |-> "flow", pid |-> p, sock |-> s, ptr |-> IF flow[f] = None THEN "none" ELSE "valid"]
    <3>1. /\ q \in Programs
          /\ q.at = "flow" /\ q.pid = p /\ q.sock = s
          /\ q.ptr \in {"none", "valid"} /\ (q.ptr = "valid" => flow[f] # None)
      BY DEF Programs
    <3>2. prog' = [prog EXCEPT ![c] = q] /\ flowMoved' = [flowMoved EXCEPT ![f] = @ + 1]
      BY <1>4, <1>5, <2>2
    <3> HIDE DEF q
    <3> QED BY <3>1, <3>2
  <2> QED BY <1>1, <2>1, <2>2
<1>7. /\ prog' \in [Cpus -> Programs] /\ prog'[c] = r
      /\ \A d \in Cpus : d # c => prog'[d] = prog[d]
      /\ flowMoved' \in [Flows -> Nat]
  BY <1>3, <1>6
<1>8. FlowProgram(c, r)
  BY <1>1, <1>6, <1>7 DEF FlowProgram
<1>9. Shapes'
  BY <1>1, <1>2, <1>7 DEF Shapes, IoRest
<1>10. /\ OneEntry' /\ Unused' /\ Pointers'
       /\ Ceiling' /\ Exact' /\ Within' /\ OwnSocket'
  BY <1>1, <1>8, FlowProgramKeeps
<1>11. FlowPointers'
  <2> SUFFICES ASSUME NEW d \in Cpus, prog'[d].at = "flow"
               PROVE  /\ prog'[d].ptr = "valid" => flow[FlowOf(d)'] # None
                      /\ prog'[d].ptr = "stale" => FlowOf(d)' \in raced
    BY <1>1 DEF FlowPointers
  <2>1. CASE d = c
    BY <1>5, <1>6, <1>7, <2>1 DEF FlowOf
  <2>2. CASE d # c
    BY <1>2, <1>7, <2>2 DEF FlowPointers, FlowOf
  <2> QED BY <2>1, <2>2
<1>12. FlowsFit'
  BY <1>1, <1>2 DEF FlowsFit
<1>13. /\ \A h \in Flows : PendingFlow(h)' = PendingFlow(h) + (IF r.at = "flow" /\ f = h THEN 1 ELSE 0)
       /\ Cardinality(Busy)' = Cardinality(Busy) - (IF r = Idle THEN 1 ELSE 0)
  <2>1. /\ \A h \in Flows : PendingFlow(h)' = PendingFlow(h) - 0
              + (IF r.at = "flow" /\ <<r.pid, r.sock>> = h THEN 1 ELSE 0)
        /\ Cardinality(Busy)' = Cardinality(Busy) - (IF r = Idle THEN 1 ELSE 0)
    BY <1>1, <1>2, <1>8, FlowProgramCounts
  <2>2. r.at = "flow" => <<r.pid, r.sock>> = f
    BY <1>5, <1>6
  <2> QED BY <2>1, <2>2, PendingNat
<1>14. FlowExact'
  <2> SUFFICES ASSUME NEW h \in Flows, h \notin raced
               PROVE  (IF flow[h] = None THEN 0 ELSE flow[h]) + PendingFlow(h)' = flowMoved'[h]
    BY <1>1 DEF FlowExact
  <2>1. (IF flow[h] = None THEN 0 ELSE flow[h]) + PendingFlow(h) = flowMoved[h]
    BY <1>2 DEF FlowExact
  <2>2. /\ (IF flow[h] = None THEN 0 ELSE flow[h]) \in Nat
        /\ PendingFlow(h) \in Nat /\ flowMoved[h] \in Nat
    BY <1>3, PendingNat
  <2>3. flowMoved'[h] = flowMoved[h] + (IF r.at = "flow" /\ f = h THEN 1 ELSE 0)
    BY <1>3, <1>6, <2>2
  <2> QED BY <1>13, <2>1, <2>2, <2>3
<1>15. FlowsBounded'
  <2>1. moved' = moved /\ flow' \in [Flows -> Nat \cup {None}] /\ flow' = flow
    BY <1>1, <1>3 DEF IoRest
  <2>2. PICK k \in Nat : k = IF r = Idle THEN 1 ELSE 0
    OBVIOUS
  <2> QED BY <1>2, <1>13, <2>1, <2>2, FlowsBoundedAfter
<1> QED BY <1>9, <1>10, <1>11, <1>12, <1>14, <1>15 DEF IInv

\* A program that adds to a flow, or leaves it at that.
FlowEnds(c) == FlowAdd(c) \/ FlowAddStale(c)

\* FlowAdd and FlowAddStale keep it: the byte reaches its flow, or another that
\* counts as raced from now on.
LEMMA FlowAddStep ==
  ASSUME IInv, NEW c \in Cpus, FlowEnds(c)
  PROVE  IInv'
<1>1. /\ prog[c].at = "flow" /\ IoRest /\ flowMoved' = flowMoved
      /\ prog' = [prog EXCEPT ![c] = Idle]
      /\ \/ prog[c].ptr = "valid" /\ flow' = [flow EXCEPT ![FlowOf(c)] = @ + 1] /\ raced' = raced
         \/ /\ prog[c].ptr = "stale"
            /\ \/ UNCHANGED <<flow, raced>>
               \/ \E f \in Flows : /\ flow[f] # None
                                   /\ flow' = [flow EXCEPT ![f] = @ + 1]
                                   /\ raced' = raced \cup {f}
  BY DEF FlowEnds, FlowAdd, FlowAddStale, IoRest, ioVars, recvVars
<1>2. Shapes /\ FlowPointers /\ FlowsFit /\ FlowExact /\ FlowsBounded
  BY DEF IInv
<1>3. /\ prog \in [Cpus -> Programs] /\ flow \in [Flows -> Nat \cup {None}] /\ flowMoved \in [Flows -> Nat]
      /\ raced \subseteq Flows
  BY <1>2 DEF Shapes
<1>4. PICK f \in Flows : f = FlowOf(c)
  BY <1>1, <1>3, ProgramParts DEF FlowOf, Flows
\* The flow that grows.
<1>5. \/ flow' = flow /\ raced' = raced /\ f \in raced
      \/ \E h \in Flows : /\ flow[h] # None
                          /\ flow' = [flow EXCEPT ![h] = @ + 1]
                          /\ \/ h = f /\ raced' = raced
                             \/ f \in raced /\ raced' = raced \cup {h}
  BY <1>1, <1>2, <1>4 DEF FlowPointers
<1>6. /\ prog' \in [Cpus -> Programs] /\ prog'[c] = Idle /\ Idle.at = "idle"
      /\ \A d \in Cpus : d # c => prog'[d] = prog[d]
  BY <1>1, <1>3 DEF Programs, Idle
<1>7. FlowProgram(c, Idle)
  BY <1>1, <1>6 DEF FlowProgram
<1>8. flow' \in [Flows -> Nat \cup {None}] /\ raced' \subseteq Flows /\ raced \subseteq raced'
      /\ \A h \in Flows : flow'[h] = None <=> flow[h] = None
  <2>1. CASE flow' = flow /\ raced' = raced
    BY <1>3, <2>1
  <2>2. ASSUME NEW h \in Flows, flow[h] # None, flow' = [flow EXCEPT ![h] = @ + 1],
               raced' = raced \/ raced' = raced \cup {h}
        PROVE  flow' \in [Flows -> Nat \cup {None}] /\ raced' \subseteq Flows /\ raced \subseteq raced'
               /\ \A g \in Flows : flow'[g] = None <=> flow[g] = None
    <3>1. flow[h] \in Nat /\ flow[h] + 1 \in Nat /\ flow[h] + 1 # None
      BY <1>3, <2>2, NoneAssumption
    <3>2. flow'[h] = flow[h] + 1 /\ \A g \in Flows : g # h => flow'[g] = flow[g]
      BY <1>3, <2>2
    <3>3. flow' \in [Flows -> Nat \cup {None}]
      BY <1>3, <2>2, <3>1
    <3>4. \A g \in Flows : flow'[g] = None <=> flow[g] = None
      BY <2>2, <3>1, <3>2
    <3> QED BY <1>3, <2>2, <3>3, <3>4
  <2> QED BY <1>5, <2>1, <2>2
<1>9. Shapes'
  BY <1>1, <1>2, <1>6, <1>8 DEF Shapes, IoRest
<1>10. /\ OneEntry' /\ Unused' /\ Pointers'
       /\ Ceiling' /\ Exact' /\ Within' /\ OwnSocket'
  BY <1>1, <1>7, FlowProgramKeeps
<1>11. FlowPointers'
  <2> SUFFICES ASSUME NEW d \in Cpus, prog'[d].at = "flow"
               PROVE  /\ prog'[d].ptr = "valid" => flow'[FlowOf(d)'] # None
                      /\ prog'[d].ptr = "stale" => FlowOf(d)' \in raced'
    BY DEF FlowPointers
  <2>1. d # c /\ prog'[d] = prog[d] /\ FlowOf(d)' = FlowOf(d)
    BY <1>6 DEF FlowOf
  <2>2. FlowOf(d) \in Flows
    BY <1>3, <2>1, ProgramParts DEF FlowOf, Flows
  <2> QED BY <1>2, <1>8, <2>1, <2>2 DEF FlowPointers
<1>12. FlowsFit'
  <2>1. {h \in Flows : flow'[h] # None} = {h \in Flows : flow[h] # None}
    BY <1>8
  <2> QED BY <1>2, <2>1 DEF FlowsFit
<1>13. /\ \A h \in Flows : PendingFlow(h)' = PendingFlow(h) - (IF f = h THEN 1 ELSE 0)
       /\ Cardinality(Busy)' = Cardinality(Busy) - 1
  <2>1. PICK r : r = Idle
    OBVIOUS
  <2>2. /\ \A h \in Flows : PendingFlow(h)' = PendingFlow(h)
              - (IF prog[c].at = "flow" /\ FlowOf(c) = h THEN 1 ELSE 0)
              + (IF r.at = "flow" /\ <<r.pid, r.sock>> = h THEN 1 ELSE 0)
        /\ Cardinality(Busy)' = Cardinality(Busy) - (IF r = Idle THEN 1 ELSE 0)
    BY <1>2, <1>7, <2>1, FlowProgramCounts
  <2>3. r.at # "flow"
    BY <1>6, <2>1
  <2> QED BY <1>1, <1>4, <2>1, <2>2, <2>3, PendingNat
<1>14. FlowExact'
  <2> SUFFICES ASSUME NEW g \in Flows, g \notin raced'
               PROVE  (IF flow'[g] = None THEN 0 ELSE flow'[g]) + PendingFlow(g)' = flowMoved[g]
    BY <1>1 DEF FlowExact
  <2>1. g \notin raced /\ (IF flow[g] = None THEN 0 ELSE flow[g]) + PendingFlow(g) = flowMoved[g]
    BY <1>2, <1>8 DEF FlowExact
  <2>2. PendingFlow(g) \in Nat /\ flowMoved[g] \in Nat
    BY <1>3, PendingNat
  <2>3. CASE g = f
    <3>1. flow[g] # None /\ flow[g] \in Nat /\ flow'[g] = flow[g] + 1 /\ flow'[g] # None
      BY <1>3, <1>5, <1>8, <2>1, <2>3
    <3> QED BY <1>13, <2>1, <2>2, <2>3, <3>1
  <2>4. CASE g # f
    <3>1. flow'[g] = flow[g]
      BY <1>3, <1>5, <2>1, <2>4
    <3> QED BY <1>13, <2>1, <2>2, <2>4, <3>1
  <2> QED BY <2>3, <2>4
<1>15. FlowsBounded'
  <2>1. flow' = flow \/ \E h \in Flows : /\ FlowValue(h)' <= FlowValue(h) + 1
                                         /\ \A g \in Flows : g # h => flow'[g] = flow[g]
    <3>1. ASSUME NEW h \in Flows, flow[h] # None, flow' = [flow EXCEPT ![h] = @ + 1]
          PROVE  /\ FlowValue(h)' <= FlowValue(h) + 1
                 /\ \A g \in Flows : g # h => flow'[g] = flow[g]
      <4>1. flow[h] \in Nat /\ flow'[h] = flow[h] + 1 /\ flow'[h] # None
        BY <1>3, <1>8, <3>1
      <4> QED BY <1>3, <3>1, <4>1 DEF FlowValue
    <3> QED BY <1>5, <3>1
  <2>2. moved' = moved
    BY <1>1 DEF IoRest
  <2> QED BY <1>2, <1>8, <1>13, <2>1, <2>2, FlowsBoundedAfter
<1> QED BY <1>9, <1>10, <1>11, <1>12, <1>14, <1>15 DEF IInv

\* FlowInsert keeps it: the flow starts with the byte, or has raced.
LEMMA FlowInsertStep ==
  ASSUME IInv, NEW c \in Cpus, FlowInsert(c)
  PROVE  IInv'
<1>1. /\ prog[c].at = "flow" /\ IoRest /\ flowMoved' = flowMoved
      /\ Leaves(c, FlowOf(c))
      /\ IF flow[FlowOf(c)] # None \/ FlowRoom
         THEN flow' = [flow EXCEPT ![FlowOf(c)] = 1] ELSE UNCHANGED flow
      /\ raced' = IF flow[FlowOf(c)] # None \/ ~FlowRoom THEN raced \cup {FlowOf(c)} ELSE raced
  BY DEF FlowInsert, FirstByte, IoRest, ioVars, recvVars
<1>2. Shapes /\ FlowPointers /\ FlowsFit /\ FlowExact /\ FlowsBounded
  BY DEF IInv
<1>3. /\ prog \in [Cpus -> Programs] /\ flow \in [Flows -> Nat \cup {None}] /\ flowMoved \in [Flows -> Nat]
      /\ raced \subseteq Flows
  BY <1>2 DEF Shapes
<1>4. PICK f \in Flows : f = FlowOf(c)
  BY <1>1, <1>3, ProgramParts DEF FlowOf, Flows
<1>5. /\ flow' = [flow EXCEPT ![f] = 1] \/ flow' = flow
      /\ flow[f] # None => f \in raced'
      /\ \/ f \in raced' /\ raced' = raced \cup {f}
         \/ flow[f] = None /\ FlowRoom /\ flow' = [flow EXCEPT ![f] = 1] /\ raced' = raced
      /\ flow[f] = None /\ ~FlowRoom => flow' = flow
  BY <1>1, <1>4
<1>6. 1 # None /\ 1 \in Nat
  BY NoneAssumption
<1>7. /\ flow' \in [Flows -> Nat \cup {None}] /\ raced' \subseteq Flows /\ raced \subseteq raced'
      /\ \A h \in Flows : h # f => flow'[h] = flow[h]
      /\ flow'[f] \in {1, flow[f]}
  BY <1>3, <1>5
\* The programs after it.
<1>8. /\ prog'[c] = Idle
      /\ \A d \in Cpus : d # c =>
           \/ prog'[d] = prog[d] /\ ~(prog[d].at = "flow" /\ FlowOf(d) = f /\ prog[d].ptr = "valid")
           \/ /\ prog[d].at = "flow" /\ FlowOf(d) = f /\ prog[d].ptr = "valid"
              /\ prog'[d] = [prog[d] EXCEPT !.ptr = "stale"]
      /\ prog' = [d \in Cpus |-> prog'[d]]
  BY <1>1, <1>4 DEF Leaves
<1>9. Idle \in Programs /\ Idle.at = "idle"
  BY DEF Programs, Idle
<1>10. \A d \in Cpus : d # c =>
         /\ prog'[d] \in Programs
         /\ prog'[d].at = prog[d].at
         /\ prog[d].at = "flow" => prog'[d].pid = prog[d].pid /\ prog'[d].sock = prog[d].sock
         /\ prog[d].at # "flow" => prog'[d] = prog[d]
         /\ prog'[d].at = "flow" =>
              \/ prog'[d].ptr = prog[d].ptr /\ (prog[d].ptr = "valid" => FlowOf(d) # f)
              \/ prog'[d].ptr = "stale" /\ FlowOf(d) = f /\ prog[d].ptr = "valid"
  <2> SUFFICES ASSUME NEW d \in Cpus, d # c
               PROVE  /\ prog'[d] \in Programs
                      /\ prog'[d].at = prog[d].at
                      /\ prog[d].at = "flow" => prog'[d].pid = prog[d].pid /\ prog'[d].sock = prog[d].sock
                      /\ prog[d].at # "flow" => prog'[d] = prog[d]
                      /\ prog'[d].at = "flow" =>
                           \/ prog'[d].ptr = prog[d].ptr /\ (prog[d].ptr = "valid" => FlowOf(d) # f)
                           \/ prog'[d].ptr = "stale" /\ FlowOf(d) = f /\ prog[d].ptr = "valid"
    OBVIOUS
  <2>1. prog[d] \in Programs
    BY <1>3
  <2>2. CASE prog'[d] = prog[d] /\ ~(prog[d].at = "flow" /\ FlowOf(d) = f /\ prog[d].ptr = "valid")
    BY <2>1, <2>2
  <2>3. CASE /\ prog[d].at = "flow" /\ FlowOf(d) = f /\ prog[d].ptr = "valid"
             /\ prog'[d] = [prog[d] EXCEPT !.ptr = "stale"]
    <3>1. /\ prog'[d] \in Programs /\ prog'[d].at = "flow"
          /\ prog'[d].pid = prog[d].pid /\ prog'[d].sock = prog[d].sock /\ prog'[d].ptr = "stale"
      <4> DEFINE s == [prog[d] EXCEPT !.ptr = "stale"]
      <4>1. /\ s \in Programs /\ s.at = "flow"
            /\ s.pid = prog[d].pid /\ s.sock = prog[d].sock /\ s.ptr = "stale"
        BY <2>1, <2>3, ProgramSteps
      <4>2. prog'[d] = s
        BY <2>3
      <4> HIDE DEF s
      <4> QED BY <4>1, <4>2
    <3> QED BY <2>3, <3>1
  <2> QED BY <1>8, <2>2, <2>3
<1>11. prog' \in [Cpus -> Programs]
  BY <1>8, <1>9, <1>10
<1>12. FlowProgram(c, Idle)
  BY <1>1, <1>8, <1>9, <1>10, <1>11 DEF FlowProgram
<1>13. Shapes'
  BY <1>1, <1>2, <1>7, <1>11 DEF Shapes, IoRest
<1>14. /\ OneEntry' /\ Unused' /\ Pointers'
       /\ Ceiling' /\ Exact' /\ Within' /\ OwnSocket'
  BY <1>1, <1>12, FlowProgramKeeps
<1>15. FlowPointers'
  <2> SUFFICES ASSUME NEW d \in Cpus, prog'[d].at = "flow"
               PROVE  /\ prog'[d].ptr = "valid" => flow'[FlowOf(d)'] # None
                      /\ prog'[d].ptr = "stale" => FlowOf(d)' \in raced'
    BY DEF FlowPointers
  <2>1. d # c /\ prog[d].at = "flow" /\ FlowOf(d)' = FlowOf(d)
    BY <1>8, <1>9, <1>10 DEF FlowOf
  <2>2. /\ prog[d].ptr = "valid" => flow[FlowOf(d)] # None
        /\ prog[d].ptr = "stale" => FlowOf(d) \in raced
    BY <1>2, <2>1 DEF FlowPointers
  <2>3. FlowOf(d) \in Flows
    BY <1>3, <2>1, ProgramParts DEF FlowOf, Flows
  <2>4. CASE prog'[d].ptr = prog[d].ptr /\ (prog[d].ptr = "valid" => FlowOf(d) # f)
    BY <1>7, <2>1, <2>2, <2>3, <2>4
  <2>5. CASE prog'[d].ptr = "stale" /\ FlowOf(d) = f /\ prog[d].ptr = "valid"
    BY <1>5, <2>1, <2>2, <2>5
  <2> QED BY <1>10, <2>1, <2>4, <2>5
<1>16. FlowsFit'
  <2> DEFINE A == {h \in Flows : flow[h] # None}
             B == {h \in Flows : flow'[h] # None}
  <2>1. A \in SUBSET Flows /\ IsFiniteSet(A) /\ Cardinality(A) \in Nat
    BY FlowsFinite, FS_Subset, FS_CardinalityType
  <2>2. Cardinality(A) <= MaxFlows
    BY <1>2 DEF FlowsFit
  <2>3. CASE B = A
    BY <2>2, <2>3 DEF FlowsFit
  <2>4. CASE flow[f] = None /\ FlowRoom
    <3>1. B \subseteq A \cup {f} /\ f \notin A
      BY <1>7, <2>4
    <3>2. Cardinality(A) < MaxFlows
      BY <2>4 DEF FlowRoom
    <3>3. B \in SUBSET (A \cup {f})
      BY <3>1
    <3> HIDE DEF A, B
    <3>4. IsFiniteSet(A \cup {f}) /\ Cardinality(A \cup {f}) = Cardinality(A) + 1
      BY <2>1, <3>1, FS_AddElement
    <3>5. Cardinality(B) \in Nat /\ Cardinality(B) <= Cardinality(A \cup {f})
      BY <3>3, <3>4, FS_Subset, FS_CardinalityType
    <3>6. Cardinality(B) <= MaxFlows
      BY <2>1, <3>2, <3>4, <3>5, BoundsAssumption
    <3> QED BY <3>6 DEF FlowsFit, B
  <2>5. B = A \/ (flow[f] = None /\ FlowRoom)
    <3>1. flow[f] # None => flow'[f] # None
      BY <1>6, <1>7
    <3>2. flow[f] # None => B = A
      BY <1>7, <3>1
    <3>3. flow' = flow => B = A
      OBVIOUS
    <3> QED BY <1>5, <3>2, <3>3
  <2> QED BY <2>3, <2>4, <2>5
<1>17. /\ \A h \in Flows : PendingFlow(h)' = PendingFlow(h) - (IF f = h THEN 1 ELSE 0)
       /\ Cardinality(Busy)' = Cardinality(Busy) - 1
  <2>1. PICK r : r = Idle
    OBVIOUS
  <2>2. /\ \A h \in Flows : PendingFlow(h)' = PendingFlow(h)
              - (IF prog[c].at = "flow" /\ FlowOf(c) = h THEN 1 ELSE 0)
              + (IF r.at = "flow" /\ <<r.pid, r.sock>> = h THEN 1 ELSE 0)
        /\ Cardinality(Busy)' = Cardinality(Busy) - (IF r = Idle THEN 1 ELSE 0)
    BY <1>2, <1>12, <2>1, FlowProgramCounts
  <2>3. r.at # "flow"
    BY <1>9, <2>1
  <2> QED BY <1>1, <1>4, <2>1, <2>2, <2>3, PendingNat
<1>18. FlowExact'
  <2> SUFFICES ASSUME NEW g \in Flows, g \notin raced'
               PROVE  (IF flow'[g] = None THEN 0 ELSE flow'[g]) + PendingFlow(g)' = flowMoved[g]
    BY <1>1 DEF FlowExact
  <2>1. g \notin raced /\ (IF flow[g] = None THEN 0 ELSE flow[g]) + PendingFlow(g) = flowMoved[g]
    BY <1>2, <1>7 DEF FlowExact
  <2>2. PendingFlow(g) \in Nat /\ flowMoved[g] \in Nat
    BY <1>3, PendingNat
  <2>3. CASE g = f
    <3>1. flow[g] = None /\ flow'[g] = 1
      BY <1>3, <1>5, <2>3
    <3> QED BY <1>6, <1>17, <2>1, <2>2, <2>3, <3>1
  <2>4. CASE g # f
    <3>1. flow'[g] = flow[g]
      BY <1>7, <2>4
    <3> QED BY <1>17, <2>1, <2>2, <2>4, <3>1
  <2> QED BY <2>3, <2>4
<1>19. FlowsBounded'
  <2>1. FlowValue(f)' <= FlowValue(f) + 1
    <3>1. flow[f] = None \/ flow[f] \in Nat
      BY <1>3
    <3>2. flow'[f] = 1 \/ flow'[f] = flow[f]
      BY <1>7
    <3> QED BY <3>1, <3>2 DEF FlowValue
  <2>2. moved' = moved
    BY <1>1 DEF IoRest
  <2>3. \E h \in Flows : /\ FlowValue(h)' <= FlowValue(h) + 1
                         /\ \A g \in Flows : g # h => flow'[g] = flow[g]
    BY <1>7, <2>1
  <2> QED BY <1>2, <1>7, <1>17, <2>2, <2>3, FlowsBoundedAfter
<1> QED BY <1>13, <1>14, <1>15, <1>16, <1>18, <1>19 DEF IInv

-----------------------------------------------------------------------------
(* The probes.                                                             *)

\* What a program that begins leaves alone.
BeginsRest == UNCHANGED <<slot, share, disturbed, flow, flowMoved, raced>>

\* A program that begins has found the process's element, or none.
LEMMA BeginsProgram ==
  ASSUME IInv, NEW c \in Cpus, NEW p \in Pids, NEW s \in Socks \cup {None}, Begins(c, p, s)
  PROVE  /\ prog[c].at = "idle"
         /\ prog' \in [Cpus -> Programs]
         /\ prog'[c].at = "io" /\ prog'[c].pid = p
         /\ prog'[c].elem # None => prog'[c].elem \in Elems /\ slot[prog'[c].elem] = p
         /\ prog'[c].elem = None => \A e \in Elems : slot[e] # p
         /\ \A d \in Cpus : d # c => prog'[d] = prog[d]
<1>1. prog[c] = Idle /\ prog \in [Cpus -> Programs] /\ slot \in [Elems -> Pids \cup {None}]
  BY DEF Begins, IInv, Shapes
<1>2. PICK e \in Found(p) : prog' = [prog EXCEPT ![c] = [at |-> "io", pid |-> p, sock |-> s, elem |-> e]]
  BY DEF Begins
<1>3. /\ e \in Elems \cup {None}
      /\ e # None => e \in Elems /\ slot[e] = p
      /\ e = None => \A g \in Elems : slot[g] # p
  BY NoneAssumption DEF Found, ElemOf
<1> DEFINE r == [at |-> "io", pid |-> p, sock |-> s, elem |-> e]
<1>4. r \in Programs /\ r.at = "io" /\ r.pid = p /\ r.elem = e
  BY <1>3 DEF Programs
<1>5. prog' = [prog EXCEPT ![c] = r]
  BY <1>2
<1> HIDE DEF r
<1>6. /\ prog' \in [Cpus -> Programs] /\ prog'[c] = r
      /\ \A d \in Cpus : d # c => prog'[d] = prog[d]
  BY <1>1, <1>4, <1>5
<1>7. prog[c].at = "idle"
  BY <1>1 DEF Idle
<1> QED BY <1>3, <1>4, <1>6, <1>7

\* A program that begins keeps all but what is about receiving threads: the byte
\* is pending for its process.
LEMMA BeginsStep ==
  ASSUME IInv, NEW c \in Cpus, NEW p \in Pids, NEW s \in Socks \cup {None}, Begins(c, p, s), BeginsRest
  PROVE  /\ prog' \in [Cpus -> Programs] /\ moved' \in [Pids -> Nat]
         /\ OneEntry' /\ Unused' /\ Pointers'
         /\ Ceiling' /\ Exact' /\ Within'
         /\ FlowPointers' /\ FlowsFit' /\ FlowExact' /\ FlowsBounded'
<1>1. /\ Shapes /\ OneEntry /\ Unused /\ Pointers /\ Ceiling /\ Exact /\ Within
      /\ FlowPointers /\ FlowsFit /\ FlowExact /\ FlowsBounded
  BY DEF IInv
<1>2. /\ slot' = slot /\ share' = share /\ disturbed' = disturbed
      /\ flow' = flow /\ flowMoved' = flowMoved /\ raced' = raced
      /\ SumFunction(moved) < MaxBytes
      /\ moved' = [moved EXCEPT ![p] = @ + 1]
  BY DEF Begins, BeginsRest
<1>3. /\ prog[c].at = "idle"
      /\ prog' \in [Cpus -> Programs]
      /\ prog'[c].at = "io" /\ prog'[c].pid = p
      /\ prog'[c].elem # None => prog'[c].elem \in Elems /\ slot[prog'[c].elem] = p
      /\ prog'[c].elem = None => \A e \in Elems : slot[e] # p
      /\ \A d \in Cpus : d # c => prog'[d] = prog[d]
  BY BeginsProgram
<1>4. /\ moved \in [Pids -> Nat] /\ moved' \in [Pids -> Nat]
      /\ moved'[p] = moved[p] + 1
      /\ \A q \in Pids : q # p => moved'[q] = moved[q]
  BY <1>1, <1>2 DEF Shapes
<1>5. /\ SumFunction(moved') = SumFunction(moved) + 1
      /\ SumFunction(moved) \in Nat
  BY <1>4, FiniteAssumption, SumGrows, SumNat
<1>6. OneEntry' /\ Unused' /\ FlowsFit'
  BY <1>1, <1>2 DEF OneEntry, Unused, FlowsFit
<1>7. Pointers'
  <2> SUFFICES ASSUME NEW d \in Cpus, prog'[d].at = "io"
               PROVE  /\ prog'[d].elem # None => slot[prog'[d].elem] # None
                      /\ prog'[d].elem = None => \A e \in Elems : slot[e] = prog'[d].pid => share[e][d] = 0
    BY <1>2 DEF Pointers
  <2>1. CASE d = c
    BY <1>3, <2>1, NoneAssumption
  <2>2. CASE d # c
    BY <1>1, <1>3, <2>2 DEF Pointers
  <2> QED BY <2>1, <2>2
<1>8. Ceiling'
  BY <1>2, <1>5, BoundsAssumption DEF Ceiling
<1>9. \A q \in Pids : Pending(q)' = Pending(q) + (IF q = p THEN 1 ELSE 0)
  <2> TAKE q \in Pids
  <2> DEFINE A == {d \in Cpus : prog[d].at = "io" /\ prog[d].pid = q}
             B == {d \in Cpus : prog'[d].at = "io" /\ prog'[d].pid = q}
  <2>1. /\ A \in SUBSET Cpus /\ B \in SUBSET Cpus
        /\ \A d \in Cpus : d # c => (d \in A <=> d \in B)
        /\ c \notin A /\ (c \in B <=> q = p)
    BY <1>3
  <2> HIDE DEF A, B
  <2>2. Cardinality(B) = Cardinality(A) + (IF q = p THEN 1 ELSE 0)
    BY <2>1, CountCpus
  <2> QED BY <2>2 DEF Pending, A, B
<1>10. \A q \in Pids : Counted(q)' = Counted(q)
  BY <1>2 DEF Counted, ElemOf
<1>11. \A q \in Pids : Counted(q) \in Nat /\ Pending(q) \in Nat /\ moved[q] \in Nat
  BY <1>1, <1>4, CountedIs, PendingNat
<1>12. Exact'
  <2> SUFFICES ASSUME NEW q \in Pids, q \notin disturbed
               PROVE  Counted(q)' + Pending(q)' = moved'[q]
    BY <1>2 DEF Exact
  <2>1. Counted(q) + Pending(q) = moved[q]
    BY <1>1 DEF Exact
  <2>2. Counted(q)' = Counted(q) /\ Pending(q)' = Pending(q) + (IF q = p THEN 1 ELSE 0)
    BY <1>9, <1>10
  <2>3. moved'[q] = moved[q] + (IF q = p THEN 1 ELSE 0)
    BY <1>4, <1>11
  <2> QED BY <1>11, <2>1, <2>2, <2>3
<1>13. Within'
  <2> DEFINE C == [q \in Pids |-> Counted(q)]
             D == [q \in Pids |-> Counted(q)']
             P == [q \in Pids |-> Pending(q)]
             Q == [q \in Pids |-> Pending(q)']
  <2>1. /\ C \in [Pids -> Nat] /\ D = C /\ P \in [Pids -> Nat] /\ Q \in [Pids -> Nat]
        /\ Q[p] = P[p] + 1 /\ \A q \in Pids : q # p => Q[q] = P[q]
    BY <1>9, <1>10, <1>11
  <2>2. SumFunction(C) + SumFunction(P) <= SumFunction(moved)
    BY <1>1 DEF Within
  <2> HIDE DEF C, D, P, Q
  <2>3. SumFunction(Q) = SumFunction(P) + 1
    BY <2>1, FiniteAssumption, SumGrows
  <2>4. SumFunction(C) \in Nat /\ SumFunction(P) \in Nat
    BY <2>1, FiniteAssumption, SumNat
  <2>5. SumFunction(D) + SumFunction(Q) <= SumFunction(moved')
    BY <1>5, <2>1, <2>2, <2>3, <2>4
  <2> QED BY <2>5 DEF Within, D, Q
<1>14. FlowPointers'
  BY <1>1, <1>2, <1>3 DEF FlowPointers, FlowOf
<1>15. FlowExact'
  <2>1. \A f \in Flows : {d \in Cpus : prog'[d].at = "flow" /\ FlowOf(d)' = f}
                         = {d \in Cpus : prog[d].at = "flow" /\ FlowOf(d) = f}
    BY <1>3 DEF FlowOf
  <2>2. \A f \in Flows : PendingFlow(f)' = PendingFlow(f)
    BY <2>1 DEF PendingFlow
  <2> QED BY <1>1, <1>2, <2>2 DEF FlowExact
<1>16. FlowsBounded'
  <2> DEFINE V == [f \in Flows |-> FlowValue(f)]
             B == {d \in Cpus : prog'[d] # Idle}
  <2>1. /\ V \in [Flows -> Nat] /\ V' = V
    BY <1>1, <1>2 DEF Shapes, FlowValue
  <2>2. SumFunction(V) + Cardinality(Busy) <= SumFunction(moved)
    BY <1>1 DEF FlowsBounded
  <2>3. Cardinality(B) <= Cardinality(Busy) + 1 /\ Cardinality(B) \in Nat
    <3>1. /\ Busy \in SUBSET Cpus /\ B \in SUBSET Cpus
          /\ \A d \in Cpus : d # c => (d \in Busy <=> d \in B)
          /\ c \in B
      BY <1>3 DEF Busy, Idle
    <3> HIDE DEF B
    <3> QED BY <3>1, CountCpus
  <2> HIDE DEF V, B
  <2>4. SumFunction(V) \in Nat
    BY <2>1, FlowsFinite, SumNat
  <2>5. SumFunction(V') + Cardinality(B) <= SumFunction(moved')
    BY <1>5, <2>1, <2>2, <2>3, <2>4, PendingNat
  <2> QED BY <2>5 DEF FlowsBounded, Busy, B, V
<1> QED BY <1>3, <1>4, <1>6, <1>7, <1>8, <1>12, <1>13, <1>14, <1>15, <1>16

\* The probes keep the invariant: a receiving thread that returns leaves nothing
\* behind, or what it leaves goes when it receives next.
LEMMA ProbeStep ==
  ASSUME IInv, NEW c \in Cpus, NEW p \in Pids, Probe(c, p)
  PROVE  IInv'
<1>1. Shapes /\ OwnSocket
  BY DEF IInv
<1>2. receiving \in [Pids -> Socks \cup {None}] /\ recvSk \in [Pids -> Socks \cup {None}]
  BY <1>1 DEF Shapes
<1>3. ASSUME NEW s \in Socks \cup {None}, Begins(c, p, s), BeginsRest,
             receiving' \in [Pids -> Socks \cup {None}], recvSk' \in [Pids -> Socks \cup {None}], OwnSocket'
      PROVE  IInv'
  <2>1. /\ prog' \in [Cpus -> Programs] /\ moved' \in [Pids -> Nat]
        /\ OneEntry' /\ Unused' /\ Pointers'
        /\ Ceiling' /\ Exact' /\ Within'
        /\ FlowPointers' /\ FlowsFit' /\ FlowExact' /\ FlowsBounded'
    BY <1>3, BeginsStep
  <2>2. Shapes'
    BY <1>1, <1>3, <2>1 DEF Shapes, BeginsRest
  <2> QED BY <1>3, <2>1, <2>2 DEF IInv
<1>4. ASSUME NEW s \in Socks \cup {None}, Begins(c, p, s),
             UNCHANGED <<slot, share, disturbed, flowVars, recvVars>>
      PROVE  IInv'
  <2>1. BeginsRest /\ receiving' = receiving /\ recvSk' = recvSk
    BY <1>4 DEF BeginsRest, flowVars, recvVars
  <2>2. OwnSocket'
    BY <1>1, <2>1 DEF OwnSocket
  <2> QED BY <1>2, <1>3, <1>4, <2>1, <2>2
<1>5. ASSUME RecvReturn(c, p) PROVE IInv'
  <2>1. /\ Begins(c, p, recvSk[p]) /\ BeginsRest
        /\ receiving' = [receiving EXCEPT ![p] = None]
        /\ recvSk' = [recvSk EXCEPT ![p] = None]
    BY <1>5 DEF RecvReturn, BeginsRest, flowVars
  <2>2. PICK s \in Socks \cup {None} : s = recvSk[p]
    BY <1>2
  <2>3. OwnSocket'
    BY <1>1, <1>2, <2>1 DEF OwnSocket
  <2>4. receiving' \in [Pids -> Socks \cup {None}] /\ recvSk' \in [Pids -> Socks \cup {None}]
    BY <1>2, <2>1
  <2> QED BY <1>3, <2>1, <2>2, <2>3, <2>4
<1> QED BY <1>4, <1>5 DEF Probe, FileIo, NetIo

\* A thread that starts to receive, or stops without a datagram.
LEMMA ReceiveStep ==
  ASSUME IInv, NEW p \in Pids, Receive(p)
  PROVE  IInv'
<1>1. /\ UNCHANGED <<ioVars, flowVars, prog>>
      /\ \/ /\ receiving' = [receiving EXCEPT ![p] = None]
            /\ recvSk' = [recvSk EXCEPT ![p] = None] \/ recvSk' = recvSk
         \/ \E s \in Socks : /\ receiving' = [receiving EXCEPT ![p] = s]
                             /\ \/ recvSk' = [recvSk EXCEPT ![p] = s]
                                \/ recvSk[p] = None /\ recvSk' = recvSk
  BY DEF Receive, RecvNothing, RecvUnseen, RecvEnter, Handed
<1>2. /\ receiving \in [Pids -> Socks \cup {None}] /\ recvSk \in [Pids -> Socks \cup {None}]
      /\ OwnSocket
  BY DEF IInv, Shapes
<1>3. receiving' \in [Pids -> Socks \cup {None}] /\ recvSk' \in [Pids -> Socks \cup {None}]
  BY <1>1, <1>2
<1>4. OwnSocket'
  BY <1>1, <1>2 DEF OwnSocket
<1>5. Shapes'
  BY <1>1, <1>3 DEF IInv, Shapes, ioVars, flowVars
<1>6. OneEntry' /\ Unused' /\ Pointers' /\ Ceiling'
  BY <1>1 DEF IInv, OneEntry, Unused, Pointers, Ceiling, ioVars
<1>7. Exact' /\ Within'
  BY <1>1 DEF IInv, Exact, Within, Counted, ElemOf, Pending, ioVars
<1>8. FlowPointers' /\ FlowsFit' /\ FlowExact' /\ FlowsBounded'
  BY <1>1 DEF IInv, FlowPointers, FlowsFit, FlowExact, FlowsBounded, FlowOf, PendingFlow, FlowValue, Busy,
              ioVars, flowVars
<1> QED BY <1>4, <1>5, <1>6, <1>7, <1>8 DEF IInv

\* A step that changes nothing.
LEMMA StutterStep == IInv /\ UNCHANGED kernelVars => IInv'
<1> SUFFICES ASSUME IInv, UNCHANGED kernelVars PROVE IInv'
  OBVIOUS
<1>1. UNCHANGED <<ioVars, flowVars, prog>> /\ UNCHANGED recvVars
  BY DEF kernelVars
<1>2. Shapes'
  BY <1>1 DEF IInv, Shapes, ioVars, flowVars, recvVars
<1>3. OneEntry' /\ Unused' /\ Pointers' /\ Ceiling' /\ OwnSocket'
  BY <1>1 DEF IInv, OneEntry, Unused, Pointers, Ceiling, OwnSocket, ioVars, recvVars
<1>4. Exact' /\ Within'
  BY <1>1 DEF IInv, Exact, Within, Counted, ElemOf, Pending, ioVars
<1>5. FlowPointers' /\ FlowsFit' /\ FlowExact' /\ FlowsBounded'
  BY <1>1 DEF IInv, FlowPointers, FlowsFit, FlowExact, FlowsBounded, FlowOf, PendingFlow, FlowValue, Busy,
              ioVars, flowVars
<1> QED BY <1>2, <1>3, <1>4, <1>5 DEF IInv

-----------------------------------------------------------------------------
\* The invariant holds in every reachable state.
THEOREM Invariance == KernelSpec => []IInv
<1>1. KernelInit => IInv
  BY InitIInv
<1>2. IInv /\ [Kernel]_kernelVars => IInv'
  <2> SUFFICES ASSUME IInv, [Kernel]_kernelVars PROVE IInv'
    OBVIOUS
  <2>1. ASSUME NEW c \in Cpus, Program(c) PROVE IInv'
    BY <2>1, IoStep, FlowLookStep, FlowAddStep, FlowInsertStep DEF Program, FlowEnds
  <2>2. ASSUME NEW c \in Cpus, NEW p \in Pids, Probe(c, p) PROVE IInv'
    BY <2>2, ProbeStep
  <2>3. ASSUME NEW p \in Pids, Receive(p) PROVE IInv'
    BY <2>3, ReceiveStep
  <2>4. CASE UNCHANGED kernelVars
    BY <2>4, StutterStep
  <2> QED BY <2>1, <2>2, <2>3, <2>4 DEF Kernel
<1> QED BY <1>1, <1>2, PTL DEF KernelSpec

\* The shapes and bounds of KernelTypeOK: a process has one entry, no counter
\* exceeds what was moved, the flows fit their map, and pointers dangle only where
\* a flow was replaced.
THEOREM TypeCorrect == KernelSpec => []KernelTypeOK
<1>1. IInv => KernelTypeOK
  <2> SUFFICES ASSUME IInv PROVE KernelTypeOK
    OBVIOUS
  <2>1. Shapes /\ OneEntry /\ Unused /\ Ceiling /\ Within /\ FlowPointers /\ FlowsFit /\ FlowsBounded
    BY DEF IInv
  <2>2. \A p \in Pids : Counted(p) \in Nat /\ Pending(p) \in Nat
    BY <2>1, CountedIs, PendingNat
  <2>3. SumFunction(moved) \in Nat /\ SumFunction(moved) <= MaxBytes
    BY <2>1, FiniteAssumption, SumNat DEF Shapes, Ceiling
  <2>4. \A p \in Pids : Counted(p) <= MaxBytes
    <3> TAKE p \in Pids
    <3> DEFINE C == [q \in Pids |-> Counted(q)]
               P == [q \in Pids |-> Pending(q)]
    <3>1. C \in [Pids -> Nat] /\ P \in [Pids -> Nat] /\ C[p] = Counted(p)
      BY <2>2
    <3>2. SumFunction(C) + SumFunction(P) <= SumFunction(moved)
      BY <2>1 DEF Within
    <3> HIDE DEF C, P
    <3>3. SumFunction(C) \in Nat /\ SumFunction(P) \in Nat /\ C[p] <= SumFunction(C)
      BY <3>1, FiniteAssumption, SumNat, SumBound
    <3> QED BY <2>2, <2>3, <3>1, <3>2, <3>3, BoundsAssumption
  <2>5. share \in [Elems -> [Cpus -> 0..MaxBytes]]
    <3>1. \A e \in Elems, c \in Cpus : share[e][c] \in 0..MaxBytes
      <4> TAKE e \in Elems, c \in Cpus
      <4>1. share[e] \in [Cpus -> Nat] /\ share[e][c] \in Nat
        BY <2>1 DEF Shapes
      <4>2. CASE slot[e] = None
        BY <2>1, <4>2, BoundsAssumption DEF Unused
      <4>3. CASE slot[e] # None
        <5>1. PICK p \in Pids : slot[e] = p
          BY <2>1, <4>3 DEF Shapes
        <5>2. Counted(p) = SumFunction(share[e])
          BY <2>1, <5>1, CountedIs
        <5>3. share[e][c] <= SumFunction(share[e])
          BY <4>1, FiniteAssumption, SumBound
        <5> QED BY <2>2, <2>4, <4>1, <5>2, <5>3, BoundsAssumption
      <4> QED BY <4>2, <4>3
    <3> QED BY <2>1, <3>1 DEF Shapes
  <2>6. flow \in [Flows -> 0..MaxBytes \cup {None}]
    <3> DEFINE V == [f \in Flows |-> FlowValue(f)]
    <3>1. V \in [Flows -> Nat] /\ \A f \in Flows : flow[f] # None => flow[f] \in Nat /\ V[f] = flow[f]
      BY <2>1 DEF Shapes, FlowValue
    <3>2. SumFunction(V) + Cardinality(Busy) <= SumFunction(moved)
      BY <2>1 DEF FlowsBounded
    <3> HIDE DEF V
    <3>3. SumFunction(V) \in Nat /\ \A f \in Flows : V[f] <= SumFunction(V)
      BY <3>1, FlowsFinite, SumNat, SumBound
    <3>4. \A f \in Flows : flow[f] # None => flow[f] \in 0..MaxBytes
      BY <2>3, <3>1, <3>2, <3>3, PendingNat, BoundsAssumption
    <3> QED BY <2>1, <3>4 DEF Shapes
  <2>7. \A p \in Pids : Cardinality(ElemOf(p)) <= 1
    <3> TAKE p \in Pids
    <3>1. CASE \E e \in Elems : slot[e] = p
      <4>1. PICK e \in Elems : ElemOf(p) = {e}
        BY <2>1, <3>1, CountedIs
      <4> QED BY <4>1, FS_Singleton
    <3>2. CASE \A e \in Elems : slot[e] # p
      <4>1. ElemOf(p) = {}
        BY <2>1, <3>2, CountedIs
      <4> QED BY <4>1, FS_EmptySet
    <3> QED BY <3>1, <3>2
  <2> QED BY <2>1, <2>5, <2>6, <2>7 DEF KernelTypeOK, Shapes, FlowPointers, FlowsFit
<1> QED BY <1>1, Invariance, PTL

\* BytesAccounted: where no eviction had a part, not one byte is lost or counted
\* twice, and all entries together never hold more than was moved.
THEOREM BytesCounted == KernelSpec => []BytesAccounted
<1>1. IInv => BytesAccounted
  BY DEF IInv, Exact, Within, BytesAccounted
<1> QED BY <1>1, Invariance, PTL

\* FlowExact: a flow whose inserts did not meet counts every byte once.
THEOREM FlowsCounted == KernelSpec => []FlowExact
<1>1. IInv => FlowExact
  BY DEF IInv
<1> QED BY <1>1, Invariance, PTL

\* OwnSocket: a thread finds its own socket at its return, or none.
THEOREM SocketOwn == KernelSpec => []OwnSocket
<1>1. IInv => OwnSocket
  BY DEF IInv
<1> QED BY <1>1, Invariance, PTL

-----------------------------------------------------------------------------
(* The map implements the counters its reader sees.                        *)

\* In the beginning there is no counter.
LEMMA ReaderInit == KernelInit => Reader!CountersInit
<1> SUFFICES ASSUME KernelInit PROVE Reader!CountersInit
  OBVIOUS
<1>1. \A p \in Pids : ElemOf(p) = {}
  BY NoneAssumption DEF KernelInit, ElemOf
<1> QED BY <1>1 DEF Reader!CountersInit

\* An add or an insert is a byte counted, and the eviction that goes with it.
LEMMA ReaderCounts ==
  ASSUME IInv, NEW c \in Cpus, IoAdd(c) \/ IoInsert(c)
  PROVE  Reader!CountersNext
<1>1. prog[c].at = "io" /\ prog[c].pid \in Pids /\ GoesOn(c) /\ EntryStep(c)
  BY IoAddCase, IoInsertCase
<1>2. PICK q \in Pids, gone \in SUBSET Pids :
        /\ q \notin gone
        /\ ElemOf(q)' # {} /\ Counted(q)' = Counted(q) + 1
        /\ \A r \in gone : ElemOf(r)' = {} /\ Counted(r)' = 0
        /\ \A r \in Pids : r # q /\ r \notin gone =>
             (ElemOf(r)' = {} <=> ElemOf(r) = {}) /\ Counted(r)' = Counted(r)
  BY <1>1, EntryCounts
<1>3. ElemOf(q) = {} => Counted(q) = 0
  BY DEF Counted
<1>4. \A p \in Pids : Counted(p) \in Nat /\ Counted(p) # None
  BY CountedIs, NoneAssumption DEF IInv
<1>5. \A p \in Pids :
        (IF ElemOf(p)' = {} THEN None ELSE Counted(p)')
        = IF p = q THEN Counted(q) + 1
          ELSE IF p \in gone THEN None ELSE IF ElemOf(p) = {} THEN None ELSE Counted(p)
  BY <1>2
<1>6. Counted(q) = IF [p \in Pids |-> IF ElemOf(p) = {} THEN None ELSE Counted(p)][q] = None THEN 0
                   ELSE [p \in Pids |-> IF ElemOf(p) = {} THEN None ELSE Counted(p)][q]
  BY <1>3, <1>4
<1>7. Reader!Count(q, gone)
  BY <1>2, <1>5, <1>6 DEF Reader!Count, Reader!Base
<1> QED BY <1>7 DEF Reader!CountersNext

\* What leaves the elements alone, the reader does not see.
LEMMA ReaderStutters ==
  ASSUME slot' = slot, share' = share
  PROVE  UNCHANGED [p \in Pids |-> IF ElemOf(p) = {} THEN None ELSE Counted(p)]
BY DEF ElemOf, Counted

\* ImplementsCounters: to its reader the map is a set of counters that grow by
\* what a program adds, or vanish.
THEOREM Implements == KernelSpec => ImplementsCounters
<1> DEFINE counters == [p \in Pids |-> IF ElemOf(p) = {} THEN None ELSE Counted(p)]
<1>1. KernelInit => Reader!CountersInit
  BY ReaderInit
<1>2. IInv /\ [Kernel]_kernelVars => [Reader!CountersNext]_counters
  <2> SUFFICES ASSUME IInv, [Kernel]_kernelVars, ~ UNCHANGED <<slot, share>>
               PROVE  Reader!CountersNext
    BY ReaderStutters
  <2>1. \E c \in Cpus : IoAdd(c) \/ IoInsert(c)
    BY DEF Kernel, Program, FlowLook, FlowAdd, FlowAddStale, FlowInsert,
           Probe, FileIo, NetIo, RecvReturn, Receive, RecvNothing, RecvUnseen, RecvEnter,
           kernelVars, ioVars
  <2> QED BY <2>1, ReaderCounts
<1> QED BY <1>1, <1>2, Invariance, PTL DEF KernelSpec, ImplementsCounters, Reader!CountersSpec

-----------------------------------------------------------------------------
(* The poller.  What its rates rest on (Level): after a good poll the       *)
(* counter of a process is above its previous reading by what has been     *)
(* counted since; and once the entry has been evicted, it is at most that. *)


\* What the poller takes a missing entry for.
Reading(f, p) == IF f[p] = None THEN 0 ELSE f[p]

\* No poll has seen more than was counted.
MarkBelow == \A p \in Pids : mark[p] <= total[p]

Level ==
  ~blind => \A p \in Pids : /\ p \notin evicted => Base(p) = Before(p) + (total[p] - mark[p])
                            /\ p \in evicted => Base(p) <= total[p] - mark[p]

RatesInv == RatesTypeOK /\ MarkBelow /\ Level

-----------------------------------------------------------------------------
\* The host's rate is the sum of the readings, however they are written down.
LEMMA HostRateOf ==
  ASSUME NEW r \in [Pids -> Nat \cup {None}]
  PROVE  /\ [p \in Pids |-> Reading(r, p)] \in [Pids -> Nat]
         /\ HostRate(r) = SumFunction([p \in Pids |-> Reading(r, p)])
         /\ HostRate([p \in Pids |-> IF r[p] = None THEN 0 ELSE r[p]]) = HostRate(r)
<1> DEFINE z == [p \in Pids |-> IF r[p] = None THEN 0 ELSE r[p]]
<1>1. \A p \in Pids : z[p] \in Nat /\ z[p] # None
  BY CountersAssumption
<1>2. z = [p \in Pids |-> Reading(r, p)]
  BY DEF Reading
<1>3. [p \in Pids |-> IF z[p] = None THEN 0 ELSE z[p]] = z
  BY <1>1
<1>4. HostRate(r) = SumFunction(z)
  BY DEF HostRate
<1>5. HostRate(z) = SumFunction([p \in Pids |-> IF z[p] = None THEN 0 ELSE z[p]])
  BY DEF HostRate
<1>6. z \in [Pids -> Nat]
  BY <1>1
<1> HIDE DEF z
<1>7. HostRate(z) = HostRate(r)
  BY <1>3, <1>4, <1>5
<1> QED BY <1>2, <1>4, <1>6, <1>7 DEF z

\* The initial states satisfy the invariant.
LEMMA InitRates == RatesInit => RatesInv
<1> SUFFICES ASSUME RatesInit PROVE RatesInv
  OBVIOUS
<1>1. /\ counter = [p \in Pids |-> None] /\ prev = [p \in Pids |-> None]
      /\ rates = [p \in Pids |-> None] /\ host = 0
      /\ total = [p \in Pids |-> 0] /\ mark = [p \in Pids |-> 0]
      /\ evicted = {} /\ blind = FALSE /\ fails = 0 /\ primed = FALSE
  BY DEF RatesInit, CountersInit, Nothing, Zero
<1>2. host = HostRate([p \in Pids |-> IF rates[p] = None THEN 0 ELSE rates[p]])
  <2> DEFINE z == [p \in Pids |-> Reading(rates, p)]
  <2>1. rates \in [Pids -> Nat \cup {None}]
    BY <1>1
  <2>2. z \in [Pids -> Nat] /\ \A p \in Pids : z[p] = 0
    BY <1>1 DEF Reading
  <2>3. HostRate([p \in Pids |-> IF rates[p] = None THEN 0 ELSE rates[p]]) = SumFunction(z)
    <3> HIDE DEF z
    <3>1. SumFunction([p \in Pids |-> Reading(rates, p)]) = HostRate(rates)
      BY <2>1, HostRateOf
    <3>2. HostRate([p \in Pids |-> IF rates[p] = None THEN 0 ELSE rates[p]]) = HostRate(rates)
      BY <2>1, HostRateOf
    <3> QED BY <3>1, <3>2 DEF z
  <2> HIDE DEF z
  <2>4. SumFunction(z) = 0
    BY <2>2, CountersAssumption, SumZero
  <2> QED BY <1>1, <2>3, <2>4
<1>3. RatesTypeOK
  <2>1. /\ counter \in [Pids -> Nat \cup {None}] /\ prev \in [Pids -> Nat \cup {None}]
        /\ rates \in [Pids -> Nat \cup {None}]
        /\ total \in [Pids -> Nat] /\ mark \in [Pids -> Nat]
    BY <1>1
  <2>2. fails \in 0..MaxFails
    BY <1>1, PollsAssumption
  <2>3. evicted \subseteq Pids /\ primed \in BOOLEAN /\ blind \in BOOLEAN
    BY <1>1, Zenon
  <2> QED BY <1>2, <2>1, <2>2, <2>3 DEF RatesTypeOK
<1>4. MarkBelow /\ Level
  BY <1>1 DEF MarkBelow, Level, Base, Before
<1> QED BY <1>3, <1>4 DEF RatesInv

\* A byte that is counted, and entries that are evicted, keep the invariant.
LEMMA CountStep ==
  ASSUME RatesInv, NEW p \in Pids, NEW gone \in SUBSET Pids, CountByte(p, gone)
  PROVE  RatesInv'
<1>1. /\ p \notin gone
      /\ counter' = [q \in Pids |-> IF q = p THEN Base(p) + 1
                                    ELSE IF q \in gone THEN None ELSE counter[q]]
      /\ total' = [total EXCEPT ![p] = @ + 1]
      /\ evicted' = evicted \cup gone
      /\ prev' = prev /\ primed' = primed /\ rates' = rates /\ host' = host
      /\ fails' = fails /\ mark' = mark /\ blind' = blind
  BY DEF CountByte, Count, pollVars
<1>2. /\ counter \in [Pids -> Nat \cup {None}] /\ prev \in [Pids -> Nat \cup {None}]
      /\ total \in [Pids -> Nat] /\ mark \in [Pids -> Nat]
      /\ evicted \subseteq Pids
  BY DEF RatesInv, RatesTypeOK
<1>3. \A q \in Pids : Base(q) \in Nat /\ Before(q) \in Nat
  BY <1>2 DEF Base, Before
<1>4. /\ counter' \in [Pids -> Nat \cup {None}] /\ total' \in [Pids -> Nat] /\ evicted' \subseteq Pids
  BY <1>1, <1>2, <1>3
<1>5. RatesTypeOK'
  BY <1>1, <1>4 DEF RatesInv, RatesTypeOK, HostRate
<1>6. \A q \in Pids : /\ total'[q] = total[q] + (IF q = p THEN 1 ELSE 0)
                      /\ Before(q)' = Before(q)
  BY <1>1, <1>2 DEF Before
<1>7. \A q \in Pids : Base(q)' = IF q = p THEN Base(p) + 1 ELSE IF q \in gone THEN 0 ELSE Base(q)
  <2>1. Base(p) + 1 # None
    BY <1>3, CountersAssumption
  <2> QED BY <1>1, <2>1 DEF Base
<1>8. MarkBelow'
  BY <1>1, <1>2, <1>6 DEF RatesInv, MarkBelow
<1>9. Level'
  <2> SUFFICES ASSUME ~blind, NEW q \in Pids
               PROVE  /\ q \notin evicted' => Base(q)' = Before(q)' + (total'[q] - mark[q])
                      /\ q \in evicted' => Base(q)' <= total'[q] - mark[q]
    BY <1>1 DEF Level
  <2>1. /\ q \notin evicted => Base(q) = Before(q) + (total[q] - mark[q])
        /\ q \in evicted => Base(q) <= total[q] - mark[q]
        /\ mark[q] <= total[q]
    BY DEF RatesInv, Level, MarkBelow
  <2>2. total[q] \in Nat /\ mark[q] \in Nat /\ Base(q) \in Nat /\ Before(q) \in Nat
    BY <1>2, <1>3
  <2>3. CASE q = p
    <3>1. (q \in evicted' <=> q \in evicted) /\ Base(q)' = Base(q) + 1 /\ total'[q] = total[q] + 1
      BY <1>1, <1>6, <1>7, <2>3
    <3> QED BY <1>6, <2>1, <2>2, <3>1
  <2>4. CASE q # p /\ q \in gone
    <3>1. q \in evicted' /\ Base(q)' = 0 /\ total'[q] = total[q]
      BY <1>1, <1>6, <1>7, <2>2, <2>4
    <3> QED BY <2>1, <2>2, <3>1
  <2>5. CASE q # p /\ q \notin gone
    <3>1. (q \in evicted' <=> q \in evicted) /\ Base(q)' = Base(q) /\ total'[q] = total[q]
      BY <1>1, <1>6, <1>7, <2>2, <2>5
    <3> QED BY <1>6, <2>1, <3>1
  <2> QED BY <2>3, <2>4, <2>5
<1> QED BY <1>5, <1>8, <1>9 DEF RatesInv

\* Rates are natural numbers, or there is none.
LEMMA RateNat ==
  ASSUME RatesTypeOK, NEW sample \in [Pids -> Nat \cup {None}], NEW p \in Pids
  PROVE  /\ Rate(sample, p) \in Nat \cup {None}
         /\ Rate(sample, p) = None <=> sample[p] = None \/ ~primed
         /\ Rate(sample, p) # None => Rate(sample, p) = Delta(sample[p], Before(p))
<1>1. Before(p) \in Nat
  BY DEF RatesTypeOK, Before
<1>2. sample[p] # None => Delta(sample[p], Before(p)) \in Nat
  BY <1>1 DEF Delta
<1> QED BY <1>2, CountersAssumption DEF Rate

\* What is published has the right shapes, and the host's rate is its sum.
LEMMA PublishShapes ==
  ASSUME RatesInv, NEW sample \in [Pids -> Nat \cup {None}], Publish(sample),
         fails' \in 0..MaxFails, blind' \in BOOLEAN
  PROVE  RatesTypeOK' /\ MarkBelow'
<1>1. /\ rates' = [p \in Pids |-> Rate(sample, p)]
      /\ host' = HostRate(rates')
      /\ prev' = sample /\ primed' = TRUE /\ mark' = total /\ evicted' = {}
      /\ counter' = counter /\ total' = total
  BY DEF Publish
<1>2. RatesTypeOK
  BY DEF RatesInv
<1>3. rates' \in [Pids -> Nat \cup {None}]
  BY <1>1, <1>2, RateNat
<1>4. PICK r \in [Pids -> Nat \cup {None}] : r = rates'
  BY <1>3
<1>5. HostRate([p \in Pids |-> IF r[p] = None THEN 0 ELSE r[p]]) = HostRate(r)
  BY HostRateOf
<1>6. host' = HostRate([p \in Pids |-> IF rates'[p] = None THEN 0 ELSE rates'[p]])
  BY <1>1, <1>4, <1>5 DEF HostRate
<1>7. RatesTypeOK'
  BY <1>1, <1>2, <1>3, <1>6 DEF RatesTypeOK, HostRate
<1>8. MarkBelow'
  BY <1>1, <1>2 DEF RatesTypeOK, MarkBelow
<1> QED BY <1>7, <1>8

\* A poll that reads the map makes the marks and the readings agree.
LEMMA PollStep == RatesInv /\ Poll => RatesInv'
<1> SUFFICES ASSUME RatesInv, Poll PROVE RatesInv'
  OBVIOUS
<1>1. /\ Publish(counter) /\ blind' = FALSE /\ fails' = fails
      /\ prev' = counter /\ mark' = total /\ evicted' = {} /\ counter' = counter /\ total' = total
  BY DEF Poll, Publish
<1>2. /\ counter \in [Pids -> Nat \cup {None}] /\ total \in [Pids -> Nat]
      /\ fails' \in 0..MaxFails /\ blind' \in BOOLEAN
  BY <1>1 DEF RatesInv, RatesTypeOK
<1>3. RatesTypeOK' /\ MarkBelow'
  BY <1>1, <1>2, PublishShapes
<1>4. \A p \in Pids : Base(p)' = Before(p)' /\ Base(p)' \in Nat
  BY <1>1, <1>2 DEF Base, Before
<1>5. Level'
  BY <1>1, <1>2, <1>4 DEF Level
<1> QED BY <1>3, <1>5 DEF RatesInv

\* A poll whose reading fails is blind: Level says nothing after it.
LEMMA PollFailsStep == RatesInv /\ PollFails => RatesInv'
<1> SUFFICES ASSUME RatesInv, PollFails PROVE RatesInv'
  OBVIOUS
<1>1. Publish(Nothing) /\ blind' = TRUE /\ fails < MaxFails /\ fails' = fails + 1
  BY DEF PollFails
<1>2. Nothing \in [Pids -> Nat \cup {None}]
  BY DEF Nothing
<1>3. fails' \in 0..MaxFails /\ blind' \in BOOLEAN
  BY <1>1, PollsAssumption DEF RatesInv, RatesTypeOK
<1>4. RatesTypeOK' /\ MarkBelow'
  BY <1>1, <1>2, <1>3, PublishShapes
<1> QED BY <1>1, <1>4 DEF RatesInv, Level

\* The invariant holds in every reachable state.
THEOREM RatesInvariance == RatesSpec => []RatesInv
<1>1. RatesInv /\ UNCHANGED ratesVars => RatesInv'
  BY DEF RatesInv, RatesTypeOK, MarkBelow, Level, Base, Before, HostRate, ratesVars, pollVars
<1>2. RatesInv /\ [RatesNext]_ratesVars => RatesInv'
  BY <1>1, CountStep, PollStep, PollFailsStep DEF RatesNext
<1> QED BY <1>2, InitRates, PTL DEF RatesSpec

\* RatesTypeOK: shapes, and the host's rates are those of the processes published with
\* them.
THEOREM RatesTypeCorrect == RatesSpec => []RatesTypeOK
<1>1. RatesInv => RatesTypeOK
  BY DEF RatesInv
<1> QED BY <1>1, RatesInvariance, PTL

-----------------------------------------------------------------------------
\* What a poll publishes for one process after a good one: never more than was
\* counted since, and just that if the entry has stayed.
LEMMA RateExplained ==
  ASSUME RatesInv, ~blind, NEW p \in Pids, Poll \/ PollFails
  PROVE  /\ rates' \in [Pids -> Nat \cup {None}]
         /\ Reading(rates', p) <= total[p] - mark[p]
         /\ Poll /\ primed /\ p \notin evicted => Reading(rates', p) = total[p] - mark[p]
<1>1. /\ RatesTypeOK
      /\ counter \in [Pids -> Nat \cup {None}] /\ total[p] \in Nat /\ mark[p] \in Nat /\ mark[p] <= total[p]
      /\ Base(p) \in Nat /\ Before(p) \in Nat
      /\ p \notin evicted => Base(p) = Before(p) + (total[p] - mark[p])
      /\ p \in evicted => Base(p) <= total[p] - mark[p]
  BY DEF RatesInv, RatesTypeOK, MarkBelow, Level, Base, Before
<1>2. PICK sample \in [Pids -> Nat \cup {None}] :
        /\ rates' = [q \in Pids |-> Rate(sample, q)]
        /\ sample[p] = None \/ sample[p] = counter[p]
        /\ Poll => sample = counter
  <2>1. CASE Poll
    BY <1>1, <2>1 DEF Poll, Publish
  <2>2. CASE PollFails /\ ~Poll
    <3>1. Nothing \in [Pids -> Nat \cup {None}] /\ Nothing[p] = None
      BY DEF Nothing
    <3> QED BY <2>2, <3>1 DEF PollFails, Publish
  <2> QED BY <2>1, <2>2
<1>3. rates' \in [Pids -> Nat \cup {None}] /\ rates'[p] = Rate(sample, p)
  BY <1>1, <1>2, RateNat
<1>4. /\ rates'[p] = None <=> sample[p] = None \/ ~primed
      /\ rates'[p] # None => rates'[p] = Delta(sample[p], Before(p))
  BY <1>1, <1>3, RateNat
<1>5. CASE rates'[p] = None
  <2>1. Reading(rates', p) = 0
    BY <1>5 DEF Reading
  <2>2. ASSUME Poll, primed, p \notin evicted PROVE total[p] - mark[p] = 0
    <3>1. counter[p] = None
      BY <1>2, <1>4, <1>5, <2>2
    <3>2. Base(p) = 0
      BY <3>1 DEF Base
    <3> QED BY <1>1, <2>2, <3>2
  <2> QED BY <1>1, <1>3, <2>1, <2>2
<1>6. CASE rates'[p] # None
  <2>1. Reading(rates', p) = Delta(sample[p], Before(p)) /\ sample[p] = counter[p] /\ counter[p] # None
    BY <1>2, <1>4, <1>6 DEF Reading
  <2>2. Reading(rates', p) = Delta(Base(p), Before(p))
    BY <2>1 DEF Base
  <2> QED BY <1>1, <1>3, <2>2 DEF Delta
<1> QED BY <1>5, <1>6

\* RatesExplained: after a good poll, the next one publishes what was counted
\* since; the host's rate is never more than all that was.
THEOREM RatesTrue == RatesSpec => RatesExplained
<1> DEFINE Explained ==
      (Poll \/ PollFails) /\ ~blind =>
       /\ \A p \in Pids :
            LET rate == IF rates'[p] = None THEN 0 ELSE rates'[p]
                news == total[p] - mark[p]
            IN  /\ rate <= news
                /\ Poll /\ primed /\ p \notin evicted => rate = news
       /\ host' <= SumFunction(total) - SumFunction(mark)
<1>1. RatesInv /\ [RatesNext]_ratesVars => [Explained]_ratesVars
  <2> SUFFICES ASSUME RatesInv, Poll \/ PollFails, ~blind
               PROVE  /\ \A p \in Pids : /\ Reading(rates', p) <= total[p] - mark[p]
                                         /\ Poll /\ primed /\ p \notin evicted =>
                                              Reading(rates', p) = total[p] - mark[p]
                      /\ host' <= SumFunction(total) - SumFunction(mark)
    BY DEF Reading
  <2>1. \A p \in Pids : /\ rates' \in [Pids -> Nat \cup {None}]
                        /\ Reading(rates', p) <= total[p] - mark[p]
                        /\ Poll /\ primed /\ p \notin evicted =>
                             Reading(rates', p) = total[p] - mark[p]
    BY RateExplained
  <2>2. host' <= SumFunction(total) - SumFunction(mark)
    <3>1. rates' \in [Pids -> Nat \cup {None}] /\ host' = HostRate(rates')
      BY PollStep, PollFailsStep DEF RatesInv, RatesTypeOK, Poll, PollFails, Publish
    <3>2. PICK r \in [Pids -> Nat \cup {None}] : r = rates'
      BY <3>1
    <3> DEFINE z == [p \in Pids |-> Reading(r, p)]
               d == [p \in Pids |-> total[p] - mark[p]]
    <3>3. z \in [Pids -> Nat] /\ host' = SumFunction(z)
      BY <3>1, <3>2, HostRateOf DEF HostRate
    <3>4. /\ total \in [Pids -> Nat] /\ mark \in [Pids -> Nat]
          /\ \A p \in Pids : mark[p] <= total[p]
      BY DEF RatesInv, RatesTypeOK, MarkBelow
    <3>5. d \in [Pids -> Nat] /\ \A p \in Pids : total[p] = mark[p] + d[p]
      BY <3>4
    <3>6. \A p \in Pids : z[p] <= d[p]
      BY <2>1, <3>2
    <3> HIDE DEF z, d
    <3>7. SumFunction(total) = SumFunction(mark) + SumFunction(d)
      BY <3>4, <3>5, CountersAssumption, SumAdds
    <3>8. SumFunction(z) <= SumFunction(d)
      BY <3>3, <3>5, <3>6, CountersAssumption, SumMonotone
    <3>9. SumFunction(z) \in Nat /\ SumFunction(d) \in Nat /\ SumFunction(mark) \in Nat
      BY <3>3, <3>4, <3>5, CountersAssumption, SumNat
    <3> QED BY <3>3, <3>7, <3>8, <3>9
  <2> QED BY <2>1, <2>2
<1> HIDE DEF Explained
<1> QED BY <1>1, RatesInvariance, PTL DEF RatesSpec, RatesExplained, Explained
=============================================================================
