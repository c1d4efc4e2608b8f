------------------------ MODULE SnapshotCaches_proofs ------------------------
(***************************************************************************)
(* Proofs of the safety properties of SnapshotCaches for any processes,    *)
(* namespaces and number of changes of the host.                           *)
(***************************************************************************)
EXTENDS SnapshotCaches, SequenceTheorems, TLAPS

Processes == [state : {"alive", "zombie"}, ns : Namespaces]
Events == [pid : Pids, kind : {"exit", "ns"}]

Places == [cache : SUBSET Pids, copy : SUBSET Pids, tree : SUBSET Pids]

\* What TypeOK leaves open: the functions have their domains, the ring its
\* events, the copy its entries.
Shapes ==
  /\ world \in [Pids -> Processes \cup {None}]
  /\ entering \in [Pids -> Namespaces \cup {None}]
  /\ cache \in [Pids -> Entry \cup {None}]
  /\ list \in [Pids -> Item \cup {None}]
  /\ snap \in [Pids -> Item \cup {None}]
  /\ copy \in [Pids -> Entry \cup {None}]
  /\ ring \in Seq(Events)

\* A PID counted as absent has no process, and the walk that began without it
\* does not come across it.
AbsentUnseen ==
  \A p \in absent : /\ world[p] = None
                    /\ scan # "idle" => p \notin seen /\ list[p] = None

Right(p, n) == n \in {world[p].ns, None}

\* A living process that no event in the ring is about to say something of.
Settled(p) == Alive(p) /\ ~Announced(p)

\* What is known of a settled process is right where it is not in doubt: in
\* proc_cache, in the copy and, unless it is about to be invalidated, in the tree.
CacheFollows ==
  \A p \in Pids \ doubt.cache : Settled(p) /\ cache[p] # None => Right(p, cache[p].ns)

CopyFollows ==
  \A p \in Pids \ doubt.copy :
    Settled(p) /\ scan = "index" /\ copy[p] # None => Right(p, copy[p].ns)

TreeFollows ==
  \A p \in Pids \ doubt.tree : Settled(p) /\ ~treeDue /\ treeFresh => Right(p, tree[p])

\* What the walk, the caches and the lists add up to.
Books ==
  /\ TypeOK
  /\ Shapes
  /\ AbsentUnseen
  /\ AbsentUnlisted

\* The inductive invariant.
IInv ==
  /\ Books
  /\ CacheFollows
  /\ CopyFollows
  /\ TreeFollows

-----------------------------------------------------------------------------
\* A process of the model is not None, nor is a namespace.
LEMMA NotNone ==
  ASSUME NEW n \in Namespaces
  PROVE  n # None /\ [state |-> "alive", ns |-> n] # None /\ [state |-> "zombie", ns |-> n] # None
<1>1. /\ [state |-> "alive", ns |-> n] \in [state : {"alive", "zombie"}, ns : Namespaces]
      /\ [state |-> "zombie", ns |-> n] \in [state : {"alive", "zombie"}, ns : Namespaces]
  OBVIOUS
<1>2. QED
  BY <1>1, NoneAssumption

\* An event that goes into the ring is announced there, and nothing else is.
LEMMA EmitRing ==
  ASSUME Shapes, NEW q \in Pids, NEW kind \in {"exit", "ns"}, Emit(q, kind)
  PROVE  /\ ring' \in Seq(Events)
         /\ \A p : Announced(p) => Announced(p)'
         /\ \A p : Announced(p)' => Announced(p) \/ (p = q /\ kind = "ns")
<1>1. ring \in Seq(Events) /\ Len(ring) \in Nat
  BY LenProperties DEF Shapes
<1>2. CASE UNCHANGED ring
  BY <1>1, <1>2 DEF Announced
<1> DEFINE e == [pid |-> q, kind |-> kind]
<1>3. CASE ring' = Append(ring, e)
  <2>1. e \in Events
    BY DEF Events
  <2>2. \A p : e = [pid |-> p, kind |-> "ns"] => p = q /\ kind = "ns"
    OBVIOUS
  <2> HIDE DEF e
  <2>3. /\ ring' \in Seq(Events) /\ Len(ring') = Len(ring) + 1
        /\ \A i \in 1..Len(ring) : ring'[i] = ring[i]
        /\ ring'[Len(ring) + 1] = e
    BY <1>1, <1>3, <2>1, AppendProperties
  <2>4. /\ \A i \in 1..Len(ring) : i \in 1..Len(ring')
        /\ \A i \in 1..Len(ring') : i \in 1..Len(ring) \/ i = Len(ring) + 1
    BY <1>1, <2>3
  <2>5. \A p : Announced(p) => Announced(p)'
    BY <2>3, <2>4 DEF Announced
  <2>6. \A p : Announced(p)' => Announced(p) \/ e = [pid |-> p, kind |-> "ns"]
    BY <2>3, <2>4 DEF Announced
  <2>7. QED
    BY <2>2, <2>3, <2>5, <2>6
<1>4. QED
  BY <1>2, <1>3 DEF Emit

\* Of what is announced in the ring, only its first event goes when it is taken.
LEMMA TakeRing ==
  ASSUME Shapes, ring # <<>>, ring' = Tail(ring)
  PROVE  /\ Head(ring) \in Events /\ ring' \in Seq(Events)
         /\ \A p : Announced(p) => Announced(p)' \/ Head(ring) = [pid |-> p, kind |-> "ns"]
         /\ \A p : Announced(p)' => Announced(p)
<1>1. ring \in Seq(Events) /\ Len(ring) \in Nat /\ Len(ring) # 0
  BY LenProperties, EmptySeq DEF Shapes
<1>2. /\ Head(ring) \in Events /\ Head(ring) = ring[1]
      /\ ring' \in Seq(Events) /\ Len(ring') = Len(ring) - 1
      /\ \A i \in 1..Len(ring') : ring'[i] = ring[i + 1]
  BY <1>1, HeadTailProperties
<1>3. \A i \in 1..Len(ring) : i = 1 \/ (i - 1 \in 1..Len(ring') /\ (i - 1) + 1 = i)
  BY <1>1, <1>2
<1>4. \A i \in 1..Len(ring') : i + 1 \in 1..Len(ring)
  BY <1>1, <1>2
<1>5. \A p : Announced(p) => Announced(p)' \/ Head(ring) = [pid |-> p, kind |-> "ns"]
  <2> SUFFICES ASSUME NEW p, NEW i \in 1..Len(ring), ring[i] = [pid |-> p, kind |-> "ns"], i # 1
               PROVE  Announced(p)'
    BY <1>2 DEF Announced
  <2>1. i - 1 \in 1..Len(ring') /\ ring'[i - 1] = ring[i]
    BY <1>2, <1>3
  <2>2. QED
    BY <2>1 DEF Announced
<1>6. \A p : Announced(p)' => Announced(p)
  BY <1>2, <1>4 DEF Announced
<1>7. QED
  BY <1>2, <1>5, <1>6

-----------------------------------------------------------------------------
\* The daemon starts knowing nothing.
LEMMA InitIInv == Init => IInv
<1> SUFFICES ASSUME Init PROVE IInv
  OBVIOUS
<1>1. \A p \in Pids : world[p] = None /\ entering[p] = None /\ cache[p] = None
                      /\ list[p] = None /\ snap[p] = None /\ copy[p] = None
  BY DEF Init, Empty
<1>2. TypeOK
  <2>1. tree \in [Pids -> Namespaces \cup {None}] /\ changes \in 0..MaxChanges
    BY ChangesAssumption DEF Init, Empty
  <2>2. /\ treeDue \in BOOLEAN /\ treeFresh \in BOOLEAN /\ scan = "idle"
        /\ todo \subseteq Pids /\ seen \subseteq Pids /\ absent \subseteq Pids
    BY DEF Init
  <2>3. doubt \in Places
    BY DEF Init, Places
  <2>4. QED
    BY <1>1, <2>1, <2>2, <2>3 DEF TypeOK, Places
<1>3. Shapes
  BY EmptySeq DEF Init, Shapes, Empty
<1>4. AbsentUnseen /\ AbsentUnlisted
  BY <1>1 DEF Init, AbsentUnseen, AbsentUnlisted
<1>5. CacheFollows /\ CopyFollows /\ TreeFollows
  BY <1>1 DEF Init, CacheFollows, CopyFollows, TreeFollows
<1>6. QED
  BY <1>2, <1>3, <1>4, <1>5 DEF IInv, Books

-----------------------------------------------------------------------------
(* The host.                                                               *)

\* A step of the host on process q keeps the books when the kernel's own state
\* keeps its shape and no absent PID gets a process.
LEMMA HostBooks ==
  ASSUME Books, UNCHANGED <<treeDue, cache, tree, treeFresh, scanVars>>,
         world' \in [Pids -> Processes \cup {None}],
         entering' \in [Pids -> Namespaces \cup {None}],
         \A p \in Pids : entering'[p] # None => Alive(p)',
         ring' \in Seq(Events), changes' \in 0..MaxChanges,
         absent' \subseteq absent, doubt' \in Places,
         \A p \in absent' : world'[p] = None
  PROVE  Books'
<1>1. UNCHANGED <<treeDue, cache, tree, treeFresh, scan, todo, seen, list, copy, snap>>
  BY DEF scanVars
<1>2. TypeOK'
  BY <1>1 DEF Books, TypeOK, Processes, Places
<1>3. Shapes'
  BY <1>1 DEF Books, Shapes
<1>4. AbsentUnseen' /\ AbsentUnlisted'
  BY <1>1 DEF Books, AbsentUnseen, AbsentUnlisted
<1>5. QED
  BY <1>2, <1>3, <1>4 DEF Books

\* A doubt that is cast on everything known of some processes adds them to each
\* place.
LEMMA DoubtedIs ==
  ASSUME IInv, NEW s \in SUBSET Pids, doubt' = Doubted(s)
  PROVE  /\ doubt' \in Places
         /\ doubt'.cache = doubt.cache \cup s
         /\ doubt'.copy = doubt.copy \cup s
         /\ doubt'.tree = doubt.tree \cup s
<1>1. doubt \in Places
  BY DEF IInv, Books, TypeOK, Places
<1>2. DOMAIN doubt = {"cache", "copy", "tree"}
  BY <1>1 DEF Places
<1>3. doubt' = [place \in {"cache", "copy", "tree"} |-> doubt[place] \cup s]
  BY <1>2 DEF Doubted
<1>4. /\ doubt'["cache"] = doubt["cache"] \cup s
      /\ doubt'["copy"] = doubt["copy"] \cup s
      /\ doubt'["tree"] = doubt["tree"] \cup s
  BY <1>3
<1>5. doubt' = [cache |-> doubt'["cache"], copy |-> doubt'["copy"], tree |-> doubt'["tree"]]
  BY <1>3
<1>6. QED
  BY <1>1, <1>4, <1>5 DEF Places

\* What is known stays right when every process that is settled afterwards was so
\* before, in the same namespace, or is in doubt.
LEMMA HostFollows ==
  ASSUME IInv, UNCHANGED <<treeDue, cache, tree, treeFresh, scanVars>>,
         doubt.cache \subseteq doubt'.cache,
         doubt.copy \subseteq doubt'.copy,
         doubt.tree \subseteq doubt'.tree,
         \A p \in Pids : Settled(p)' =>
            \/ Settled(p) /\ world'[p] = world[p]
            \/ p \in doubt'.cache /\ p \in doubt'.copy /\ p \in doubt'.tree
  PROVE  CacheFollows' /\ CopyFollows' /\ TreeFollows'
<1>1. UNCHANGED <<treeDue, cache, tree, treeFresh, scan, copy>>
  BY DEF scanVars
<1>2. CacheFollows'
  BY <1>1 DEF IInv, CacheFollows, Right
<1>3. CopyFollows'
  BY <1>1 DEF IInv, CopyFollows, Right
<1>4. TreeFollows'
  BY <1>1 DEF IInv, TreeFollows, Right
<1>5. QED
  BY <1>2, <1>3, <1>4

\* A birth keeps the invariant: the PID is in doubt, for the caches may still have
\* its last owner.
LEMMA BornStep ==
  ASSUME IInv, NEW q \in Pids, Born(q)
  PROVE  IInv'
<1>1. PICK n \in Namespaces : world' = [world EXCEPT ![q] = [state |-> "alive", ns |-> n]]
  BY DEF Born
<1>2. /\ world[q] = None /\ absent' = absent \ {q} /\ doubt' = Doubted({q})
      /\ UNCHANGED <<entering, ring, treeDue, cache, tree, treeFresh, scanVars>>
      /\ changes < MaxChanges /\ changes' = changes + 1
  BY DEF Born, Change, DaemonUnchanged, treeVars
<1>3. world' \in [Pids -> Processes \cup {None}] /\ \A p \in Pids : p # q => world'[p] = world[p]
  BY <1>1 DEF IInv, Books, Shapes, Processes
<1>4. entering[q] = None
  BY <1>2 DEF IInv, Books, TypeOK, Alive
<1>5. Books'
  <2>1. \A p \in Pids : entering'[p] # None => Alive(p)'
    BY <1>2, <1>3, <1>4 DEF IInv, Books, TypeOK, Alive
  <2>2. \A p \in absent' : world'[p] = None
    BY <1>2, <1>3 DEF IInv, Books, TypeOK, AbsentUnseen
  <2>3. /\ entering' \in [Pids -> Namespaces \cup {None}]
        /\ ring' \in Seq(Events)
    BY <1>2 DEF IInv, Books, Shapes
  <2>4. changes' \in 0..MaxChanges
    BY <1>2, ChangesAssumption DEF IInv, Books, TypeOK
  <2>5. doubt' \in Places
    BY <1>2, DoubtedIs
  <2>6. QED
    BY <1>2, <1>3, <2>1, <2>2, <2>3, <2>4, <2>5, HostBooks DEF IInv
<1>6. \A p : Announced(p)' <=> Announced(p)
  BY <1>2 DEF Announced
<1>7. \A p \in Pids \ {q} : Settled(p)' => Settled(p) /\ world'[p] = world[p]
  BY <1>2, <1>3, <1>6 DEF Settled, Alive
<1>8. CacheFollows' /\ CopyFollows' /\ TreeFollows'
  <2>1. /\ doubt'.cache = doubt.cache \cup {q}
        /\ doubt'.copy = doubt.copy \cup {q}
        /\ doubt'.tree = doubt.tree \cup {q}
    BY <1>2, DoubtedIs
  <2>2. QED
    BY <1>2, <1>7, <2>1, HostFollows
<1>9. QED
  BY <1>5, <1>8 DEF IInv

\* So does an exit: a zombie is not held to anything.
LEMMA ExitStep ==
  ASSUME IInv, NEW q \in Pids, Exit(q)
  PROVE  IInv'
<1>1. /\ Alive(q) /\ world' = [world EXCEPT ![q].state = "zombie"]
      /\ entering' = [entering EXCEPT ![q] = None]
      /\ Emit(q, "exit")
      /\ changes < MaxChanges /\ changes' = changes + 1
      /\ UNCHANGED <<absent, treeDue, cache, tree, treeFresh, doubt, scanVars>>
  BY DEF Exit, Change, HostUnchanged, DaemonUnchanged, treeVars
<1>2. world[q] \in Processes /\ world[q] # None
  BY <1>1 DEF IInv, Books, Shapes, Alive
<1>3. /\ world' \in [Pids -> Processes \cup {None}]
      /\ world'[q].state = "zombie"
      /\ \A p \in Pids : p # q => world'[p] = world[p]
  BY <1>1, <1>2 DEF IInv, Books, Shapes, Processes
<1>4. /\ entering' \in [Pids -> Namespaces \cup {None}]
      /\ entering'[q] = None /\ \A p \in Pids : p # q => entering'[p] = entering[p]
  BY <1>1 DEF IInv, Books, Shapes
<1>5. /\ ring' \in Seq(Events)
      /\ \A p : Announced(p)' <=> Announced(p)
  BY <1>1, EmitRing DEF IInv, Books
<1>6. Books'
  <2>1. \A p \in Pids : entering'[p] # None => Alive(p)'
    BY <1>3, <1>4 DEF IInv, Books, TypeOK, Alive
  <2>2. \A p \in absent : world'[p] = None
    BY <1>2, <1>3 DEF IInv, Books, TypeOK, AbsentUnseen
  <2>3. changes' \in 0..MaxChanges
    BY <1>1, ChangesAssumption DEF IInv, Books, TypeOK
  <2>4. QED
    BY <1>1, <1>3, <1>4, <1>5, <2>1, <2>2, <2>3, HostBooks DEF IInv, Books, TypeOK, Places
<1>7. \A p \in Pids : Settled(p)' => Settled(p) /\ world'[p] = world[p]
  BY <1>1, <1>3, <1>4, <1>5 DEF Settled, Alive
<1>8. CacheFollows' /\ CopyFollows' /\ TreeFollows'
  BY <1>1, <1>2, <1>7, HostFollows
<1>9. QED
  BY <1>1, <1>6, <1>7, <1>8 DEF IInv

\* So does the reaping of a zombie.
LEMMA ReapStep ==
  ASSUME IInv, NEW q \in Pids, Reap(q)
  PROVE  IInv'
<1>1. /\ world[q] # None /\ world[q].state = "zombie"
      /\ world' = [world EXCEPT ![q] = None]
      /\ UNCHANGED <<entering, changes, ring, absent, treeDue, cache, tree, treeFresh, doubt, scanVars>>
  BY DEF Reap, HostUnchanged, DaemonUnchanged, treeVars
<1>2. /\ world' \in [Pids -> Processes \cup {None}]
      /\ world'[q] = None /\ \A p \in Pids : p # q => world'[p] = world[p]
  BY <1>1 DEF IInv, Books, Shapes
<1>3. entering[q] = None
  BY <1>1 DEF IInv, Books, TypeOK, Alive
<1>4. Books'
  <2>1. \A p \in Pids : entering'[p] # None => Alive(p)'
    BY <1>1, <1>2, <1>3 DEF IInv, Books, TypeOK, Alive
  <2>2. \A p \in absent' : world'[p] = None
    BY <1>1, <1>2 DEF IInv, Books, TypeOK, AbsentUnseen
  <2>3. /\ entering' \in [Pids -> Namespaces \cup {None}]
        /\ ring' \in Seq(Events) /\ changes' \in 0..MaxChanges
    BY <1>1 DEF IInv, Books, Shapes, TypeOK
  <2>4. QED
    BY <1>1, <1>2, <2>1, <2>2, <2>3, HostBooks DEF IInv, Books, TypeOK, Places
<1>5. \A p : Announced(p)' <=> Announced(p)
  BY <1>1 DEF Announced
<1>6. \A p \in Pids : Settled(p)' => Settled(p) /\ world'[p] = world[p]
  BY <1>1, <1>2, <1>5 DEF Settled, Alive
<1>7. CacheFollows' /\ CopyFollows' /\ TreeFollows'
  BY <1>1, <1>2, <1>6, HostFollows
<1>8. QED
  BY <1>1, <1>4, <1>6, <1>7 DEF IInv

\* So does the exit of a thread, which only puts an event into the ring.
LEMMA ThreadExitStep ==
  ASSUME IInv, NEW q \in Pids, ThreadExit(q)
  PROVE  IInv'
<1>1. /\ Emit(q, "exit")
      /\ changes < MaxChanges /\ changes' = changes + 1
      /\ UNCHANGED <<world, entering, absent, treeDue, cache, tree, treeFresh, doubt, scanVars>>
  BY DEF ThreadExit, Change, HostUnchanged, DaemonUnchanged, treeVars
<1>2. /\ ring' \in Seq(Events)
      /\ \A p : Announced(p)' <=> Announced(p)
  BY <1>1, EmitRing DEF IInv, Books
<1>3. Books'
  <2>1. \A p \in Pids : entering'[p] # None => Alive(p)'
    BY <1>1 DEF IInv, Books, TypeOK, Alive
  <2>2. \A p \in absent' : world'[p] = None
    BY <1>1 DEF IInv, Books, AbsentUnseen
  <2>3. /\ world' \in [Pids -> Processes \cup {None}]
        /\ entering' \in [Pids -> Namespaces \cup {None}]
    BY <1>1 DEF IInv, Books, Shapes
  <2>4. changes' \in 0..MaxChanges
    BY <1>1, ChangesAssumption DEF IInv, Books, TypeOK
  <2>5. QED
    BY <1>1, <1>2, <2>1, <2>2, <2>3, <2>4, HostBooks DEF IInv, Books, TypeOK, Places
<1>4. \A p \in Pids : Settled(p)' => Settled(p) /\ world'[p] = world[p]
  BY <1>1, <1>2 DEF Settled, Alive
<1>5. CacheFollows' /\ CopyFollows' /\ TreeFollows'
  BY <1>1, <1>2, <1>4, HostFollows
<1>6. QED
  BY <1>1, <1>3, <1>4, <1>5 DEF IInv

\* So does the entry of setns or unshare: nothing has moved yet.
LEMMA SetnsEnterStep ==
  ASSUME IInv, NEW q \in Pids, SetnsEnter(q)
  PROVE  IInv'
<1>1. PICK n \in Namespaces : entering' = [entering EXCEPT ![q] = n]
  BY DEF SetnsEnter
<1>2. /\ Alive(q)
      /\ Emit(q, "ns")
      /\ changes < MaxChanges /\ changes' = changes + 1
      /\ UNCHANGED <<world, absent, treeDue, cache, tree, treeFresh, doubt, scanVars>>
  BY DEF SetnsEnter, Change, HostUnchanged, DaemonUnchanged, treeVars
<1>3. n # None
  BY NotNone
<1>4. /\ entering' \in [Pids -> Namespaces \cup {None}]
      /\ entering'[q] # None /\ \A p \in Pids : p # q => entering'[p] = entering[p]
  BY <1>1, <1>3 DEF IInv, Books, Shapes
<1>5. /\ ring' \in Seq(Events)
      /\ \A p : Announced(p) => Announced(p)'
  BY <1>2, EmitRing DEF IInv, Books
<1>6. Books'
  <2>1. \A p \in Pids : entering'[p] # None => Alive(p)'
    BY <1>2, <1>4 DEF IInv, Books, TypeOK, Alive
  <2>2. \A p \in absent' : world'[p] = None
    BY <1>2 DEF IInv, Books, AbsentUnseen
  <2>3. world' \in [Pids -> Processes \cup {None}]
    BY <1>2 DEF IInv, Books, Shapes
  <2>4. changes' \in 0..MaxChanges
    BY <1>2, ChangesAssumption DEF IInv, Books, TypeOK
  <2>5. QED
    BY <1>2, <1>4, <1>5, <2>1, <2>2, <2>3, <2>4, HostBooks DEF IInv, Books, TypeOK, Places
<1>7. \A p \in Pids : Settled(p)' => Settled(p) /\ world'[p] = world[p]
  BY <1>2, <1>4, <1>5 DEF Settled, Alive
<1>8. CacheFollows' /\ CopyFollows' /\ TreeFollows'
  BY <1>1, <1>2, <1>7, HostFollows
<1>9. QED
  BY <1>2, <1>6, <1>7, <1>8 DEF IInv

\* So does the call's work: an event is still in the ring, or all that is known of
\* the process is in doubt.
LEMMA SetnsEffectStep ==
  ASSUME IInv, NEW q \in Pids, SetnsEffect(q)
  PROVE  IInv'
<1>1. /\ entering[q] # None
      /\ world' = [world EXCEPT ![q].ns = entering[q]]
      /\ entering' = [entering EXCEPT ![q] = None]
      /\ UNCHANGED <<changes, ring, absent, treeDue, cache, tree, treeFresh, scanVars>>
      /\ doubt' = IF Announced(q) THEN doubt ELSE Doubted({q})
  BY DEF SetnsEffect, DaemonUnchanged, treeVars
<1>2. world[q] \in Processes /\ Alive(q) /\ entering[q] \in Namespaces
  BY <1>1 DEF IInv, Books, Shapes, TypeOK, Alive
<1>3. /\ world' \in [Pids -> Processes \cup {None}]
      /\ \A p \in Pids : p # q => world'[p] = world[p]
  BY <1>1, <1>2 DEF IInv, Books, Shapes, Processes
<1>4. /\ entering' \in [Pids -> Namespaces \cup {None}]
      /\ entering'[q] = None /\ \A p \in Pids : p # q => entering'[p] = entering[p]
  BY <1>1 DEF IInv, Books, Shapes
<1>5. Books'
  <2>1. \A p \in Pids : entering'[p] # None => Alive(p)'
    BY <1>3, <1>4 DEF IInv, Books, TypeOK, Alive
  <2>2. \A p \in absent' : world'[p] = None
    BY <1>1, <1>2, <1>3 DEF IInv, Books, TypeOK, AbsentUnseen, Alive
  <2>3. ring' \in Seq(Events) /\ changes' \in 0..MaxChanges
    BY <1>1 DEF IInv, Books, Shapes, TypeOK
  <2>4. doubt' \in Places
    BY <1>1, DoubtedIs DEF IInv, Books, TypeOK, Places
  <2>5. QED
    BY <1>1, <1>3, <1>4, <2>1, <2>2, <2>3, <2>4, HostBooks DEF IInv
<1>6. \A p : Announced(p)' <=> Announced(p)
  BY <1>1 DEF Announced
<1>7. \A p \in Pids \ {q} : Settled(p)' => Settled(p) /\ world'[p] = world[p]
  BY <1>1, <1>3, <1>4, <1>6 DEF Settled, Alive
<1>8. CacheFollows' /\ CopyFollows' /\ TreeFollows'
  <2>1. CASE Announced(q)
    <3>1. \A p \in Pids : Settled(p)' => Settled(p) /\ world'[p] = world[p]
      BY <1>6, <1>7, <2>1 DEF Settled
    <3>2. QED
      BY <1>1, <2>1, <3>1, HostFollows
  <2>2. CASE ~Announced(q)
    <3>1. /\ doubt'.cache = doubt.cache \cup {q}
          /\ doubt'.copy = doubt.copy \cup {q}
          /\ doubt'.tree = doubt.tree \cup {q}
      BY <1>1, <2>2, DoubtedIs
    <3>2. QED
      BY <1>1, <1>7, <3>1, HostFollows
  <2>3. QED
    BY <2>1, <2>2
<1>9. QED
  BY <1>5, <1>8 DEF IInv

-----------------------------------------------------------------------------
(* The ring-buffer task and time.                                          *)

\* So does an event dealt with: its process's entry goes, the tree is about to be
\* invalidated, and a copy that is waiting for the rebuild is in doubt.
LEMMA OnEventStep ==
  ASSUME IInv, OnEvent
  PROVE  IInv'
<1> DEFINE q == Head(ring).pid
<1>1. /\ ring # <<>> /\ ring' = Tail(ring)
      /\ ~treeDue /\ scan # "walk"
      /\ cache' = [cache EXCEPT ![q] = None]
      /\ treeDue' = (Head(ring).kind = "ns")
      /\ doubt' = IF scan = "index" /\ Head(ring).kind = "ns"
                  THEN [doubt EXCEPT !.copy = @ \cup {q}] ELSE doubt
      /\ UNCHANGED <<world, entering, changes, absent, tree, treeFresh, scanVars>>
  BY DEF OnEvent, CacheLockFree, InvalidateEntry, TreeAffected, treeVars
<1>2. UNCHANGED <<scan, todo, seen, list, copy, snap>>
  BY <1>1 DEF scanVars
<1>3. /\ Head(ring) \in Events /\ ring' \in Seq(Events)
      /\ \A p : Announced(p) => Announced(p)' \/ Head(ring) = [pid |-> p, kind |-> "ns"]
      /\ \A p : Announced(p)' => Announced(p)
  BY <1>1, TakeRing DEF IInv, Books
<1>4. q \in Pids
  BY <1>3 DEF Events
<1> DEFINE ns == Head(ring).kind = "ns"
<1>5. /\ \A p : Announced(p) /\ ~Announced(p)' => p = q /\ ns
      /\ treeDue' \in BOOLEAN /\ (ns => treeDue')
  <2>1. \A p : Head(ring) = [pid |-> p, kind |-> "ns"] => p = q /\ ns
    OBVIOUS
  <2>2. QED
    BY <1>1, <1>3, <2>1
<1> HIDE DEF q
<1>6. /\ doubt' \in Places
      /\ doubt'.cache = doubt.cache /\ doubt'.tree = doubt.tree
      /\ doubt.copy \subseteq doubt'.copy
      /\ ns /\ scan = "index" => q \in doubt'.copy
  BY <1>1, <1>4 DEF IInv, Books, TypeOK, Places
<1> HIDE DEF ns
<1>7. /\ cache' \in [Pids -> Entry \cup {None}]
      /\ cache'[q] = None /\ \A p \in Pids : p # q => cache'[p] = cache[p]
  BY <1>1, <1>4 DEF IInv, Books, Shapes
<1>8. Books'
  <2>1. TypeOK'
    <3>1. UNCHANGED <<world, entering, changes, absent, tree, treeFresh>>
      BY <1>1
    <3>2. QED
      BY <3>1, <1>2, <1>5, <1>6, <1>7 DEF IInv, Books, TypeOK, Alive, Places
  <2>2. Shapes'
    BY <1>1, <1>2, <1>3, <1>7 DEF IInv, Books, Shapes
  <2>3. AbsentUnseen'
    BY <1>1, <1>2 DEF IInv, Books, AbsentUnseen
  <2>4. AbsentUnlisted'
    BY <1>1, <1>2, <1>7 DEF IInv, Books, AbsentUnlisted, TypeOK
  <2>5. QED
    BY <2>1, <2>2, <2>3, <2>4 DEF Books
<1>9. \A p \in Pids : Settled(p)' => Settled(p) \/ (p = q /\ ns)
  BY <1>1, <1>5 DEF Settled, Alive
<1>10. CacheFollows'
  BY <1>1, <1>6, <1>7, <1>9 DEF IInv, CacheFollows, Right
<1>11. CopyFollows'
  BY <1>1, <1>2, <1>6, <1>9 DEF IInv, CopyFollows, Right
<1>12. TreeFollows'
  BY <1>1, <1>5, <1>6, <1>9 DEF IInv, TreeFollows, Right
<1>13. QED
  BY <1>8, <1>10, <1>11, <1>12 DEF IInv

\* A step that touches neither the host nor the ring settles nobody.
LEMMA QuietFollows ==
  ASSUME UNCHANGED <<world, ring>>
  PROVE  \A p \in Pids : Settled(p)' => Settled(p)
BY DEF Settled, Alive, Announced

\* So does the invalidation of the tree.
LEMMA OnEventTreeStep ==
  ASSUME IInv, OnEventTree
  PROVE  IInv'
<1>1. /\ treeDue /\ treeDue' = FALSE /\ treeFresh' = FALSE
      /\ UNCHANGED <<world, entering, changes, ring, absent, cache, tree, doubt>>
      /\ UNCHANGED <<scan, todo, seen, list, copy, snap>>
  BY DEF OnEventTree, kernelVars, scanVars
<1>2. Books'
  BY <1>1 DEF IInv, Books, TypeOK, Shapes, AbsentUnseen, AbsentUnlisted, Alive
<1>3. \A p \in Pids : Settled(p)' => Settled(p)
  BY <1>1, QuietFollows
<1>4. CacheFollows' /\ CopyFollows' /\ TreeFollows'
  BY <1>1, <1>3 DEF IInv, CacheFollows, CopyFollows, TreeFollows, Right
<1>5. QED
  BY <1>2, <1>4 DEF IInv

\* So does the end of a TTL, of an entry or of the tree.
LEMMA ExpireStep ==
  ASSUME IInv, ExpireTree \/ \E q \in Pids : ExpireEntry(q)
  PROVE  IInv'
<1>1. /\ UNCHANGED <<world, entering, changes, ring, absent, treeDue, tree, doubt>>
      /\ UNCHANGED <<scan, todo, seen, list, copy, snap>>
      /\ treeFresh' => treeFresh
  BY DEF ExpireTree, ExpireEntry, kernelVars, scanVars, treeVars
<1>2. /\ cache' \in [Pids -> Entry \cup {None}]
      /\ \A p \in Pids : /\ cache'[p] # None => cache[p] # None /\ cache'[p].ns = cache[p].ns
                         /\ cache[p] = None => cache'[p] = None
  <2>1. CASE ExpireTree
    BY <2>1 DEF IInv, Books, Shapes, ExpireTree
  <2>2. ASSUME NEW q \in Pids, ExpireEntry(q)
        PROVE  <1>2!1 /\ <1>2!2
    <3>1. cache[q] \in Entry /\ cache[q] # None /\ cache' = [cache EXCEPT ![q].fresh = FALSE]
      BY <2>2 DEF IInv, Books, Shapes, ExpireEntry
    <3>2. cache'[q] \in Entry /\ cache'[q].ns = cache[q].ns
      BY <3>1 DEF IInv, Books, Shapes, Entry
    <3>3. \A p \in Pids : p # q => cache'[p] = cache[p]
      BY <3>1 DEF IInv, Books, Shapes
    <3>4. QED
      BY <3>1, <3>2, <3>3 DEF IInv, Books, Shapes
  <2>3. QED
    BY <2>1, <2>2
<1>3. Books'
  <2>1. TypeOK'
    <3>1. treeFresh' \in BOOLEAN
      BY DEF IInv, Books, TypeOK, ExpireTree, ExpireEntry, treeVars
    <3>2. QED
      BY <1>1, <1>2, <3>1 DEF IInv, Books, TypeOK, Alive
  <2>2. Shapes' /\ AbsentUnseen'
    BY <1>1, <1>2 DEF IInv, Books, Shapes, AbsentUnseen
  <2>3. AbsentUnlisted'
    BY <1>1, <1>2 DEF IInv, Books, AbsentUnlisted, TypeOK
  <2>4. QED
    BY <2>1, <2>2, <2>3 DEF Books
<1>4. \A p \in Pids : Settled(p)' => Settled(p)
  BY <1>1, QuietFollows
<1>5. CacheFollows'
  BY <1>1, <1>2, <1>4 DEF IInv, CacheFollows, Right
<1>6. CopyFollows'
  BY <1>1, <1>4 DEF IInv, CopyFollows, Right
<1>7. TreeFollows'
  BY <1>1, <1>4 DEF IInv, TreeFollows, Right
<1>8. QED
  BY <1>3, <1>4, <1>5, <1>6, <1>7 DEF IInv

-----------------------------------------------------------------------------
(* The scanner.                                                            *)

\* So does the start of a walk, which takes down who has no process.
LEMMA ScanStartStep ==
  ASSUME IInv, ScanStart
  PROVE  IInv'
<1>1. /\ scan = "idle" /\ scan' = "walk" /\ todo' = Pids /\ seen' = {} /\ list' = Empty
      /\ absent' = {p \in Pids : world[p] = None}
      /\ UNCHANGED <<world, entering, changes, ring, treeDue, cache, tree, treeFresh, doubt, copy, snap>>
  BY DEF ScanStart, ScanUnchanged, treeVars
<1>2. list' \in [Pids -> Item \cup {None}] /\ \A p \in Pids : list'[p] = None
  BY <1>1 DEF Empty
<1>3. TypeOK'
  BY <1>1, <1>2 DEF IInv, Books, TypeOK, Alive
<1>4. Shapes'
  BY <1>1, <1>2 DEF IInv, Books, Shapes
<1>5. AbsentUnseen' /\ AbsentUnlisted'
  BY <1>1, <1>2 DEF AbsentUnseen, AbsentUnlisted
<1>6. \A p \in Pids : Settled(p)' => Settled(p)
  BY <1>1, QuietFollows
<1>7. CacheFollows' /\ CopyFollows' /\ TreeFollows'
  BY <1>1, <1>6 DEF IInv, CacheFollows, CopyFollows, TreeFollows, Right
<1>8. QED
  BY <1>3, <1>4, <1>5, <1>6, <1>7 DEF IInv, Books

\* So does a walk that fails: it publishes nobody.
LEMMA ScanFailStep ==
  ASSUME IInv, ScanFail
  PROVE  IInv'
<1>1. /\ scan = "idle" /\ snap' = Empty /\ changes < MaxChanges /\ changes' = changes + 1
      /\ UNCHANGED <<world, entering, ring, treeDue, absent, cache, tree, treeFresh, doubt>>
      /\ UNCHANGED <<scan, todo, seen, list, copy>>
  BY DEF ScanFail, Change, ScanUnchanged, treeVars
<1>2. snap' \in [Pids -> Item \cup {None}] /\ \A p \in Pids : snap'[p] = None
  BY <1>1 DEF Empty
<1>3. TypeOK'
  <2>1. changes' \in 0..MaxChanges
    BY <1>1, ChangesAssumption DEF IInv, Books, TypeOK
  <2>2. QED
    BY <1>1, <1>2, <2>1 DEF IInv, Books, TypeOK, Alive
<1>4. Shapes'
  BY <1>1, <1>2 DEF IInv, Books, Shapes
<1>5. AbsentUnseen' /\ AbsentUnlisted'
  BY <1>1, <1>2 DEF IInv, Books, TypeOK, AbsentUnseen, AbsentUnlisted
<1>6. \A p \in Pids : Settled(p)' => Settled(p)
  BY <1>1, QuietFollows
<1>7. CacheFollows' /\ CopyFollows' /\ TreeFollows'
  BY <1>1, <1>6 DEF IInv, CacheFollows, CopyFollows, TreeFollows, Right
<1>8. QED
  BY <1>3, <1>4, <1>5, <1>6, <1>7 DEF IInv, Books

\* So does a PID that is not there.
LEMMA VisitNoneStep ==
  ASSUME IInv, NEW q \in Pids, VisitNone(q)
  PROVE  IInv'
<1>1. /\ scan = "walk" /\ todo' = todo \ {q}
      /\ UNCHANGED <<world, entering, changes, ring, treeDue, absent, cache, tree, treeFresh, doubt>>
      /\ UNCHANGED <<scan, seen, list, copy, snap>>
  BY DEF VisitNone, ScanUnchanged, treeVars
<1>2. TypeOK'
  BY <1>1 DEF IInv, Books, TypeOK, Alive
<1>3. Shapes' /\ AbsentUnseen' /\ AbsentUnlisted'
  BY <1>1 DEF IInv, Books, Shapes, AbsentUnseen, AbsentUnlisted
<1>4. \A p \in Pids : Settled(p)' => Settled(p)
  BY <1>1, QuietFollows
<1>5. CacheFollows' /\ CopyFollows' /\ TreeFollows'
  BY <1>1, <1>4 DEF IInv, CacheFollows, CopyFollows, TreeFollows, Right
<1>6. QED
  BY <1>2, <1>3, <1>4, <1>5 DEF IInv, Books

\* So does a visit: an entry loaded now is right, and one kept was right.
LEMMA VisitStep ==
  ASSUME IInv, NEW q \in Pids, Visit(q)
  PROVE  IInv'
<1>1. /\ scan = "walk" /\ world[q] # None
      /\ todo' = todo \ {q} /\ seen' = seen \cup {q}
      /\ cache' = IF NeedsReload(q) THEN [cache EXCEPT ![q] = Loaded(q)] ELSE cache
      /\ list' = [list EXCEPT ![q] = [ns |-> cache'[q].ns]]
      /\ UNCHANGED <<world, entering, changes, ring, treeDue, absent, tree, treeFresh>>
      /\ UNCHANGED <<scan, copy, snap>>
      /\ doubt' = IF NeedsReload(q) THEN [doubt EXCEPT !.cache = @ \ {q}] ELSE doubt
  BY DEF Visit, ScanUnchanged, treeVars
<1>2. Loaded(q) \in Entry /\ (Alive(q) => Loaded(q).ns = world[q].ns)
  BY <1>1 DEF IInv, Books, Shapes, Loaded, Entry, Processes
<1>3. /\ cache' \in [Pids -> Entry \cup {None}]
      /\ \A p \in Pids : \/ cache'[p] = cache[p] /\ (p \in doubt.cache => p \in doubt'.cache)
                         \/ p = q /\ cache'[p] = Loaded(q)
      /\ cache'[q] \in Entry
      /\ doubt' \in Places /\ doubt'.copy = doubt.copy /\ doubt'.tree = doubt.tree
  <2>1. CASE NeedsReload(q)
    BY <1>1, <1>2, <2>1 DEF IInv, Books, TypeOK, Shapes, Places
  <2>2. CASE ~NeedsReload(q)
    BY <1>1, <2>2 DEF IInv, Books, TypeOK, Shapes, NeedsReload, Places
  <2>3. QED
    BY <2>1, <2>2
<1>4. /\ list' \in [Pids -> Item \cup {None}]
      /\ \A p \in Pids : p # q => list'[p] = list[p]
  BY <1>1, <1>3 DEF IInv, Books, Shapes, Entry, Item
<1>5. q \notin absent
  BY <1>1 DEF IInv, Books, AbsentUnseen
<1>6. TypeOK'
  BY <1>1, <1>3, <1>4 DEF IInv, Books, TypeOK, Alive, Places
<1>7. Shapes'
  BY <1>1, <1>3, <1>4 DEF IInv, Books, Shapes
<1>8. AbsentUnseen' /\ AbsentUnlisted'
  BY <1>1, <1>4, <1>5 DEF IInv, Books, TypeOK, AbsentUnseen, AbsentUnlisted
<1>9. \A p \in Pids : Settled(p)' => Settled(p)
  BY <1>1, QuietFollows
<1>10. CacheFollows'
  BY <1>1, <1>2, <1>3, <1>9 DEF IInv, CacheFollows, Right, Settled
<1>11. CopyFollows' /\ TreeFollows'
  BY <1>1, <1>3, <1>9 DEF IInv, CopyFollows, TreeFollows, Right
<1>12. QED
  BY <1>6, <1>7, <1>8, <1>9, <1>10, <1>11 DEF IInv, Books

\* So does the visit of a zombie that is reaped meanwhile.
LEMMA VisitVanishingStep ==
  ASSUME IInv, NEW q \in Pids, VisitVanishing(q)
  PROVE  IInv'
<1>1. /\ scan = "walk" /\ world[q] # None /\ world[q].state = "zombie"
      /\ world' = [world EXCEPT ![q] = None]
      /\ todo' = todo \ {q} /\ seen' = seen \cup {q}
      /\ cache' = [cache EXCEPT ![q] = None]
      /\ list' = [list EXCEPT ![q] = [ns |-> None]]
      /\ UNCHANGED <<entering, changes, ring, treeDue, absent, tree, treeFresh, doubt>>
      /\ UNCHANGED <<scan, copy, snap>>
  BY DEF VisitVanishing, InvalidateEntry, treeVars
<1>2. /\ world' \in [Pids -> Processes \cup {None}]
      /\ world'[q] = None /\ \A p \in Pids : p # q => world'[p] = world[p]
  BY <1>1 DEF IInv, Books, Shapes
<1>3. /\ cache' \in [Pids -> Entry \cup {None}]
      /\ cache'[q] = None /\ \A p \in Pids : p # q => cache'[p] = cache[p]
  BY <1>1 DEF IInv, Books, Shapes
<1>4. /\ list' \in [Pids -> Item \cup {None}]
      /\ \A p \in Pids : p # q => list'[p] = list[p]
  BY <1>1 DEF IInv, Books, Shapes, Item
<1>5. q \notin absent /\ entering[q] = None
  BY <1>1 DEF IInv, Books, TypeOK, AbsentUnseen, Alive
<1>6. TypeOK'
  BY <1>1, <1>2, <1>3, <1>4, <1>5 DEF IInv, Books, TypeOK, Alive, Processes
<1>7. Shapes'
  BY <1>1, <1>2, <1>3, <1>4 DEF IInv, Books, Shapes
<1>8. AbsentUnseen' /\ AbsentUnlisted'
  BY <1>1, <1>2, <1>4, <1>5 DEF IInv, Books, TypeOK, AbsentUnseen, AbsentUnlisted
<1>9. \A p : Announced(p)' <=> Announced(p)
  BY <1>1 DEF Announced
<1>10. \A p \in Pids : Settled(p)' => Settled(p) /\ p # q
  BY <1>1, <1>2, <1>9 DEF Settled, Alive
<1>11. CacheFollows' /\ CopyFollows' /\ TreeFollows'
  BY <1>1, <1>2, <1>3, <1>10 DEF IInv, CacheFollows, CopyFollows, TreeFollows, Right
<1>12. QED
  BY <1>6, <1>7, <1>8, <1>11 DEF IInv, Books

\* So does the end of a walk: who was not seen is swept, and the copy is what is
\* left.
LEMMA WalkEndStep ==
  ASSUME IInv, WalkEnd
  PROVE  IInv'
<1>1. /\ scan = "walk" /\ scan' = "index" /\ cache' = Swept /\ copy' = Swept
      /\ UNCHANGED <<world, entering, changes, ring, treeDue, absent, tree, treeFresh>>
      /\ UNCHANGED <<todo, seen, list, snap>>
      /\ doubt' = [doubt EXCEPT !.cache = @ \cap seen, !.copy = doubt.cache \cap seen]
  BY DEF WalkEnd, ScanUnchanged, treeVars
<1>2. /\ cache' \in [Pids -> Entry \cup {None}] /\ copy' = cache'
      /\ \A p \in Pids : cache'[p] = IF p \in seen THEN cache[p] ELSE None
  BY <1>1 DEF IInv, Books, Shapes, Swept
<1>3. /\ doubt' \in Places /\ doubt'.tree = doubt.tree
       /\ doubt'.cache = doubt.cache \cap seen /\ doubt'.copy = doubt.cache \cap seen
  BY <1>1 DEF IInv, Books, TypeOK, Places
<1>4. TypeOK'
  BY <1>1, <1>2, <1>3 DEF IInv, Books, TypeOK, Alive, Places
<1>5. Shapes'
  BY <1>1, <1>2 DEF IInv, Books, Shapes
<1>6. AbsentUnseen' /\ AbsentUnlisted'
  BY <1>1, <1>2 DEF IInv, Books, TypeOK, AbsentUnseen, AbsentUnlisted
<1>7. \A p \in Pids : Settled(p)' => Settled(p)
  BY <1>1, QuietFollows
<1>8. CacheFollows' /\ CopyFollows'
  BY <1>1, <1>2, <1>7, <1>3 DEF IInv, CacheFollows, CopyFollows, Right
<1>9. TreeFollows'
  BY <1>1, <1>7, <1>3 DEF IInv, TreeFollows, Right
<1>10. QED
  BY <1>4, <1>5, <1>6, <1>7, <1>8, <1>9 DEF IInv, Books

\* So does the rebuild: the tree is right of whoever the copy is right of.
LEMMA IndexStep ==
  ASSUME IInv, Index
  PROVE  IInv'
<1>1. /\ scan = "index" /\ scan' = "publish"
      /\ tree' = IF treeFresh THEN tree ELSE Rebuilt
      /\ doubt' = IF treeFresh THEN doubt ELSE [doubt EXCEPT !.tree = doubt.copy]
      /\ treeFresh' = TRUE /\ copy' = Empty
      /\ UNCHANGED <<world, entering, changes, ring, treeDue, absent, cache, todo, seen, list, snap>>
  BY DEF Index, CopyAfter, ScanUnchanged
<1>2. Rebuilt \in [Pids -> Namespaces \cup {None}]
  BY DEF IInv, Books, Shapes, Rebuilt, Entry
<1>3. copy' \in [Pids -> Entry \cup {None}] /\ \A p \in Pids : copy'[p] = None
  BY <1>1 DEF Empty
<1>4. /\ doubt' \in Places /\ doubt'.cache = doubt.cache
      /\ doubt'.tree = IF treeFresh THEN doubt.tree ELSE doubt.copy
  BY <1>1 DEF IInv, Books, TypeOK, Places
<1>5. TypeOK'
  <2>1. tree' \in [Pids -> Namespaces \cup {None}]
    BY <1>1, <1>2 DEF IInv, Books, TypeOK
  <2>2. QED
    BY <1>1, <1>3, <1>4, <2>1 DEF IInv, Books, TypeOK, Alive, Places
<1>6. Shapes'
  BY <1>1, <1>3 DEF IInv, Books, Shapes
<1>7. AbsentUnseen' /\ AbsentUnlisted'
  BY <1>1 DEF IInv, Books, TypeOK, AbsentUnseen, AbsentUnlisted
<1>8. \A p \in Pids : Settled(p)' => Settled(p)
  BY <1>1, QuietFollows
<1>9. CacheFollows'
  BY <1>1, <1>4, <1>8 DEF IInv, CacheFollows, Right
<1>10. CopyFollows'
  BY <1>1 DEF CopyFollows
<1>11. TreeFollows'
  <2>1. CASE treeFresh
    BY <1>1, <1>4, <1>8, <2>1 DEF IInv, TreeFollows, Right
  <2>2. CASE ~treeFresh
    <3>1. \A p \in Pids : tree'[p] = IF copy[p] = None THEN None ELSE copy[p].ns
      BY <1>1, <2>2 DEF Rebuilt
    <3>2. QED
      BY <1>1, <1>4, <1>8, <2>2, <3>1 DEF IInv, CopyFollows, TreeFollows, Right
  <2>3. QED
    BY <2>1, <2>2
<1>12. QED
  BY <1>5, <1>6, <1>7, <1>9, <1>10, <1>11 DEF IInv, Books

\* So does the publication of the list.
LEMMA PublishStep ==
  ASSUME IInv, Publish
  PROVE  IInv'
<1>1. /\ scan = "publish" /\ scan' = "idle" /\ snap' = list
      /\ UNCHANGED <<world, entering, changes, ring, treeDue, absent, cache, tree, treeFresh, doubt>>
      /\ UNCHANGED <<todo, seen, list, copy>>
  BY DEF Publish, ScanUnchanged, treeVars
<1>2. TypeOK'
  BY <1>1 DEF IInv, Books, TypeOK, Alive
<1>3. Shapes' /\ AbsentUnseen' /\ AbsentUnlisted'
  BY <1>1 DEF IInv, Books, Shapes, AbsentUnseen, AbsentUnlisted
<1>4. \A p \in Pids : Settled(p)' => Settled(p)
  BY <1>1, QuietFollows
<1>5. CacheFollows' /\ CopyFollows' /\ TreeFollows'
  BY <1>1, <1>4 DEF IInv, CacheFollows, CopyFollows, TreeFollows, Right
<1>6. QED
  BY <1>2, <1>3, <1>4, <1>5 DEF IInv, Books

-----------------------------------------------------------------------------
\* The invariant holds in every reachable state, however walk, rebuild, events,
\* time and the host interleave.
THEOREM Invariance == Spec => []IInv
<1>1. Init => IInv
  BY InitIInv
<1>2. IInv /\ [Next]_vars => IInv'
  <2> SUFFICES ASSUME IInv, [Next]_vars PROVE IInv'
    OBVIOUS
  <2>1. CASE Host
    BY <2>1, BornStep, ExitStep, ReapStep, ThreadExitStep, SetnsEnterStep, SetnsEffectStep DEF Host
  <2>2. CASE Ringbuf
    BY <2>2, OnEventStep, OnEventTreeStep DEF Ringbuf
  <2>3. CASE Time
    BY <2>3, ExpireStep DEF Time
  <2>4. CASE Scanner
    BY <2>4, ScanStartStep, ScanFailStep, VisitNoneStep, VisitStep, VisitVanishingStep,
       WalkEndStep, IndexStep, PublishStep DEF Scanner
  <2>5. CASE UNCHANGED vars
    <3>1. /\ UNCHANGED <<world, entering, changes, ring, absent, treeDue, cache>>
          /\ UNCHANGED <<tree, treeFresh, doubt, scan, todo, seen, list, copy, snap>>
      BY <2>5 DEF vars, kernelVars, treeVars, scanVars
    <3>2. Books'
      BY <3>1 DEF IInv, Books, TypeOK, Shapes, AbsentUnseen, AbsentUnlisted, Alive
    <3>3. \A p \in Pids : Settled(p)' => Settled(p)
      BY <3>1, QuietFollows
    <3>4. CacheFollows' /\ CopyFollows' /\ TreeFollows'
      BY <3>1, <3>3 DEF IInv, CacheFollows, CopyFollows, TreeFollows, Right
    <3>5. QED
      BY <3>2, <3>3, <3>4 DEF IInv
  <2>6. QED
    BY <2>1, <2>2, <2>3, <2>4, <2>5 DEF Next
<1>3. QED
  BY <1>1, <1>2, PTL DEF Spec

\* Shapes; the copy lives from the end of a walk to the rebuild only.
THEOREM TypeCorrect == Spec => []TypeOK
BY Invariance, PTL DEF IInv, Books

\* A PID without a process since the last walk began is neither cached nor
\* listed.
THEOREM AbsentForgotten == Spec => []AbsentUnlisted
BY Invariance, PTL DEF IInv, Books

\* A fresh tree files a process whose events have all been dealt with where it is,
\* but for the three exceptions, whether or not the kernel reports everything.
THEOREM TreeRight == Spec => []TreeExplained
<1>1. IInv => TreeExplained
  BY DEF IInv, TreeExplained, TreeFollows, Settled, Right
<1>2. QED
  BY <1>1, Invariance, PTL
=============================================================================
