----------------------- MODULE ManagerDetection_proofs -----------------------
(***************************************************************************)
(* That the manager which the walk of detect_manager finds is the nearest  *)
(* one, for any tree of processes, any commands and any changes of both.   *)
(*                                                                         *)
(* First the theory of Above, the least set that holds the parent and is   *)
(* closed under parents.  Then what fork, exec and exit do to the tree.    *)
(* Then the walk: while nothing happens and the entries are true, it has   *)
(* visited just what is below walk.cur, and no manager among it (OnTheWay). *)
(***************************************************************************)
EXTENDS ManagerDetection, FiniteSetTheorems, TLAPS

\* What a process is, and what the host may have of each.
Known == [comm : Comms \cup {InitComm}, ppid : Pids \cup {0}]
Worlds == [Pids -> Known \cup {None}]

\* S has the parent of p, and with each process its parent.
ClosedFrom(w, p, S) ==
  /\ w[p].ppid # 0 => w[p].ppid \in S
  /\ \A r \in S : w[r].ppid # 0 => w[r].ppid \in S

\* A parent is alive.
ParentsAlive(w) == \A p \in Alive(w) : w[p].ppid # 0 => w[p].ppid \in Alive(w)

-----------------------------------------------------------------------------
(* Ancestors.                                                              *)

\* To be above p is to be in all sets closed from p.
LEMMA AboveIs ==
  ASSUME NEW w, NEW p, NEW q
  PROVE  q \in Above(w, p) <=>
           /\ q \in Alive(w)
           /\ \A S \in SUBSET Alive(w) : ClosedFrom(w, p, S) => q \in S
BY DEF Above, ClosedFrom

\* Ancestors are alive.
LEMMA AboveAlive ==
  ASSUME NEW w, NEW p
  PROVE  Above(w, p) \subseteq Alive(w)
BY AboveIs

\* The process without a parent has no ancestors.
LEMMA AboveTop ==
  ASSUME NEW w, NEW p, w[p].ppid = 0
  PROVE  Above(w, p) = {}
<1>1. ClosedFrom(w, p, {})
  BY DEF ClosedFrom
<1>2. QED
  BY <1>1, AboveIs

\* The parent is above.
LEMMA ParentAbove ==
  ASSUME NEW w, ParentsAlive(w), NEW p \in Alive(w), w[p].ppid # 0
  PROVE  w[p].ppid \in Above(w, p)
<1>1. w[p].ppid \in Alive(w)
  BY DEF ParentsAlive
<1>2. \A S \in SUBSET Alive(w) : ClosedFrom(w, p, S) => w[p].ppid \in S
  BY DEF ClosedFrom
<1>3. QED
  BY <1>1, <1>2, AboveIs

\* What is above an ancestor is above.
LEMMA AboveTransitive ==
  ASSUME NEW w, NEW p, NEW q \in Above(w, p)
  PROVE  Above(w, q) \subseteq Above(w, p)
<1> SUFFICES ASSUME NEW r \in Above(w, q), NEW S \in SUBSET Alive(w), ClosedFrom(w, p, S)
             PROVE  r \in S
  BY AboveIs
<1>1. q \in S
  BY AboveIs
<1>2. ClosedFrom(w, q, S)
  BY <1>1 DEF ClosedFrom
<1>3. QED
  BY <1>2, AboveIs

\* The ancestors are the parent and its ancestors.
LEMMA AboveStep ==
  ASSUME NEW w, ParentsAlive(w), NEW p \in Alive(w), w[p].ppid # 0
  PROVE  Above(w, p) = {w[p].ppid} \cup Above(w, w[p].ppid)
<1> DEFINE q == w[p].ppid
           S == {q} \cup Above(w, q)
<1>1. q \in Above(w, p) /\ q \in Alive(w)
  BY ParentAbove DEF ParentsAlive
<1>2. S \subseteq Above(w, p)
  BY <1>1, AboveTransitive
<1>3. ClosedFrom(w, p, S)
  <2>1. ASSUME NEW r \in S, w[r].ppid # 0
        PROVE  w[r].ppid \in S
    <3>1. CASE r = q
      BY <1>1, <2>1, <3>1, ParentAbove
    <3>2. CASE r \in Above(w, q)
      <4>1. r \in Alive(w)
        BY <3>2, AboveAlive
      <4>2. w[r].ppid \in Above(w, r)
        BY <2>1, <4>1, ParentAbove
      <4>3. Above(w, r) \subseteq Above(w, q)
        BY <3>2, AboveTransitive
      <4>4. QED
        BY <4>2, <4>3
    <3>3. QED
      BY <3>1, <3>2
  <2>2. QED
    BY <2>1 DEF ClosedFrom
<1>4. S \in SUBSET Alive(w)
  BY <1>2, AboveAlive
<1>5. Above(w, p) \subseteq S
  BY <1>3, <1>4, AboveIs
<1>6. QED
  BY <1>2, <1>5

\* In a tree parents are alive, and init is at the top.
LEMMA TreeParents ==
  ASSUME NEW w \in Worlds, WellFormed(w)
  PROVE  /\ ParentsAlive(w)
         /\ 1 \in Alive(w) /\ w[1].ppid = 0 /\ Above(w, 1) = {}
         /\ \A p \in Alive(w) : p # 1 => w[p].ppid # 0
<1>1. InitProcess \in Known /\ InitProcess.ppid = 0 /\ InitProcess # None
  BY NoneAssumption, PidsAssumption DEF InitProcess, Known
<1>2. 1 \in Alive(w) /\ w[1].ppid = 0
  BY <1>1, PidsAssumption DEF WellFormed, Alive
<1>3. \A p \in Alive(w) : p # 1 => w[p].ppid # 0 /\ w[p].ppid \in Alive(w)
  BY PidsAssumption DEF WellFormed, Alive
<1>4. QED
  BY <1>2, <1>3, AboveTop DEF ParentsAlive

\* Whoever were above himself would not be below init.
LEMMA Acyclic ==
  ASSUME NEW w \in Worlds, WellFormed(w), NEW p \in Alive(w)
  PROVE  p \notin Above(w, p)
<1> SUFFICES ASSUME p \in Above(w, p)
             PROVE  FALSE
  OBVIOUS
<1> DEFINE S == {r \in Alive(w) : p \in Above(w, r)}
<1>1. ParentsAlive(w) /\ Above(w, 1) = {}
  BY TreeParents
<1>2. ASSUME NEW r \in S, w[r].ppid # 0
      PROVE  w[r].ppid \in S
  <2>1. p \in {w[r].ppid} \cup Above(w, w[r].ppid)
    BY <1>1, <1>2, AboveStep
  <2>2. w[r].ppid \in Alive(w)
    BY <1>1, <1>2 DEF ParentsAlive
  <2>3. QED
    BY <2>1, <2>2
<1>3. p \in S
  OBVIOUS
<1>4. ClosedFrom(w, p, S)
  BY <1>2, <1>3 DEF ClosedFrom
<1>5. p # 1
  BY <1>1
<1>6. 1 \in Above(w, p)
  BY <1>5 DEF WellFormed
<1>7. 1 \in S
  BY <1>4, <1>6, AboveIs
<1>8. QED
  BY <1>1, <1>7

-----------------------------------------------------------------------------
(* What happens to the tree.                                               *)

\* The tree is in order if every parent is alive, and init in every closed set.
LEMMA TreeBy ==
  ASSUME NEW w, w[1] = InitProcess, 1 \in Alive(w),
         \A p \in Alive(w) \ {1} : w[p].ppid \in Alive(w),
         \A p \in Alive(w) \ {1} : \A S \in SUBSET Alive(w) : ClosedFrom(w, p, S) => 1 \in S
  PROVE  WellFormed(w)
BY AboveIs DEF WellFormed

\* A process is forked.
LEMMA ForkTree ==
  ASSUME NEW w \in Worlds, WellFormed(w), NEW p \in Pids, NEW q \in Pids,
         w[p] = None, w[q] # None
  PROVE  LET v == [w EXCEPT ![p] = [comm |-> w[q].comm, ppid |-> q]]
         IN  v \in Worlds /\ WellFormed(v)
<1> DEFINE child == [comm |-> w[q].comm, ppid |-> q]
           v == [w EXCEPT ![p] = child]
<1>1. child \in Known /\ child # None /\ child.ppid = q
  BY NoneAssumption DEF Known, Worlds
<1> HIDE DEF child
<1>2. v \in Worlds /\ v[p] = child /\ \A r \in Pids \ {p} : v[r] = w[r]
  BY <1>1 DEF Worlds
<1> HIDE DEF v
<1>3. 1 \in Alive(w) /\ w[1] = InitProcess /\ ParentsAlive(w) /\ p # 1
  BY TreeParents DEF WellFormed, Alive
<1>4. Alive(v) = Alive(w) \cup {p} /\ p \notin Alive(w) /\ q \in Alive(w) /\ 1 \in Alive(v)
  BY <1>1, <1>2, <1>3 DEF Alive
<1>5. v[1] = InitProcess
  BY <1>2, <1>3, PidsAssumption
<1>6. \A r \in Alive(w) : v[r] = w[r] /\ r \in Pids
  BY <1>2, <1>4 DEF Alive
<1>7. ASSUME NEW r \in Alive(v) \ {1}
      PROVE  v[r].ppid \in Alive(v)
  <2>1. CASE r = p
    BY <1>1, <1>2, <1>4, <2>1
  <2>2. CASE r # p
    BY <1>4, <1>6, <1>7, <2>2 DEF WellFormed
  <2>3. QED
    BY <2>1, <2>2
<1>8. ASSUME NEW r \in Alive(v) \ {1}, NEW S \in SUBSET Alive(v), ClosedFrom(v, r, S)
      PROVE  1 \in S
  <2> DEFINE T == S \cap Alive(w)
  <2>1. ASSUME NEW x \in Alive(w), w[x].ppid # 0, w[x].ppid \in S
        PROVE  w[x].ppid \in T
    BY <1>3, <2>1 DEF ParentsAlive
  <2>2. \A x \in T : w[x].ppid # 0 => w[x].ppid \in T
    BY <1>6, <1>8, <2>1 DEF ClosedFrom
  <2>3. CASE r \in Alive(w)
    <3>1. w[r].ppid # 0 => w[r].ppid \in T
      BY <1>6, <1>8, <2>1, <2>3 DEF ClosedFrom
    <3>2. ClosedFrom(w, r, T)
      BY <2>2, <3>1 DEF ClosedFrom
    <3>3. 1 \in Above(w, r)
      BY <1>8, <2>3 DEF WellFormed
    <3>4. QED
      BY <3>2, <3>3, AboveIs
  <2>4. CASE r = p
    <3>1. q # 0
      BY PidsAssumption
    <3>2. q \in T
      BY <1>1, <1>2, <1>4, <1>8, <2>4, <3>1 DEF ClosedFrom
    <3>3. ClosedFrom(w, q, T)
      BY <2>2, <3>2 DEF ClosedFrom
    <3>4. q # 1 => 1 \in Above(w, q)
      BY <1>4 DEF WellFormed
    <3>5. QED
      BY <3>2, <3>3, <3>4, AboveIs
  <2>5. QED
    BY <1>4, <2>3, <2>4
<1>9. WellFormed(v)
  BY <1>4, <1>5, <1>7, <1>8, TreeBy
<1>10. QED
  BY <1>2, <1>9 DEF v, child

\* A command has nothing to do with the tree.
LEMMA ExecTree ==
  ASSUME NEW w \in Worlds, WellFormed(w), NEW p \in Pids, p # 1, w[p] # None, NEW c \in Comms
  PROVE  LET v == [w EXCEPT ![p].comm = c]
         IN  v \in Worlds /\ WellFormed(v)
<1> DEFINE u == [w[p] EXCEPT !.comm = c]
           v == [w EXCEPT ![p] = u]
<1>1. u \in Known /\ u # None /\ u.ppid = w[p].ppid
  BY NoneAssumption DEF Known, Worlds
<1> HIDE DEF u
<1>2. v \in Worlds /\ v[p] = u /\ \A r \in Pids \ {p} : v[r] = w[r]
  BY <1>1 DEF Worlds
<1> HIDE DEF v
<1>3. Alive(v) = Alive(w) /\ \A r \in Alive(w) : v[r].ppid = w[r].ppid
  BY <1>1, <1>2 DEF Alive
<1>4. 1 \in Alive(v) /\ v[1] = InitProcess
  BY <1>2, <1>3, TreeParents, PidsAssumption DEF WellFormed
<1>5. \A r \in Alive(v) \ {1} : v[r].ppid \in Alive(v)
  BY <1>3 DEF WellFormed
<1>6. ASSUME NEW r \in Alive(v) \ {1}, NEW S \in SUBSET Alive(v), ClosedFrom(v, r, S)
      PROVE  1 \in S
  <2>1. ClosedFrom(w, r, S)
    BY <1>3, <1>6 DEF ClosedFrom
  <2>2. 1 \in Above(w, r)
    BY <1>3, <1>6 DEF WellFormed
  <2>3. QED
    BY <1>3, <2>1, <2>2, AboveIs
<1>7. WellFormed(v)
  BY <1>4, <1>5, <1>6, TreeBy
<1>8. v = [w EXCEPT ![p].comm = c]
  BY DEF v, u
<1>9. QED
  BY <1>2, <1>7, <1>8

\* The children of a process that exits go to an ancestor, and init is still above
\* them: a set that is closed in the new tree becomes closed in the old one by
\* the process that has gone and those between it and that ancestor.
LEMMA ExitTree ==
  ASSUME NEW w \in Worlds, WellFormed(w), NEW p \in Pids, p # 1, w[p] # None,
         NEW q \in Above(w, p)
  PROVE  LET v == [r \in Pids |-> IF r = p THEN None
                                  ELSE IF w[r] # None /\ w[r].ppid = p
                                       THEN [w[r] EXCEPT !.ppid = q]
                                       ELSE w[r]]
         IN  v \in Worlds /\ WellFormed(v)
<1> DEFINE v == [r \in Pids |-> IF r = p THEN None
                                ELSE IF w[r] # None /\ w[r].ppid = p
                                     THEN [w[r] EXCEPT !.ppid = q]
                                     ELSE w[r]]
<1>1. /\ ParentsAlive(w) /\ 1 \in Alive(w) /\ w[1] = InitProcess /\ w[1].ppid = 0
      /\ Above(w, 1) = {}
  BY TreeParents DEF WellFormed
<1>2. p \in Alive(w) /\ q \in Alive(w) /\ q # p /\ q \in Pids /\ q # 0
  BY AboveAlive, Acyclic, PidsAssumption DEF Alive
<1>3. ASSUME NEW r \in Pids, w[r] # None, w[r].ppid = p
      PROVE  /\ [w[r] EXCEPT !.ppid = q] \in Known /\ [w[r] EXCEPT !.ppid = q] # None
             /\ [w[r] EXCEPT !.ppid = q].ppid = q
  BY <1>2, <1>3, NoneAssumption DEF Known, Worlds
<1>4. v \in Worlds
  BY <1>3 DEF Worlds
<1>5. Alive(v) = Alive(w) \ {p}
  BY <1>3 DEF Alive
<1>6. \A r \in Alive(v) : IF w[r].ppid = p THEN v[r].ppid = q ELSE v[r] = w[r]
  BY <1>3, <1>5 DEF Alive
<1>7. v[1] = InitProcess
  BY <1>1, PidsAssumption
<1> HIDE DEF v
<1>8. ASSUME NEW r \in Alive(v) \ {1}
      PROVE  v[r].ppid \in Alive(v)
  <2>1. w[r].ppid \in Alive(w)
    BY <1>5, <1>8 DEF WellFormed
  <2>2. QED
    BY <1>2, <1>5, <1>6, <2>1
<1>9. ASSUME NEW r \in Alive(v) \ {1}, NEW S \in SUBSET Alive(v), ClosedFrom(v, r, S)
      PROVE  1 \in S
  <2>1. 1 \in Above(w, r) /\ S \subseteq Alive(w) /\ r \in Alive(w)
    BY <1>5, <1>9 DEF WellFormed
  <2>2. ASSUME NEW x \in S \cup {r}, w[x].ppid # 0, w[x].ppid # p
        PROVE  w[x].ppid \in S
    BY <1>6, <1>9, <2>2 DEF ClosedFrom
  <2>3. ASSUME NEW x \in S \cup {r}, w[x].ppid = p
        PROVE  q \in S
    BY <1>2, <1>6, <1>9, <2>3 DEF ClosedFrom
  <2>4. CASE q \notin S
    <3>1. ClosedFrom(w, r, S)
      BY <2>2, <2>3, <2>4 DEF ClosedFrom
    <3>2. QED
      BY <2>1, <3>1, AboveIs
  <2>5. CASE q \in S
    <3> DEFINE B == {x \in Above(w, p) : q \in Above(w, x)}
               T == S \cup {p} \cup B
    <3>1. ASSUME NEW x \in {p} \cup B, w[x].ppid # 0
          PROVE  w[x].ppid \in T
      <4>1. q \in Above(w, x) /\ x \in Alive(w)
        BY <1>2, AboveAlive
      <4>2. q \in {w[x].ppid} \cup Above(w, w[x].ppid)
        BY <1>1, <3>1, <4>1, AboveStep
      <4>3. w[x].ppid \in Above(w, x)
        BY <1>1, <3>1, <4>1, ParentAbove
      <4>4. w[x].ppid \in Above(w, p)
        BY <4>3, AboveTransitive
      <4>5. QED
        BY <2>5, <4>2, <4>4
    <3>2. \A x \in S \cup {r} : w[x].ppid # 0 => w[x].ppid \in T
      BY <2>2
    <3>3. ClosedFrom(w, r, T)
      BY <3>1, <3>2 DEF ClosedFrom
    <3>4. T \in SUBSET Alive(w)
      BY <1>2, <2>1, AboveAlive
    <3>5. 1 \in T
      BY <2>1, <3>3, <3>4, AboveIs
    <3>6. 1 \notin B
      BY <1>1
    <3>7. QED
      BY <3>5, <3>6
  <2>6. QED
    BY <2>4, <2>5
<1>10. 1 \in Alive(v)
  BY <1>1, <1>5
<1>11. WellFormed(v)
  BY <1>7, <1>8, <1>9, <1>10, TreeBy
<1>12. QED
  BY <1>4, <1>11 DEF v

-----------------------------------------------------------------------------
(* The reference.                                                          *)

\* The ancestors that the walk stops at: the managers, a systemd as p's parent only.
Managing(w, p) ==
  {q \in Managers(w, p) : w[q].comm = "systemd" => q = w[p].ppid}

\* Of some processes there is no more than one that the others are above.
LEMMA FirstIs ==
  ASSUME NEW w \in Worlds, WellFormed(w), NEW S \in SUBSET Alive(w), NEW c \in S,
         \A r \in S : r = c \/ r \in Above(w, c)
  PROVE  First(w, S) = c
<1> DEFINE IsFirst(q) == \A r \in S : r = q \/ r \in Above(w, q)
<1>1. ASSUME NEW q \in S, IsFirst(q)
      PROVE  q = c
  BY <1>1, AboveTransitive, Acyclic
<1>2. IsFirst(c)
  OBVIOUS
<1> HIDE DEF IsFirst
<1>3. (CHOOSE q \in S : IsFirst(q)) = c
  BY <1>1, <1>2
<1>4. QED
  BY <1>3 DEF First, IsFirst

\* Some ancestor among any that are given has the others above it: without one, the
\* processes that all of them are above would be closed under parents, and init
\* among these.
LEMMA FirstExists ==
  ASSUME NEW w \in Worlds, WellFormed(w), NEW p \in Alive(w),
         NEW M \in SUBSET Above(w, p), M # {}
  PROVE  \E q \in M : \A r \in M : r = q \/ r \in Above(w, q)
<1> DEFINE S == {x \in Alive(w) : M \subseteq Above(w, x)}
<1> SUFFICES ASSUME \A q \in M : ~ \A r \in M : r = q \/ r \in Above(w, q)
             PROVE  FALSE
  OBVIOUS
<1>1. ParentsAlive(w) /\ Above(w, 1) = {}
  BY TreeParents
<1>2. p \in S
  OBVIOUS
<1>3. ASSUME NEW x \in S, w[x].ppid # 0
      PROVE  w[x].ppid \in S
  <2>1. M \subseteq {w[x].ppid} \cup Above(w, w[x].ppid)
    BY <1>1, <1>3, AboveStep
  <2>2. w[x].ppid \notin M
    BY <2>1
  <2>3. w[x].ppid \in Alive(w)
    BY <1>1, <1>3 DEF ParentsAlive
  <2>4. QED
    BY <2>1, <2>2, <2>3
<1>4. ClosedFrom(w, p, S)
  BY <1>2, <1>3 DEF ClosedFrom
<1>5. p # 1
  BY <1>1
<1>6. 1 \in Above(w, p)
  BY <1>5 DEF WellFormed
<1>7. 1 \in S
  BY <1>4, <1>6, AboveIs
<1>8. QED
  BY <1>1, <1>7

\* What is to be detected is the nearest of those that the walk stops at.  Where a
\* distant systemd is the nearest manager the parent is none, and the walk stops at
\* the managers that are no systemd; elsewhere it stops at the nearest manager.
LEMMA DetectedIs ==
  ASSUME NEW w \in Worlds, WellFormed(w), NEW p \in Alive(w)
  PROVE  Detected(w, p) = NearestOf(w, Managing(w, p))
<1> DEFINE M == Managers(w, p)
           f == First(w, M)
           a == w[p].ppid
<1>1. M \subseteq Above(w, p) /\ M \subseteq Alive(w)
  BY AboveAlive DEF Managers
<1>2. Managing(w, p) = {q \in M : w[q].comm = "systemd" => q = a}
  BY DEF Managing
<1>3. CASE M = {}
  <2>1. Managing(w, p) = M
    BY <1>2, <1>3
  <2>2. QED
    BY <1>3, <2>1 DEF Detected, SystemdAway, Nearest
<1>4. CASE M # {}
  <2>1. PICK q \in M : \A r \in M : r = q \/ r \in Above(w, q)
    BY <1>1, <1>4, FirstExists
  <2>2. f = q
    BY <1>1, <2>1, FirstIs
  <2>3. SystemdAway(w, p) <=> w[q].comm = "systemd" /\ q # a
    BY <1>4, <2>2 DEF SystemdAway
  <2>4. CASE SystemdAway(w, p)
    <3>1. a \notin M
      <4> SUFFICES ASSUME a \in M
                   PROVE  FALSE
        OBVIOUS
      <4>1. a \in Above(w, q) /\ q \in Above(w, p) /\ q \in Alive(w) /\ a \in Alive(w)
        BY <1>1, <2>1, <2>3, <2>4
      <4>2. ParentsAlive(w)
        BY TreeParents
      <4>3. a # 0
        BY <4>1, AboveTop
      <4>4. q \in {a} \cup Above(w, a)
        BY <4>1, <4>2, <4>3, AboveStep
      <4>5. QED
        BY <2>3, <2>4, <4>1, <4>4, AboveTransitive, Acyclic
    <3>2. Managing(w, p) = {r \in M : w[r].comm # "systemd"}
      BY <1>2, <3>1
    <3>3. QED
      BY <2>4, <3>2 DEF Detected
  <2>5. CASE ~SystemdAway(w, p)
    <3>1. q \in Managing(w, p) /\ Managing(w, p) \subseteq M
      BY <1>2, <2>1, <2>3, <2>5
    <3>2. First(w, Managing(w, p)) = q
      BY <1>1, <2>1, <3>1, FirstIs
    <3>3. NearestOf(w, Managing(w, p)) = NearestOf(w, M)
      BY <1>4, <2>2, <3>1, <3>2 DEF NearestOf
    <3>4. QED
      BY <2>5, <3>3 DEF Detected, Nearest
  <2>6. QED
    BY <2>4, <2>5
<1>5. QED
  BY <1>3, <1>4

-----------------------------------------------------------------------------
(* The walk, in a tree that stands still.                                  *)

\* From p the walk has come to c over V: it has visited just what lies between,
\* and no manager among it.
OnTheWay(w, p, c, V) ==
  /\ p \in Alive(w)
  /\ \/ V = {} /\ c = p
     \/ /\ p \in V /\ c \in Above(w, p)
        /\ Above(w, p) = (V \ {p}) \cup {c} \cup Above(w, c)
        /\ \A v \in V : c \in Above(w, v)
        /\ (V \ {p}) \cap Managing(w, p) = {}

\* The walk is at a process that it has not visited.
LEMMA NotRevisited ==
  ASSUME NEW w \in Worlds, WellFormed(w), NEW p, NEW c, NEW V, OnTheWay(w, p, c, V)
  PROVE  c \in Alive(w) /\ c \in Above(w, p) \cup {p} /\ c \notin V
<1>1. CASE V = {}
  BY <1>1 DEF OnTheWay
<1>2. CASE V # {}
  <2>1. c \in Above(w, p) /\ \A v \in V : c \in Above(w, v)
    BY <1>2 DEF OnTheWay
  <2>2. c \in Alive(w)
    BY <2>1, AboveAlive
  <2>3. QED
    BY <2>1, <2>2, Acyclic
<1>3. QED
  BY <1>1, <1>2

\* It is at the parent when it has visited nobody but p, and then only.
LEMMA AtParent ==
  ASSUME NEW w \in Worlds, WellFormed(w), NEW p, NEW c, NEW V, OnTheWay(w, p, c, V), V # {}
  PROVE  V = {p} <=> c = w[p].ppid
<1> DEFINE a == w[p].ppid
<1>1. /\ p \in V /\ c \in Above(w, p) /\ p \in Alive(w)
      /\ Above(w, p) = (V \ {p}) \cup {c} \cup Above(w, c)
      /\ \A v \in V : c \in Above(w, v)
  BY DEF OnTheWay
<1>2. ParentsAlive(w)
  BY TreeParents
<1>3. a # 0
  BY <1>1, AboveTop
<1>4. Above(w, p) = {a} \cup Above(w, a)
  BY <1>1, <1>2, <1>3, AboveStep
<1>5. c \in Alive(w)
  BY <1>1, AboveAlive
<1>6. ASSUME NEW x \in Above(w, c), c \in Above(w, x)
      PROVE  FALSE
  BY <1>5, <1>6, AboveTransitive, Acyclic
<1>7. ASSUME V = {p}
      PROVE  c = a
  BY <1>1, <1>4, <1>6, <1>7
<1>8. ASSUME c = a
      PROVE  V = {p}
  <2> SUFFICES ASSUME NEW v \in V, v # p
               PROVE  FALSE
    BY <1>1
  <2>1. v \in Above(w, p) /\ c \in Above(w, v)
    BY <1>1
  <2>2. v = c \/ v \in Above(w, c)
    BY <1>4, <1>8, <2>1
  <2>3. QED
    BY <1>5, <1>6, <2>1, <2>2, Acyclic
<1>9. QED
  BY <1>7, <1>8

\* What the walk asks of c by its depth is whether c manages p.
LEMMA ManagerAtIs ==
  ASSUME NEW w \in Worlds, WellFormed(w), NEW p, NEW c, NEW V, OnTheWay(w, p, c, V),
         IsFiniteSet(V)
  PROVE  ManagerAt(w[c].comm, Cardinality(V)) =
           IF V # {} /\ c \in Managing(w, p) THEN ManagerNamed(w[c].comm) ELSE None
<1>1. Cardinality(V) = 0 <=> V = {}
  BY FS_EmptySet
<1>2. CASE V = {}
  BY <1>1, <1>2 DEF ManagerAt
<1>3. CASE V # {}
  <2>1. p \in V /\ c \in Above(w, p)
    BY <1>3 DEF OnTheWay
  <2>2. Cardinality(V) = 1 <=> V = {p}
    <3>1. Cardinality({p}) = 1
      BY FS_Singleton
    <3>2. ASSUME Cardinality(V) = 1
          PROVE  \E x : V = {x}
      BY <3>2, FS_Singleton
    <3>3. QED
      BY <2>1, <3>1, <3>2
  <2>3. Cardinality(V) = 1 <=> c = w[p].ppid
    BY <1>3, <2>2, AtParent
  <2>4. c \in Managing(w, p) <=> /\ ManagerNamed(w[c].comm) # None
                                 /\ w[c].comm = "systemd" => c = w[p].ppid
    BY <2>1 DEF Managing, Managers
  <2>5. QED
    BY <1>1, <1>3, <2>3, <2>4 DEF ManagerAt
<1>4. QED
  BY <1>2, <1>3

\* The first manager on the way is the nearest of those the walk stops at.
LEMMA NearestFound ==
  ASSUME NEW w \in Worlds, WellFormed(w), NEW p, NEW c, NEW V, OnTheWay(w, p, c, V),
         V # {}, c \in Managing(w, p)
  PROVE  Detected(w, p) = ManagerNamed(w[c].comm)
<1>1. /\ Above(w, p) = (V \ {p}) \cup {c} \cup Above(w, c)
      /\ (V \ {p}) \cap Managing(w, p) = {} /\ p \in Alive(w)
  BY DEF OnTheWay
<1>2. \A r \in Managing(w, p) : r = c \/ r \in Above(w, c)
  BY <1>1 DEF Managing, Managers
<1>3. Managing(w, p) \subseteq Alive(w)
  BY AboveAlive DEF Managing, Managers
<1>4. First(w, Managing(w, p)) = c
  BY <1>2, <1>3, FirstIs
<1>5. NearestOf(w, Managing(w, p)) = ManagerNamed(w[c].comm)
  BY <1>4 DEF NearestOf
<1>6. QED
  BY <1>1, <1>5, DetectedIs

\* At the top without a manager, there is none.
LEMMA NoneFound ==
  ASSUME NEW w \in Worlds, WellFormed(w), NEW p, NEW c, NEW V, OnTheWay(w, p, c, V),
         V = {} \/ c \notin Managing(w, p), w[c].ppid = 0
  PROVE  Detected(w, p) = None
<1>1. Above(w, c) = {}
  BY AboveTop
<1>2. Managing(w, p) \subseteq Above(w, p)
  BY DEF Managing, Managers
<1>3. Managing(w, p) = {} /\ p \in Alive(w)
  BY <1>1, <1>2 DEF OnTheWay
<1>4. QED
  BY <1>3, DetectedIs DEF NearestOf

\* The step from c to its parent.
LEMMA Climbed ==
  ASSUME NEW w \in Worlds, WellFormed(w), NEW p, NEW c, NEW V, OnTheWay(w, p, c, V),
         V = {} \/ c \notin Managing(w, p), w[c].ppid # 0
  PROVE  OnTheWay(w, p, w[c].ppid, V \cup {c})
<1> DEFINE a == w[c].ppid
<1>1. ParentsAlive(w)
  BY TreeParents
<1>2. c \in Alive(w) /\ p \in Alive(w)
  BY NotRevisited DEF OnTheWay
<1>3. a \in Above(w, c) /\ Above(w, c) = {a} \cup Above(w, a)
  BY <1>1, <1>2, ParentAbove, AboveStep
<1>4. CASE V = {}
  <2>1. c = p
    BY <1>4 DEF OnTheWay
  <2>2. QED
    BY <1>2, <1>3, <1>4, <2>1 DEF OnTheWay
<1>5. CASE V # {}
  <2>1. /\ p \in V /\ c \in Above(w, p)
        /\ Above(w, p) = (V \ {p}) \cup {c} \cup Above(w, c)
        /\ \A v \in V : c \in Above(w, v)
        /\ (V \ {p}) \cap Managing(w, p) = {}
    BY <1>5 DEF OnTheWay
  <2>2. c # p
    BY <1>2, <2>1, Acyclic
  <2>3. a \in Above(w, p) /\ \A v \in V \cup {c} : a \in Above(w, v)
    BY <1>3, <2>1, AboveTransitive
  <2>4. Above(w, p) = ((V \cup {c}) \ {p}) \cup {a} \cup Above(w, a)
    BY <1>3, <2>1, <2>2
  <2>5. ((V \cup {c}) \ {p}) \cap Managing(w, p) = {}
    BY <1>5, <2>1
  <2>6. QED
    BY <1>2, <2>1, <2>3, <2>4, <2>5 DEF OnTheWay
<1>6. QED
  BY <1>4, <1>5

-----------------------------------------------------------------------------
(* The invariant.                                                          *)

\* The shapes of the program's variables in full.
Shapes ==
  /\ world \in Worlds
  /\ cache \in [Pids -> Entry \cup {None}]
  /\ todo # {} => scanning
  /\ walk # None =>
       /\ walk \in [pid : Pids, light : Known \cup {None}, cur : Pids,
                    visited : SUBSET Pids, calm : BOOLEAN]
       /\ IsFiniteSet(walk.visited)

\* A walk sets out from its process, and while it may be trusted is on the way.
WalkOnTheWay ==
  /\ Loading => walk.cur = walk.pid /\ walk.visited = {}
  /\ Climbing /\ Calm => OnTheWay(world, walk.pid, walk.cur, walk.visited)

IInv == TypeOK /\ Shapes /\ WalkOnTheWay /\ ManagerNearest

\* What a load makes is an entry.
LEMMA LoadedEntry ==
  ASSUME NEW light \in Known, NEW m \in ManagersNamed
  PROVE  Loaded(light, m) \in Entry /\ Loaded(light, m).manager = m
BY DEF Loaded, Known, Entry

\* The invariant holds at the start.
LEMMA InitInv == Init => IInv
<1> SUFFICES ASSUME Init
             PROVE  IInv
  OBVIOUS
<1>1. Process \cup {None, InitProcess} \subseteq Known \cup {None}
  BY DEF Process, InitProcess, Known
<1>2. world \in Worlds /\ WellFormed(world)
  BY <1>1 DEF Init, Worlds
<1>3. /\ changes = 0 /\ cache = [p \in Pids |-> None] /\ scanning = FALSE
      /\ todo = {} /\ seen = {} /\ walk = None /\ sure = {}
  BY DEF Init
<1>4. TypeOK
  <2>1. changes \in 0..MaxChanges
    BY <1>3, ChangesAssumption
  <2>2. \A p \in Pids : cache[p] = None
    BY <1>3
  <2>3. scanning \in BOOLEAN
    BY <1>3
  <2>4. todo \subseteq Pids /\ seen \subseteq Pids /\ sure \subseteq Pids /\ walk = None
    BY <1>3
  <2>5. QED
    BY <1>2, <2>1, <2>2, <2>3, <2>4 DEF TypeOK
<1>5. Shapes /\ WalkOnTheWay
  BY <1>2, <1>3 DEF Shapes, WalkOnTheWay, Loading, Climbing
<1>6. ManagerNearest
  BY <1>3 DEF ManagerNearest
<1>7. QED
  BY <1>4, <1>5, <1>6 DEF IInv

\* Whatever happens on the host: what is still sure has its manager still, and no
\* walk under way is trusted any longer.
LEMMA HostInv ==
  ASSUME IInv, NEW w \in Worlds, WellFormed(w), HostStep(w)
  PROVE  IInv'
<1>1. /\ changes < MaxChanges /\ changes' = changes + 1 /\ world' = w
      /\ sure' = {p \in sure : w[p] # None /\ Detected(w, p) = Detected(world, p)}
      /\ cache' = cache /\ scanning' = scanning /\ todo' = todo /\ seen' = seen
  BY DEF HostStep, passVars
<1>2. TypeOK /\ Shapes /\ WalkOnTheWay /\ ManagerNearest
  BY DEF IInv
<1>3. walk' = IF walk = None THEN None ELSE [walk EXCEPT !.calm = FALSE]
  BY DEF HostStep
<1>4. ASSUME walk' # None
      PROVE  /\ walk # None
             /\ walk' \in [pid : Pids, light : Known \cup {None}, cur : Pids,
                           visited : SUBSET Pids, calm : BOOLEAN]
             /\ walk'.pid = walk.pid /\ walk'.light = walk.light /\ walk'.cur = walk.cur
             /\ walk'.visited = walk.visited /\ walk'.calm = FALSE
  BY <1>2, <1>3, <1>4 DEF Shapes
<1>5. TypeOK'
  <2>1. changes' \in 0..MaxChanges
    BY <1>1, <1>2, ChangesAssumption DEF TypeOK
  <2>2. sure' \subseteq Pids
    BY <1>1, <1>2 DEF TypeOK
  <2>3. walk' # None => /\ scanning'
                        /\ walk'.pid \in seen' \ todo' /\ walk'.cur \in Pids
                        /\ walk'.visited \subseteq Pids
    BY <1>1, <1>2, <1>4 DEF TypeOK
  <2>4. QED
    BY <1>1, <1>2, <2>1, <2>2, <2>3 DEF TypeOK
<1>6. Shapes'
  BY <1>1, <1>2, <1>4 DEF Shapes
<1>7. WalkOnTheWay'
  BY <1>2, <1>4 DEF WalkOnTheWay, Loading, Climbing, Calm
<1>8. ManagerNearest'
  <2> SUFFICES ASSUME NEW p \in sure', cache[p] # None
               PROVE  cache[p].manager = Detected(w, p)
    BY <1>1 DEF ManagerNearest
  <2>1. p \in sure /\ Detected(w, p) = Detected(world, p)
    BY <1>1
  <2>2. QED
    BY <1>2, <2>1 DEF ManagerNearest
<1>9. QED
  BY <1>5, <1>6, <1>7, <1>8 DEF IInv

\* Fork.
LEMMA ForkInv ==
  ASSUME IInv, NEW p \in Pids, NEW q \in Pids, Fork(p, q)
  PROVE  IInv'
<1> DEFINE v == [world EXCEPT ![p] = [comm |-> world[q].comm, ppid |-> q]]
<1>1. world[p] = None /\ world[q] # None /\ HostStep(v)
  BY DEF Fork
<1>2. world \in Worlds /\ WellFormed(world)
  BY DEF IInv, TypeOK, Shapes
<1>3. v \in Worlds /\ WellFormed(v)
  BY <1>1, <1>2, ForkTree
<1> HIDE DEF v
<1>4. QED
  BY <1>1, <1>3, HostInv

\* Exec.
LEMMA ExecInv ==
  ASSUME IInv, NEW p \in Pids, Exec(p)
  PROVE  IInv'
<1>1. PICK c \in Comms : HostStep([world EXCEPT ![p].comm = c])
  BY DEF Exec
<1> DEFINE v == [world EXCEPT ![p].comm = c]
<1>2. p # 1 /\ world[p] # None /\ HostStep(v)
  BY <1>1 DEF Exec
<1>3. world \in Worlds /\ WellFormed(world)
  BY DEF IInv, TypeOK, Shapes
<1>4. v \in Worlds /\ WellFormed(v)
  BY <1>2, <1>3, ExecTree
<1> HIDE DEF v
<1>5. QED
  BY <1>2, <1>4, HostInv

\* Exit.
LEMMA ExitInv ==
  ASSUME IInv, NEW p \in Pids, Exit(p)
  PROVE  IInv'
<1> DEFINE v(q) == [r \in Pids |-> IF r = p THEN None
                                   ELSE IF world[r] # None /\ world[r].ppid = p
                                        THEN [world[r] EXCEPT !.ppid = q]
                                        ELSE world[r]]
<1>1. p # 1 /\ world[p] # None /\ \E q \in Above(world, p) : HostStep(v(q))
  BY DEF Exit
<1>2. PICK q \in Above(world, p) : HostStep(v(q))
  BY <1>1
<1>3. world \in Worlds /\ WellFormed(world)
  BY DEF IInv, TypeOK, Shapes
<1>4. v(q) \in Worlds /\ WellFormed(v(q))
  BY <1>1, <1>3, ExitTree
<1> HIDE DEF v
<1>5. QED
  BY <1>2, <1>4, HostInv

\* An entry is dropped between two passes.
LEMMA InvalidateInv ==
  ASSUME IInv, NEW p \in Pids, Invalidate(p)
  PROVE  IInv'
<1>1. /\ ~scanning /\ cache' = [cache EXCEPT ![p] = None] /\ sure' = sure \ {p}
      /\ world' = world /\ changes' = changes
      /\ scanning' = scanning /\ todo' = todo /\ seen' = seen /\ walk' = walk
  BY DEF Invalidate, hostVars, passVars
<1>2. TypeOK /\ Shapes /\ ManagerNearest /\ walk = None
  BY <1>1 DEF IInv, TypeOK
<1>3. cache' \in [Pids -> Entry \cup {None}]
  BY <1>1, <1>2 DEF Shapes
<1>4. TypeOK'
  BY <1>1, <1>2, <1>3 DEF TypeOK
<1>5. Shapes' /\ WalkOnTheWay'
  BY <1>1, <1>2, <1>3 DEF Shapes, WalkOnTheWay, Loading, Climbing
<1>6. ManagerNearest'
  <2> SUFFICES ASSUME NEW q \in sure', cache'[q] # None
               PROVE  cache'[q].manager = Detected(world, q)
    BY <1>1 DEF ManagerNearest
  <2>1. q \in sure /\ q \in Pids /\ q # p
    BY <1>1, <1>2 DEF TypeOK
  <2>2. cache'[q] = cache[q]
    BY <1>1, <1>2, <2>1 DEF Shapes
  <2>3. QED
    BY <1>2, <2>1, <2>2 DEF ManagerNearest
<1>7. QED
  BY <1>4, <1>5, <1>6 DEF IInv

\* A pass begins.
LEMMA PassStartInv ==
  ASSUME IInv, PassStart
  PROVE  IInv'
<1>1. /\ ~scanning /\ scanning' = TRUE /\ todo' = Pids
      /\ world' = world /\ changes' = changes /\ cache' = cache /\ seen' = seen
      /\ walk' = walk /\ sure' = sure
  BY DEF PassStart, hostVars
<1>2. TypeOK /\ Shapes /\ ManagerNearest /\ walk = None
  BY <1>1 DEF IInv, TypeOK
<1>3. TypeOK'
  BY <1>1, <1>2 DEF TypeOK
<1>4. Shapes' /\ WalkOnTheWay'
  BY <1>1, <1>2 DEF Shapes, WalkOnTheWay, Loading, Climbing
<1>5. ManagerNearest'
  BY <1>1, <1>2 DEF ManagerNearest
<1>6. QED
  BY <1>3, <1>4, <1>5 DEF IInv

\* The pass skips a PID.
LEMMA VisitNoneInv ==
  ASSUME IInv, NEW p \in Pids, VisitNone(p)
  PROVE  IInv'
<1>1. /\ walk = None /\ p \in todo /\ todo' = todo \ {p}
      /\ world' = world /\ changes' = changes /\ cache' = cache /\ seen' = seen
      /\ scanning' = scanning /\ walk' = walk /\ sure' = sure
  BY DEF VisitNone, IsNext, hostVars
<1>2. TypeOK /\ Shapes /\ ManagerNearest
  BY DEF IInv
<1>3. TypeOK'
  BY <1>1, <1>2 DEF TypeOK
<1>4. Shapes' /\ WalkOnTheWay'
  BY <1>1, <1>2 DEF Shapes, WalkOnTheWay, Loading, Climbing
<1>5. ManagerNearest'
  BY <1>1, <1>2 DEF ManagerNearest
<1>6. QED
  BY <1>3, <1>4, <1>5 DEF IInv

\* The pass comes to a process, and its entry is used as it is.
LEMMA HitInv ==
  ASSUME IInv, NEW p \in Pids, Hit(p)
  PROVE  IInv'
<1>1. /\ walk = None /\ todo' = todo \ {p} /\ seen' = seen \cup {p}
      /\ world' = world /\ changes' = changes /\ cache' = cache
      /\ scanning' = scanning /\ walk' = walk /\ sure' = sure
  BY DEF Hit, Visit, hostVars
<1>2. TypeOK /\ Shapes /\ ManagerNearest
  BY DEF IInv
<1>3. TypeOK'
  BY <1>1, <1>2 DEF TypeOK
<1>4. Shapes' /\ WalkOnTheWay'
  BY <1>1, <1>2 DEF Shapes, WalkOnTheWay, Loading, Climbing
<1>5. ManagerNearest'
  BY <1>1, <1>2 DEF ManagerNearest
<1>6. QED
  BY <1>3, <1>4, <1>5 DEF IInv

\* The pass comes to a process, and its entry is to be loaded.
LEMMA MissInv ==
  ASSUME IInv, NEW p \in Pids, Miss(p)
  PROVE  IInv'
<1> DEFINE begun == [pid |-> p, light |-> None, cur |-> p, visited |-> {}, calm |-> TRUE]
<1>1. /\ p \in todo /\ todo' = todo \ {p} /\ seen' = seen \cup {p}
      /\ world' = world /\ changes' = changes /\ cache' = cache
      /\ scanning' = scanning /\ walk' = begun /\ sure' = sure
  BY DEF Miss, Visit, IsNext, hostVars
<1>2. TypeOK /\ Shapes /\ ManagerNearest /\ (scanning = TRUE)
  BY <1>1 DEF IInv, TypeOK, Shapes
<1>3. /\ begun \in [pid : Pids, light : Known \cup {None}, cur : Pids,
                    visited : SUBSET Pids, calm : BOOLEAN]
      /\ begun.pid = p /\ begun.light = None /\ begun.cur = p /\ begun.visited = {}
  OBVIOUS
<1> HIDE DEF begun
<1>4. TypeOK'
  BY <1>1, <1>2, <1>3 DEF TypeOK
<1>5. Shapes'
  BY <1>1, <1>2, <1>3, FS_EmptySet DEF Shapes
<1>6. WalkOnTheWay'
  BY <1>1, <1>3 DEF WalkOnTheWay, Loading, Climbing
<1>7. ManagerNearest'
  BY <1>1, <1>2 DEF ManagerNearest
<1>8. QED
  BY <1>4, <1>5, <1>6, <1>7 DEF IInv

\* The process to load has gone.
LEMMA LoadNoneInv ==
  ASSUME IInv, LoadNone
  PROVE  IInv'
<1>1. /\ cache' = [cache EXCEPT ![walk.pid] = None] /\ sure' = sure \ {walk.pid}
      /\ walk' = None /\ world' = world /\ changes' = changes
      /\ scanning' = scanning /\ todo' = todo /\ seen' = seen
  BY DEF LoadNone, hostVars, passVars
<1>2. TypeOK /\ Shapes /\ ManagerNearest
  BY DEF IInv
<1>3. cache' \in [Pids -> Entry \cup {None}]
  BY <1>1, <1>2 DEF Shapes
<1>4. TypeOK'
  BY <1>1, <1>2, <1>3 DEF TypeOK
<1>5. Shapes' /\ WalkOnTheWay'
  BY <1>1, <1>2, <1>3 DEF Shapes, WalkOnTheWay, Loading, Climbing
<1>6. ManagerNearest'
  <2> SUFFICES ASSUME NEW q \in sure', cache'[q] # None
               PROVE  cache'[q].manager = Detected(world, q)
    BY <1>1 DEF ManagerNearest
  <2>1. q \in sure /\ q \in Pids /\ q # walk.pid
    BY <1>1, <1>2 DEF TypeOK
  <2>2. cache'[q] = cache[q]
    BY <1>1, <1>2, <2>1 DEF Shapes
  <2>3. QED
    BY <1>2, <2>1, <2>2 DEF ManagerNearest
<1>7. QED
  BY <1>4, <1>5, <1>6 DEF IInv

\* The former entry's manager is kept.
LEMMA LoadKnownInv ==
  ASSUME IInv, LoadKnown
  PROVE  IInv'
<1> DEFINE p == walk.pid
           entry == Loaded(world[p], cache[p].manager)
<1>1. /\ cache' = [cache EXCEPT ![p] = entry]
      /\ walk # None /\ world[p] # None /\ cache[p] # None
      /\ walk' = None /\ world' = world /\ changes' = changes /\ sure' = sure
      /\ scanning' = scanning /\ todo' = todo /\ seen' = seen
  BY DEF LoadKnown, Loading, KnownManager, hostVars, passVars
<1>2. TypeOK /\ Shapes /\ ManagerNearest
  BY DEF IInv
<1>3. p \in Pids
  BY <1>1, <1>2 DEF Shapes
<1>4. world[p] \in Known /\ cache[p] \in Entry
  BY <1>1, <1>2, <1>3 DEF Shapes, Worlds
<1>5. cache[p].manager \in ManagersNamed
  BY <1>4 DEF Entry
<1>6. entry \in Entry /\ entry.manager = cache[p].manager
  BY <1>4, <1>5, LoadedEntry
<1>7. cache' \in [Pids -> Entry \cup {None}] /\ cache'[p] = entry
  BY <1>1, <1>2, <1>3, <1>6 DEF Shapes
<1>8. TypeOK'
  BY <1>1, <1>2, <1>7 DEF TypeOK
<1>9. Shapes' /\ WalkOnTheWay'
  BY <1>1, <1>2, <1>7 DEF Shapes, WalkOnTheWay, Loading, Climbing
<1>10. ASSUME NEW q \in Pids, cache'[q] # None
       PROVE  cache[q] # None /\ cache'[q].manager = cache[q].manager
  <2>1. CASE q = p
    BY <1>1, <1>6, <1>7, <2>1
  <2>2. CASE q # p
    BY <1>1, <1>2, <1>10, <2>2 DEF Shapes
  <2>3. QED
    BY <2>1, <2>2
<1>11. ManagerNearest'
  <2> SUFFICES ASSUME NEW q \in sure', cache'[q] # None
               PROVE  cache'[q].manager = Detected(world, q)
    BY <1>1 DEF ManagerNearest
  <2>1. q \in sure /\ q \in Pids
    BY <1>1, <1>2 DEF TypeOK
  <2>2. QED
    BY <1>2, <1>10, <2>1 DEF ManagerNearest
<1>12. QED
  BY <1>8, <1>9, <1>11 DEF IInv

\* The walk begins at the process itself.
LEMMA LoadLightInv ==
  ASSUME IInv, LoadLight
  PROVE  IInv'
<1> DEFINE p == walk.pid
<1>1. /\ walk # None /\ walk.light = None /\ world[p] # None
      /\ walk' = [walk EXCEPT !.light = world[p]]
      /\ world' = world /\ changes' = changes /\ cache' = cache /\ sure' = sure
      /\ scanning' = scanning /\ todo' = todo /\ seen' = seen
  BY DEF LoadLight, Loading, hostVars, passVars
<1>2. TypeOK /\ Shapes /\ ManagerNearest
  BY DEF IInv
<1>3. p \in Alive(world) /\ world[p] \in Known
  BY <1>1, <1>2 DEF Shapes, Worlds, Alive
<1>4. /\ walk' \in [pid : Pids, light : Known \cup {None}, cur : Pids,
                    visited : SUBSET Pids, calm : BOOLEAN]
      /\ walk'.pid = walk.pid /\ walk'.light = world[p] /\ walk'.cur = walk.cur
      /\ walk'.visited = walk.visited
  BY <1>1, <1>2, <1>3 DEF Shapes
<1>5. walk.cur = p /\ walk.visited = {}
  BY <1>1 DEF IInv, WalkOnTheWay, Loading
<1>6. TypeOK'
  BY <1>1, <1>2, <1>4 DEF TypeOK
<1>7. Shapes'
  BY <1>1, <1>2, <1>4 DEF Shapes
<1>8. WalkOnTheWay'
  <2>1. ~Loading'
    BY <1>1, <1>4 DEF Loading
  <2>2. OnTheWay(world, p, p, {})
    BY <1>3 DEF OnTheWay
  <2>3. OnTheWay(world, walk.pid, walk.cur, walk.visited)'
    BY <1>1, <1>4, <1>5, <2>2
  <2>4. QED
    BY <2>1, <2>3 DEF WalkOnTheWay
<1>9. ManagerNearest'
  BY <1>1, <1>2 DEF ManagerNearest
<1>10. QED
  BY <1>6, <1>7, <1>8, <1>9 DEF IInv

\* The sweep.
LEMMA PassEndInv ==
  ASSUME IInv, PassEnd
  PROVE  IInv'
<1>1. /\ todo = {} /\ walk = None /\ scanning' = FALSE /\ seen' = {} /\ sure' = sure \cap seen
      /\ cache' = [p \in Pids |-> IF p \in seen THEN cache[p] ELSE None]
      /\ world' = world /\ changes' = changes /\ todo' = todo /\ walk' = walk
  BY DEF PassEnd, hostVars
<1>2. TypeOK /\ Shapes /\ ManagerNearest
  BY DEF IInv
<1>3. cache' \in [Pids -> Entry \cup {None}]
  BY <1>1, <1>2 DEF Shapes
<1>4. TypeOK'
  BY <1>1, <1>2, <1>3 DEF TypeOK
<1>5. Shapes' /\ WalkOnTheWay'
  BY <1>1, <1>2, <1>3 DEF Shapes, WalkOnTheWay, Loading, Climbing
<1>6. ManagerNearest'
  <2> SUFFICES ASSUME NEW q \in sure', cache'[q] # None
               PROVE  cache'[q].manager = Detected(world, q)
    BY <1>1 DEF ManagerNearest
  <2>1. q \in sure /\ q \in seen /\ q \in Pids
    BY <1>1, <1>2 DEF TypeOK
  <2>2. cache'[q] = cache[q]
    BY <1>1, <2>1
  <2>3. QED
    BY <1>2, <2>1, <2>2 DEF ManagerNearest
<1>7. QED
  BY <1>4, <1>5, <1>6 DEF IInv

-----------------------------------------------------------------------------
(* The steps of the walk.                                                  *)

\* What is known of a process is a command, with a manager's name or none, and a
\* parent.
LEMMA InfoTyped ==
  ASSUME IInv, NEW p \in Pids, InfoOf(p) # None
  PROVE  /\ InfoOf(p).ppid \in Pids \cup {0}
         /\ \A d : ManagerAt(InfoOf(p).comm, d) \in ManagersNamed
<1>1. cache[p] \in Entry \cup {None} /\ world[p] \in Known \cup {None}
  BY DEF IInv, Shapes, Worlds
<1>2. InfoOf(p) \in Entry \/ InfoOf(p) \in Known
  BY <1>1 DEF InfoOf
<1>3. InfoOf(p).comm \in Comms \cup {InitComm} /\ InfoOf(p).ppid \in Pids \cup {0}
  BY <1>2 DEF Entry, Known
<1>4. None \in ManagersNamed /\ ManagerNamed(InfoOf(p).comm) \in ManagersNamed
  BY <1>3 DEF ManagersNamed
<1>5. QED
  BY <1>3, <1>4 DEF ManagerAt

\* A walk that may be trusted looks at a process it has not visited, knows the
\* truth about it, and asks whether it manages the walk's process.
LEMMA Trusted ==
  ASSUME IInv, Climbing, Calm
  PROVE  /\ OnTheWay(world, walk.pid, walk.cur, walk.visited)
         /\ ~Revisited /\ walk.cur \in Alive(world)
         /\ InfoOf(walk.cur) # None /\ InfoOf(walk.cur).ppid = world[walk.cur].ppid
         /\ ManagerAt(InfoOf(walk.cur).comm, Depth) =
              IF walk.visited # {} /\ walk.cur \in Managing(world, walk.pid)
              THEN ManagerNamed(world[walk.cur].comm) ELSE None
<1> DEFINE p == walk.pid
           c == walk.cur
           V == walk.visited
<1>1. OnTheWay(world, p, c, V)
  BY DEF IInv, WalkOnTheWay
<1>2. world \in Worlds /\ WellFormed(world) /\ IsFiniteSet(V)
  BY DEF IInv, TypeOK, Shapes, Climbing
<1>3. c \in Alive(world) /\ c \in Above(world, p) \cup {p} /\ c \notin V
  BY <1>1, <1>2, NotRevisited
<1>4. cache[c] # None => cache[c].comm = world[c].comm /\ cache[c].ppid = world[c].ppid
  BY <1>3 DEF Calm
<1>5. world[c] # None
  BY <1>3 DEF Alive
<1>6. /\ InfoOf(c) # None /\ InfoOf(c).comm = world[c].comm
      /\ InfoOf(c).ppid = world[c].ppid
  BY <1>4, <1>5 DEF InfoOf
<1>7. ManagerAt(InfoOf(c).comm, Depth) =
        IF V # {} /\ c \in Managing(world, p) THEN ManagerNamed(world[c].comm) ELSE None
  BY <1>1, <1>2, <1>6, ManagerAtIs DEF Depth
<1>8. QED
  BY <1>1, <1>3, <1>6, <1>7 DEF Revisited

\* load_entry returns a manager that is the nearest if the walk may be trusted.
LEMMA ReturnInv ==
  ASSUME IInv, Climbing, NEW m \in ManagersNamed, Return(m),
         Calm => m = Detected(world, walk.pid)
  PROVE  IInv'
<1> DEFINE p == walk.pid
           entry == Loaded(walk.light, m)
<1>1. /\ walk # None /\ walk.light # None
      /\ cache' = [cache EXCEPT ![p] = entry]
      /\ sure' = IF Calm THEN sure \cup {p} ELSE sure \ {p}
      /\ walk' = None /\ world' = world /\ changes' = changes
      /\ scanning' = scanning /\ todo' = todo /\ seen' = seen
  BY DEF Climbing, Return, hostVars, passVars
<1>2. TypeOK /\ Shapes /\ ManagerNearest
  BY DEF IInv
<1>3. p \in Pids /\ walk.light \in Known
  BY <1>1, <1>2 DEF Shapes
<1>4. entry \in Entry /\ entry.manager = m
  BY <1>3, LoadedEntry
<1> HIDE DEF entry
<1>5. /\ cache' \in [Pids -> Entry \cup {None}] /\ cache'[p] = entry
      /\ \A q \in Pids \ {p} : cache'[q] = cache[q]
  BY <1>1, <1>2, <1>3, <1>4 DEF Shapes
<1>6. sure' \subseteq sure \cup {p} /\ (p \in sure' => Calm)
  BY <1>1
<1>7. TypeOK'
  BY <1>1, <1>2, <1>3, <1>5, <1>6 DEF TypeOK
<1>8. Shapes' /\ WalkOnTheWay'
  BY <1>1, <1>2, <1>5 DEF Shapes, WalkOnTheWay, Loading, Climbing
<1>9. ManagerNearest'
  <2> SUFFICES ASSUME NEW q \in sure', cache'[q] # None
               PROVE  cache'[q].manager = Detected(world, q)
    BY <1>1 DEF ManagerNearest
  <2>1. CASE q = p
    BY <1>4, <1>5, <1>6, <2>1
  <2>2. CASE q # p
    <3>1. q \in sure /\ q \in Pids
      BY <1>2, <1>6, <2>2 DEF TypeOK
    <3>2. cache'[q] = cache[q]
      BY <1>5, <2>2, <3>1
    <3>3. QED
      BY <1>2, <3>1, <3>2 DEF ManagerNearest
  <2>3. QED
    BY <2>1, <2>2
<1>10. QED
  BY <1>7, <1>8, <1>9 DEF IInv

\* A walk that may be trusted does not get lost.
LEMMA LostInv ==
  ASSUME IInv, Lost
  PROVE  IInv'
<1>1. Climbing /\ Return(None) /\ (Revisited \/ InfoOf(walk.cur) = None)
  BY DEF Lost
<1>2. ~Calm
  BY <1>1, Trusted
<1>3. None \in ManagersNamed
  BY DEF ManagersNamed
<1>4. QED
  BY <1>1, <1>2, <1>3, ReturnInv

\* The walk has come to a manager.
LEMMA ArriveInv ==
  ASSUME IInv, Arrive
  PROVE  IInv'
<1> DEFINE m == ManagerAt(InfoOf(walk.cur).comm, Depth)
<1>1. Climbing /\ InfoOf(walk.cur) # None /\ m # None /\ Return(m)
  BY DEF Arrive, Look
<1>2. /\ world \in Worlds /\ WellFormed(world) /\ walk.cur \in Pids
  BY <1>1 DEF IInv, TypeOK, Shapes, Climbing
<1>3. m \in ManagersNamed
  BY <1>1, <1>2, InfoTyped
<1>4. ASSUME Calm
      PROVE  m = Detected(world, walk.pid)
  <2>1. /\ OnTheWay(world, walk.pid, walk.cur, walk.visited)
        /\ m = IF walk.visited # {} /\ walk.cur \in Managing(world, walk.pid)
               THEN ManagerNamed(world[walk.cur].comm) ELSE None
    BY <1>1, <1>4, Trusted
  <2>2. /\ walk.visited # {} /\ walk.cur \in Managing(world, walk.pid)
        /\ m = ManagerNamed(world[walk.cur].comm)
    BY <1>1, <2>1
  <2>3. QED
    BY <1>2, <2>1, <2>2, NearestFound
<1> HIDE DEF m
<1>5. QED
  BY <1>1, <1>3, <1>4, ReturnInv

\* What the walk passes by, if it may be trusted, is no manager.
LEMMA PassedBy ==
  ASSUME IInv, Climbing, Calm, ManagerAt(InfoOf(walk.cur).comm, Depth) = None
  PROVE  walk.visited = {} \/ walk.cur \notin Managing(world, walk.pid)
BY Trusted DEF Managing, Managers

\* The walk has come to a process without a parent.
LEMMA TopInv ==
  ASSUME IInv, Top
  PROVE  IInv'
<1> DEFINE c == walk.cur
<1>1. /\ Climbing /\ Return(None) /\ ManagerAt(InfoOf(c).comm, Depth) = None
      /\ InfoOf(c).ppid \in {0, c}
  BY DEF Top, Look, AtTop
<1>2. world \in Worlds /\ WellFormed(world)
  BY DEF IInv, TypeOK, Shapes
<1>3. ASSUME Calm
      PROVE  None = Detected(world, walk.pid)
  <2>1. /\ OnTheWay(world, walk.pid, c, walk.visited) /\ c \in Alive(world)
        /\ world[c].ppid \in {0, c}
    BY <1>1, <1>3, Trusted
  <2>2. c \notin Above(world, c) /\ ParentsAlive(world)
    BY <1>2, <2>1, Acyclic, TreeParents
  <2>3. world[c].ppid = 0
    BY <2>1, <2>2, ParentAbove
  <2>4. walk.visited = {} \/ c \notin Managing(world, walk.pid)
    BY <1>1, <1>3, PassedBy
  <2>5. QED
    BY <1>2, <2>1, <2>3, <2>4, NoneFound
<1>4. None \in ManagersNamed
  BY DEF ManagersNamed
<1>5. QED
  BY <1>1, <1>3, <1>4, ReturnInv

\* The walk goes on to the parent.
LEMMA ClimbInv ==
  ASSUME IInv, Climb
  PROVE  IInv'
<1> DEFINE c == walk.cur
           a == InfoOf(walk.cur).ppid
<1>1. /\ walk # None /\ walk.light # None /\ InfoOf(c) # None /\ a # 0
      /\ ManagerAt(InfoOf(c).comm, Depth) = None
      /\ walk' = [walk EXCEPT !.cur = a, !.visited = walk.visited \cup {c}]
      /\ world' = world /\ changes' = changes /\ cache' = cache /\ sure' = sure
      /\ scanning' = scanning /\ todo' = todo /\ seen' = seen
  BY DEF Climb, Look, AtTop, Climbing, hostVars, passVars
<1>2. TypeOK /\ Shapes /\ ManagerNearest
  BY DEF IInv
<1>3. c \in Pids /\ walk.visited \subseteq Pids /\ IsFiniteSet(walk.visited)
  BY <1>1, <1>2 DEF Shapes
<1>4. a \in Pids
  BY <1>1, <1>3, InfoTyped
<1> HIDE DEF a
<1>5. /\ walk' \in [pid : Pids, light : Known \cup {None}, cur : Pids,
                    visited : SUBSET Pids, calm : BOOLEAN]
      /\ walk'.pid = walk.pid /\ walk'.light = walk.light /\ walk'.cur = a
      /\ walk'.visited = walk.visited \cup {c} /\ walk'.calm = walk.calm
  BY <1>1, <1>2, <1>3, <1>4 DEF Shapes
<1>6. TypeOK'
  BY <1>1, <1>2, <1>3, <1>5 DEF TypeOK
<1>7. IsFiniteSet(walk.visited \cup {c})
  BY <1>3, FS_AddElement
<1>8. Shapes'
  BY <1>1, <1>2, <1>5, <1>7 DEF Shapes
<1>9. WalkOnTheWay'
  <2>1. ~Loading'
    BY <1>1, <1>5 DEF Loading
  <2>2. ASSUME Calm'
        PROVE  OnTheWay(world, walk.pid, walk.cur, walk.visited)'
    <3>1. Calm /\ Climbing
      BY <1>1, <1>5, <2>2 DEF Calm, Climbing
    <3>2. OnTheWay(world, walk.pid, c, walk.visited) /\ world[c].ppid = a
      BY <3>1, Trusted DEF a
    <3>3. walk.visited = {} \/ c \notin Managing(world, walk.pid)
      BY <1>1, <3>1, PassedBy
    <3>4. world \in Worlds /\ WellFormed(world)
      BY <1>2 DEF TypeOK, Shapes
    <3>5. OnTheWay(world, walk.pid, a, walk.visited \cup {c})
      BY <1>1, <3>2, <3>3, <3>4, Climbed
    <3>6. QED
      BY <1>1, <1>5, <3>5
  <2>3. QED
    BY <2>1, <2>2 DEF WalkOnTheWay
<1>10. ManagerNearest'
  BY <1>1, <1>2 DEF ManagerNearest
<1>11. QED
  BY <1>6, <1>8, <1>9, <1>10 DEF IInv

-----------------------------------------------------------------------------
\* Every step keeps the invariant.
LEMMA NextInv == IInv /\ [Next]_vars => IInv'
<1> SUFFICES ASSUME IInv, [Next]_vars
             PROVE  IInv'
  OBVIOUS
<1>1. CASE Host
  BY <1>1, ForkInv, ExecInv, ExitInv DEF Host
<1>2. CASE \E p \in Pids : Invalidate(p)
  BY <1>2, InvalidateInv
<1>3. CASE Pass
  BY <1>3, PassStartInv, VisitNoneInv, HitInv, MissInv, PassEndInv DEF Pass
<1>4. CASE Load
  BY <1>4, LoadNoneInv, LoadKnownInv, LoadLightInv DEF Load
<1>5. CASE WalkStep
  BY <1>5, LostInv, ArriveInv, TopInv, ClimbInv DEF WalkStep
<1>6. CASE UNCHANGED vars
  <2>1. /\ world' = world /\ changes' = changes /\ cache' = cache /\ sure' = sure
        /\ scanning' = scanning /\ todo' = todo /\ seen' = seen /\ walk' = walk
    BY <1>6 DEF vars, hostVars, passVars
  <2>2. TypeOK' /\ Shapes'
    BY <2>1 DEF IInv, TypeOK, Shapes
  <2>3. WalkOnTheWay'
    BY <2>1 DEF IInv, WalkOnTheWay, Loading, Climbing, Calm
  <2>4. ManagerNearest'
    BY <2>1 DEF IInv, ManagerNearest
  <2>5. QED
    BY <2>2, <2>3, <2>4 DEF IInv
<1>7. QED
  BY <1>1, <1>2, <1>3, <1>4, <1>5, <1>6 DEF Next

\* The invariant holds throughout, however many processes there are and whatever
\* happens to them: while it climbs, a walk that may be trusted has visited just
\* the processes between its own and walk.cur, and no manager among them.
THEOREM Invariance == Spec => []IInv
BY InitInv, NextInv, PTL DEF Spec

\* The processes stay a tree below init, entries and walks have their shapes, and
\* a walk is for a process that the pass has come to.
THEOREM TypeCorrect == Spec => []TypeOK
<1>1. IInv => TypeOK
  BY DEF IInv
<1>2. QED
  BY <1>1, Invariance, PTL

\* What a trusted walk of detect_manager returns is the manager that all others are
\* above, but for a systemd that is not the parent, where it is the nearest of the
\* others; and the cache keeps it as long as it is (manager.rs:48-92,
\* proc_cache.rs:64, 107).
THEOREM NearestManager == Spec => []ManagerNearest
<1>1. IInv => ManagerNearest
  BY DEF IInv
<1>2. QED
  BY <1>1, Invariance, PTL

\* The reference is well defined, whatever happens on the host: no process is above
\* itself, and of any of a process's ancestors, its managers say, there is just one
\* that all others are above.
THEOREM NearestDefined ==
  Spec => [](\A p \in Alive(world) :
               /\ p \notin Above(world, p)
               /\ \A M \in SUBSET Above(world, p) : M # {} =>
                    \E q \in M : /\ \A r \in M : r = q \/ r \in Above(world, q)
                                 /\ \A r \in M \ {q} : q \notin Above(world, r))
<1> DEFINE Defined ==
      \A p \in Alive(world) :
        /\ p \notin Above(world, p)
        /\ \A M \in SUBSET Above(world, p) : M # {} =>
             \E q \in M : /\ \A r \in M : r = q \/ r \in Above(world, q)
                          /\ \A r \in M \ {q} : q \notin Above(world, r)
<1>1. IInv => Defined
  <2> SUFFICES ASSUME IInv, NEW p \in Alive(world)
               PROVE  /\ p \notin Above(world, p)
                      /\ \A M \in SUBSET Above(world, p) : M # {} =>
                           \E q \in M : /\ \A r \in M : r = q \/ r \in Above(world, q)
                                        /\ \A r \in M \ {q} : q \notin Above(world, r)
    OBVIOUS
  <2>1. world \in Worlds /\ WellFormed(world)
    BY DEF IInv, TypeOK, Shapes
  <2>2. p \notin Above(world, p)
    BY <2>1, Acyclic
  <2>3. ASSUME NEW M \in SUBSET Above(world, p), M # {}
        PROVE  \E q \in M : /\ \A r \in M : r = q \/ r \in Above(world, q)
                            /\ \A r \in M \ {q} : q \notin Above(world, r)
    <3>1. PICK q \in M : \A r \in M : r = q \/ r \in Above(world, q)
      BY <2>1, <2>3, FirstExists
    <3>2. q \in Alive(world)
      BY AboveAlive
    <3>3. \A r \in M \ {q} : q \notin Above(world, r)
      BY <2>1, <3>1, <3>2, AboveTransitive, Acyclic
    <3>4. QED
      BY <3>1, <3>3
  <2>4. QED
    BY <2>2, <2>3
<1>2. QED
  BY <1>1, Invariance, PTL

\* Why a walk ends, whatever cycle the entries make: each of its steps ends it or
\* visits one more of finitely many processes (visited, manager.rs:54).
THEOREM WalkBounded ==
  ASSUME IsFiniteSet(Pids)
  PROVE  Spec => [][WalkStep =>
                      \/ walk' = None
                      \/ /\ Cardinality(walk'.visited) = Cardinality(walk.visited) + 1
                         /\ Cardinality(walk'.visited) <= Cardinality(Pids)]_vars
<1> DEFINE Grows == \/ walk' = None
                    \/ /\ Cardinality(walk'.visited) = Cardinality(walk.visited) + 1
                       /\ Cardinality(walk'.visited) <= Cardinality(Pids)
<1>1. ASSUME IInv, WalkStep
      PROVE  Grows
  <2>1. CASE Lost \/ Arrive \/ Top
    BY <2>1 DEF Lost, Arrive, Top, Return
  <2>2. CASE Climb
    <3>1. /\ walk' = [walk EXCEPT !.cur = InfoOf(walk.cur).ppid,
                                  !.visited = walk.visited \cup {walk.cur}]
          /\ walk # None /\ walk.cur \notin walk.visited
      BY <2>2 DEF Climb, Look, Climbing, Revisited
    <3>2. /\ walk \in [pid : Pids, light : Known \cup {None}, cur : Pids,
                       visited : SUBSET Pids, calm : BOOLEAN]
          /\ IsFiniteSet(walk.visited)
      BY <1>1, <3>1 DEF IInv, Shapes
    <3>3. walk'.visited = walk.visited \cup {walk.cur} /\ walk'.visited \subseteq Pids
      BY <3>1, <3>2
    <3>4. Cardinality(walk'.visited) = Cardinality(walk.visited) + 1
      BY <3>1, <3>2, <3>3, FS_AddElement
    <3>5. Cardinality(walk'.visited) <= Cardinality(Pids)
      BY <3>3, FS_Subset
    <3>6. QED
      BY <3>4, <3>5
  <2>3. QED
    BY <1>1, <2>1, <2>2 DEF WalkStep
<1> HIDE DEF Grows
<1>2. IInv => [WalkStep => Grows]_vars
  BY <1>1
<1>3. Spec => [][WalkStep => Grows]_vars
  BY <1>2, Invariance, PTL
<1>4. QED
  BY <1>3 DEF Grows

=============================================================================
