------------------------- MODULE EventDelivery_proofs -------------------------
(***************************************************************************)
(* Proofs of the safety properties of EventDelivery for any processes and  *)
(* clients, any size of the ring buffer and of the channels, and any       *)
(* number of events.                                                       *)
(***************************************************************************)
EXTENDS EventDelivery, SequenceTheorems, TLAPS

Records == [event : Nat, committed : BOOLEAN]

\* What TypeOK leaves open: the sequences are sequences, the functions have
\* their domains.
Shapes ==
  /\ ring \in Seq(Records)
  /\ sent \in [Pids -> Seq(Nat)]
  /\ cursor \in [Clients -> Nat]
  /\ got \in [Clients -> Seq(Nat)]
  /\ since \in [Clients -> Nat]

\* Without a subscription there is no receiver.
Unsubscribed == \A c \in Clients : sub[c] = None => cursor[c] = 0 /\ got[c] = <<>>

\* A channel carries events of its process, in the order of their birth, and
\* what is still in the ring is younger.  The i-th event of a channel is at
\* least the i-th of all, which bounds the channel's length.
ChannelOrder ==
  \A p \in Pids : \A i \in 1..Len(sent[p]) :
    /\ sent[p][i] \in 1..Len(born)
    /\ born[sent[p][i]] = p
    /\ i <= sent[p][i]
    /\ \A j \in 1..Len(sent[p]) : i < j => sent[p][i] < sent[p][j]
    /\ \A k \in 1..Len(ring) : sent[p][i] < ring[k].event

\* What a client has received is older than what it has yet to read and than
\* what is still in the ring.
GotOrder ==
  \A c \in Clients : \A i \in 1..Len(got[c]) :
    /\ got[c][i] \in 1..Len(born)
    /\ \A j \in cursor[c] + 1 .. Len(sent[sub[c]]) : got[c][i] < sent[sub[c]][j]
    /\ \A k \in 1..Len(ring) : got[c][i] < ring[k].event

\* The inductive invariant.
IInv ==
  /\ TypeOK
  /\ Shapes
  /\ Unsubscribed
  /\ ChannelOrder
  /\ GotOrder
  /\ NoLostWakeup
  /\ Ordered
  /\ Accounted

-----------------------------------------------------------------------------
\* The indices of a sequence that has grown by one.
LEMMA LastIndex ==
  ASSUME NEW n \in Nat, NEW j \in 1..(n + 1)
  PROVE  j \in 1..n \/ j = n + 1
OBVIOUS

\* A sequence that grows by more than all it has stays in order.
LEMMA AppendIncreasing ==
  ASSUME NEW s \in Seq(Nat), NEW e \in Nat,
         \A i, j \in 1..Len(s) : i < j => s[i] < s[j],
         \A i \in 1..Len(s) : s[i] < e
  PROVE  \A i, j \in 1..Len(Append(s, e)) : i < j => Append(s, e)[i] < Append(s, e)[j]
<1> DEFINE t == Append(s, e)
<1>1. Len(s) \in Nat /\ Len(t) = Len(s) + 1
  BY AppendProperties
<1>2. \A i \in 1..Len(s) : t[i] = s[i]
  BY AppendProperties
<1>3. t[Len(s) + 1] = e
  BY AppendProperties
<1> HIDE DEF t
<1> SUFFICES ASSUME NEW i \in 1..Len(t), NEW j \in 1..Len(t), i < j
             PROVE  t[i] < t[j]
  BY DEF t
<1>4. i \in 1..Len(s)
  BY <1>1
<1>5. t[i] = s[i] /\ s[i] < e
  BY <1>2, <1>4
<1>6. CASE j \in 1..Len(s)
  <2>1. t[j] = s[j] /\ s[i] < s[j]
    BY <1>2, <1>4, <1>6, Zenon
  <2>2. QED
    BY <1>5, <2>1
<1>7. CASE j = Len(s) + 1
  BY <1>3, <1>5, <1>7
<1>8. j \in 1..Len(s) \/ j = Len(s) + 1
  BY <1>1, LastIndex, Zenon
<1>9. QED
  BY <1>6, <1>7, <1>8

\* Lengths are numbers, for the steps below.
LEMMA Lengths ==
  ASSUME IInv
  PROVE  /\ Len(born) \in Nat
         /\ Len(ring) \in Nat
         /\ \A p \in Pids : Len(sent[p]) \in Nat
         /\ \A c \in Clients : Len(got[c]) \in Nat
<1>1. /\ born \in Seq(Pids)
      /\ ring \in Seq(Records)
      /\ \A p \in Pids : sent[p] \in Seq(Nat)
      /\ \A c \in Clients : got[c] \in Seq(Nat)
  BY DEF IInv, TypeOK, Shapes
<1>2. QED
  BY <1>1, LenProperties

\* No channel has carried more events than there were.
LEMMA ChannelBound ==
  ASSUME IInv, NEW p \in Pids
  PROVE  Len(sent[p]) <= Len(born)
<1>1. Len(sent[p]) \in Nat /\ Len(born) \in Nat
  BY Lengths
<1>2. CASE Len(sent[p]) # 0
  <2>1. Len(sent[p]) \in 1..Len(sent[p])
    BY <1>1, <1>2
  <2>2. /\ sent[p][Len(sent[p])] \in 1..Len(born)
        /\ Len(sent[p]) <= sent[p][Len(sent[p])]
    BY <2>1 DEF IInv, ChannelOrder
  <2>3. QED
    BY <1>1, <2>2
<1>3. QED
  BY <1>1, <1>2

\* The head of a sequence of records is its first.
LEMMA FirstRecord ==
  ASSUME NEW r \in Seq(Records)
  PROVE  (r # <<>> /\ Head(r).committed) <=> (1 \in 1..Len(r) /\ r[1].committed)
<1>1. Len(r) \in Nat /\ (r # <<>> => Len(r) # 0) /\ (r = <<>> => Len(r) = 0)
  BY LenProperties, EmptySeq
<1>2. Head(r) = r[1]
  OBVIOUS
<1>3. QED
  BY <1>1, <1>2

\* Nothing has happened yet.
LEMMA InitIInv == Init => IInv
<1> SUFFICES ASSUME Init PROVE IInv
  OBVIOUS
<1>1. Len(<<>>) = 0 /\ \A S : <<>> \in Seq(S)
  BY EmptySeq
<1>2. TypeOK
  <2>1. /\ born \in Seq(Pids) /\ Len(born) <= MaxEvents
        /\ Len(ring) <= RingCap /\ Len(ring) = 0
    BY <1>1, LimitAssumption DEF Init
  <2>2. \A p \in Pids : sent[p] \in Seq(1..Len(born))
    BY <1>1 DEF Init
  <2>3. \A c \in Clients : /\ cursor[c] \in 0..MaxEvents
                           /\ since[c] \in 0..Len(born)
                           /\ sub[c] = None
    BY <1>1, LimitAssumption DEF Init
  <2>4. /\ drain = "draining" /\ ready \in BOOLEAN /\ lagged = {} /\ lost = {}
        /\ sub \in [Clients -> Pids \cup {None}]
    BY DEF Init
  <2>5. QED
    BY <2>1, <2>2, <2>3, <2>4 DEF TypeOK
<1>3. Shapes
  BY <1>1 DEF Init, Shapes
<1>4. Unsubscribed /\ ChannelOrder /\ GotOrder /\ NoLostWakeup
  BY <1>1 DEF Init, Unsubscribed, ChannelOrder, GotOrder, NoLostWakeup
<1>5. Ordered /\ Accounted
  BY <1>1 DEF Init, Ordered, Accounted
<1>6. QED
  BY <1>2, <1>3, <1>4, <1>5 DEF IInv

-----------------------------------------------------------------------------
\* What a reservation does to the ring: nothing, or one more record, which is
\* not committed.
LEMMA ReserveRing ==
  ASSUME IInv, NEW p \in Pids, Reserve(p)
  PROVE  /\ ring' \in Seq(Records) /\ Len(ring') \in Nat /\ Len(ring') <= RingCap
         /\ Len(ring) <= Len(ring')
         /\ \A i \in 1..Len(ring) : ring'[i] = ring[i]
         /\ \A i \in 1..Len(ring') : i <= Len(ring) \/ i = Len(ring) + 1
         /\ Len(ring) + 1 \in 1..Len(ring') =>
              ring'[Len(ring) + 1].event = Len(born) + 1 /\ ~ring'[Len(ring) + 1].committed
         /\ Len(born) + 1 \in lost' \/ Len(ring) + 1 \in 1..Len(ring')
<1>1. ring \in Seq(Records) /\ Len(ring) <= RingCap /\ Len(ring) \in Nat /\ Len(born) \in Nat
  BY Lengths DEF IInv, TypeOK, Shapes
<1> DEFINE r == [event |-> Len(born) + 1, committed |-> FALSE]
<1>2. CASE ring' = ring /\ Len(born) + 1 \in lost'
  BY <1>1, <1>2
<1>3. CASE ring' = Append(ring, r) /\ Len(ring) < RingCap
  <2>1. r \in Records /\ r.event = Len(born) + 1 /\ ~r.committed
    BY <1>1 DEF Records
  <2> HIDE DEF r
  <2>2. /\ ring' \in Seq(Records) /\ Len(ring') = Len(ring) + 1
        /\ \A i \in 1..Len(ring) : ring'[i] = ring[i]
        /\ ring'[Len(ring) + 1] = r
    BY <1>1, <1>3, <2>1, AppendProperties
  <2>3. Len(ring') \in Nat /\ Len(ring') <= RingCap /\ Len(ring) <= Len(ring')
    BY <1>1, <1>3, <2>2, LimitAssumption
  <2>4. /\ \A i \in 1..Len(ring') : i <= Len(ring) \/ i = Len(ring) + 1
        /\ Len(ring) + 1 \in 1..Len(ring')
    BY <1>1, <2>2
  <2>5. QED
    BY <2>1, <2>2, <2>3, <2>4
<1>4. QED
  BY <1>2, <1>3 DEF Reserve

\* A reservation keeps the invariant: the event is the youngest, in the ring or
\* among the lost ones, and it does not wake anybody.
LEMMA ReserveStep ==
  ASSUME IInv, NEW p \in Pids, Reserve(p)
  PROVE  IInv'
<1>1. /\ Len(born) \in Nat /\ Len(ring) \in Nat
      /\ \A q \in Pids : Len(sent[q]) \in Nat
      /\ \A c \in Clients : Len(got[c]) \in Nat
  BY Lengths
<1>2. /\ born' \in Seq(Pids) /\ Len(born') = Len(born) + 1 /\ Len(born') <= MaxEvents
      /\ \A i \in 1..Len(born) : born'[i] = born[i]
  BY <1>1, AppendProperties, LimitAssumption DEF IInv, TypeOK, Reserve
<1>3. /\ ring' \in Seq(Records) /\ Len(ring') \in Nat /\ Len(ring') <= RingCap
      /\ Len(ring) <= Len(ring')
      /\ \A i \in 1..Len(ring) : ring'[i] = ring[i]
      /\ \A i \in 1..Len(ring') : i <= Len(ring) \/ i = Len(ring) + 1
      /\ Len(ring) + 1 \in 1..Len(ring') =>
           ring'[Len(ring) + 1].event = Len(born) + 1 /\ ~ring'[Len(ring) + 1].committed
      /\ Len(born) + 1 \in lost' \/ Len(ring) + 1 \in 1..Len(ring')
  BY ReserveRing
<1>4. /\ UNCHANGED <<drain, ready, sent, sub, cursor, got, since, lagged>>
      /\ lost \subseteq lost' /\ lost' \subseteq lost \cup {Len(born) + 1}
  BY DEF Reserve, subVars
<1>5. \A i \in 1..Len(born) : i \in 1..Len(born')
  BY <1>1, <1>2
<1>6. \A i \in 1..Len(ring) : ring[i].event \in 1..Len(born) /\ ring[i] \in Records
  BY ElementOfSeq DEF IInv, TypeOK, Shapes
<1>7. \A i \in 1..Len(ring') :
        \/ i \in 1..Len(ring) /\ ring'[i].event \in 1..Len(born) /\ ring'[i] = ring[i]
        \/ i = Len(ring) + 1 /\ ring'[i].event = Len(born) + 1 /\ ~ring'[i].committed
  BY <1>1, <1>3, <1>6
<1>8. HasNext' <=> HasNext
  <2>1. HasNext' <=> 1 \in 1..Len(ring') /\ ring'[1].committed
    BY <1>3, FirstRecord DEF HasNext
  <2>2. HasNext <=> 1 \in 1..Len(ring) /\ ring[1].committed
    BY FirstRecord DEF HasNext, IInv, Shapes
  <2>3. 1 \in 1..Len(ring) => 1 \in 1..Len(ring')
    BY <1>1, <1>3
  <2>4. QED
    BY <1>3, <1>7, <2>1, <2>2, <2>3
<1>9. TypeOK'
  <2>1. \A i \in 1..Len(ring') : ring'[i] \in [event : 1..Len(born'), committed : BOOLEAN]
    <3>1. \A i \in 1..Len(ring') : ring'[i] \in Records
      BY <1>3, ElementOfSeq
    <3>2. Len(born) + 1 \in 1..Len(born')
      BY <1>1, <1>2
    <3>3. QED
      BY <1>5, <1>7, <3>1, <3>2 DEF Records
  <2>2. \A i, j \in 1..Len(ring') : i < j => ring'[i].event < ring'[j].event
    <3>1. \A i, j \in 1..Len(ring) : i < j => ring[i].event < ring[j].event
      BY DEF IInv, TypeOK
    <3>2. QED
      BY <1>1, <1>7, <3>1
  <2>3. drain' = "handling" => HasNext'
    BY <1>4, <1>8 DEF IInv, TypeOK
  <2>4. \A q \in Pids : sent'[q] \in Seq(1..Len(born'))
    <3>1. 1..Len(born) \subseteq 1..Len(born')
      BY <1>5
    <3>2. QED
      BY <1>4, <3>1, SeqMonotonic DEF IInv, TypeOK
  <2>5. \A c \in Clients : /\ cursor'[c] \in 0..MaxEvents
                           /\ since'[c] \in 0..Len(born')
                           /\ sub'[c] # None => cursor'[c] <= Len(sent'[sub'[c]])
    BY <1>1, <1>2, <1>4 DEF IInv, TypeOK
  <2>6. lost' \subseteq 1..Len(born')
    <3>1. lost \subseteq 1..Len(born) /\ Len(born) + 1 \in 1..Len(born')
      BY <1>1, <1>2 DEF IInv, TypeOK
    <3>2. QED
      BY <1>4, <1>5, <3>1
  <2>7. /\ drain' \in {"draining", "handling", "waiting"}
        /\ ready' \in BOOLEAN
        /\ sub' \in [Clients -> Pids \cup {None}]
        /\ lagged' \subseteq Clients
    BY <1>4 DEF IInv, TypeOK
  <2>8. QED
    BY <1>2, <1>3, <2>1, <2>2, <2>3, <2>4, <2>5, <2>6, <2>7 DEF TypeOK
<1>10. Shapes'
  BY <1>3, <1>4 DEF IInv, Shapes
<1>11. Unsubscribed'
  BY <1>4 DEF IInv, Unsubscribed
<1>12. ChannelOrder'
  <2> SUFFICES ASSUME NEW q \in Pids, NEW i \in 1..Len(sent[q])
               PROVE  /\ sent[q][i] \in 1..Len(born')
                      /\ born'[sent[q][i]] = q
                      /\ i <= sent[q][i]
                      /\ \A j \in 1..Len(sent[q]) : i < j => sent[q][i] < sent[q][j]
                      /\ \A k \in 1..Len(ring') : sent[q][i] < ring'[k].event
    BY <1>4 DEF ChannelOrder
  <2>1. /\ sent[q][i] \in 1..Len(born)
        /\ born[sent[q][i]] = q
        /\ i <= sent[q][i]
        /\ \A j \in 1..Len(sent[q]) : i < j => sent[q][i] < sent[q][j]
        /\ \A k \in 1..Len(ring) : sent[q][i] < ring[k].event
    BY DEF IInv, ChannelOrder
  <2>2. ASSUME NEW k \in 1..Len(ring')
        PROVE  sent[q][i] < ring'[k].event
    <3>1. CASE k \in 1..Len(ring) /\ ring'[k] = ring[k]
      BY <2>1, <3>1
    <3>2. CASE ring'[k].event = Len(born) + 1
      BY <1>1, <2>1, <3>2
    <3>3. QED
      BY <1>7, <3>1, <3>2
  <2>3. QED
    BY <1>2, <1>5, <2>1, <2>2
<1>13. GotOrder'
  <2> SUFFICES ASSUME NEW c \in Clients, NEW i \in 1..Len(got[c])
               PROVE  /\ got[c][i] \in 1..Len(born')
                      /\ \A j \in cursor[c] + 1 .. Len(sent[sub[c]]) : got[c][i] < sent[sub[c]][j]
                      /\ \A k \in 1..Len(ring') : got[c][i] < ring'[k].event
    BY <1>4 DEF GotOrder
  <2>1. /\ got[c][i] \in 1..Len(born)
        /\ \A j \in cursor[c] + 1 .. Len(sent[sub[c]]) : got[c][i] < sent[sub[c]][j]
        /\ \A k \in 1..Len(ring) : got[c][i] < ring[k].event
    BY DEF IInv, GotOrder
  <2>2. ASSUME NEW k \in 1..Len(ring')
        PROVE  got[c][i] < ring'[k].event
    <3>1. CASE k \in 1..Len(ring) /\ ring'[k] = ring[k]
      BY <2>1, <3>1
    <3>2. CASE ring'[k].event = Len(born) + 1
      BY <1>1, <2>1, <3>2
    <3>3. QED
      BY <1>7, <3>1, <3>2
  <2>3. QED
    BY <1>5, <2>1, <2>2
<1>14. NoLostWakeup'
  BY <1>4, <1>8 DEF IInv, NoLostWakeup
<1>15. Ordered'
  <2>1. \A c \in Clients : \A i \in 1..Len(got[c]) : born'[got[c][i]] = born[got[c][i]]
    BY <1>2 DEF IInv, GotOrder
  <2>2. QED
    BY <1>4, <2>1 DEF IInv, Ordered
<1>16. Accounted'
  <2> SUFFICES ASSUME NEW c \in Clients, sub[c] # None, c \notin lagged,
                      NEW m \in since[c] + 1 .. Len(born'), sub[c] = born'[m]
               PROVE  m \in lost' \cup Received(c) \cup NotYetRead(c) \/ InRing(m)'
    BY <1>4 DEF Accounted, Owed, Received, NotYetRead
  <2>1. since[c] \in 0..Len(born)
    BY DEF IInv, TypeOK
  <2>2. CASE m = Len(born) + 1
    BY <1>3, <2>2 DEF InRing
  <2>3. CASE m # Len(born) + 1
    <3>1. m \in since[c] + 1 .. Len(born) /\ m \in 1..Len(born) /\ sub[c] = born[m]
      BY <1>1, <1>2, <2>1, <2>3
    <3>2. m \in lost \cup Received(c) \cup NotYetRead(c) \/ InRing(m)
      BY <3>1 DEF IInv, Accounted, Owed
    <3>3. InRing(m) => InRing(m)'
      <4>1. \A i \in 1..Len(ring) : i \in 1..Len(ring')
        BY <1>1, <1>3
      <4>2. QED
        BY <1>3, <4>1 DEF InRing
    <3>4. QED
      BY <1>4, <3>2, <3>3
  <2>4. QED
    BY <2>2, <2>3
<1>17. QED
  BY <1>9, <1>10, <1>11, <1>12, <1>13, <1>14, <1>15, <1>16 DEF IInv

\* A step that leaves the events in the ring, the channels and the clients alone
\* only has to look after the wake-up.
LEMMA SignalStep ==
  ASSUME IInv, UNCHANGED <<born, sent, lost, subVars>>,
         ring' \in Seq(Records), Len(ring') = Len(ring),
         \A k \in 1..Len(ring) : ring'[k].event = ring[k].event,
         drain' \in {"draining", "handling", "waiting"}, ready' \in BOOLEAN,
         drain' = "handling" => HasNext', NoLostWakeup'
  PROVE  IInv'
<1>1. UNCHANGED <<sub, cursor, got, since, lagged>>
  BY DEF subVars
<1>2. TypeOK'
  <2>1. \A k \in 1..Len(ring') : ring'[k] \in [event : 1..Len(born), committed : BOOLEAN]
    <3>1. \A k \in 1..Len(ring') : ring'[k] \in Records
      BY ElementOfSeq
    <3>2. \A k \in 1..Len(ring') : ring'[k].event \in 1..Len(born)
      BY DEF IInv, TypeOK
    <3>3. QED
      BY <3>1, <3>2 DEF Records
  <2>2. \A k, l \in 1..Len(ring') : k < l => ring'[k].event < ring'[l].event
    BY DEF IInv, TypeOK
  <2>3. QED
    BY <1>1, <2>1, <2>2 DEF IInv, TypeOK
<1>3. Shapes' /\ Unsubscribed'
  BY <1>1 DEF IInv, Shapes, Unsubscribed
<1>4. ChannelOrder'
  BY DEF IInv, ChannelOrder
<1>5. GotOrder'
  BY <1>1 DEF IInv, GotOrder
<1>6. Ordered'
  BY <1>1 DEF IInv, Ordered
<1>7. Accounted'
  <2>1. \A n : InRing(n)' <=> InRing(n)
    BY DEF InRing
  <2>2. QED
    BY <1>1, <2>1 DEF IInv, Accounted, Owed, Received, NotYetRead
<1>8. QED
  BY <1>2, <1>3, <1>4, <1>5, <1>6, <1>7 DEF IInv

\* So does a commit: the record the consumer has come to wakes it.
LEMMA CommitStep ==
  ASSUME IInv, NEW i \in 1..Len(ring), Commit(i)
  PROVE  IInv'
<1>1. ring \in Seq(Records) /\ ring[i] \in Records
  BY ElementOfSeq DEF IInv, Shapes
<1> DEFINE r == [ring[i] EXCEPT !.committed = TRUE]
<1>2. r \in Records /\ r.event = ring[i].event /\ ring' = [ring EXCEPT ![i] = r]
  BY <1>1 DEF Commit, Records
<1> HIDE DEF r
<1>3. /\ ring' \in Seq(Records) /\ Len(ring') = Len(ring)
      /\ \A k \in 1..Len(ring) : ring'[k] = IF k = i THEN r ELSE ring[k]
  BY <1>1, <1>2, ExceptSeq
<1>4. \A k \in 1..Len(ring) : ring'[k].event = ring[k].event
  BY <1>2, <1>3
<1>5. HasNext' <=> 1 \in 1..Len(ring) /\ ring'[1].committed
  BY <1>3, FirstRecord DEF HasNext
<1>6. HasNext <=> 1 \in 1..Len(ring) /\ ring[1].committed
  BY <1>1, FirstRecord DEF HasNext
<1>7. i # 1 => (HasNext' <=> HasNext)
  BY <1>3, <1>5, <1>6
<1>8. drain = "handling" => HasNext /\ i # 1
  BY <1>6 DEF IInv, TypeOK, Commit
<1>9. drain' = "handling" => HasNext'
  BY <1>7, <1>8 DEF Commit
<1>10. NoLostWakeup'
  BY <1>7 DEF IInv, NoLostWakeup, Commit
<1>11. drain' \in {"draining", "handling", "waiting"} /\ ready' \in BOOLEAN
  BY DEF IInv, TypeOK, Commit
<1>12. QED
  BY <1>3, <1>4, <1>9, <1>10, <1>11, SignalStep DEF Commit

\* So does the drain task finding a record, finding none, or being woken: it
\* goes to sleep only on a ring without one.
LEMMA TurnStep ==
  ASSUME IInv, Take \/ Sleep \/ Wake
  PROVE  IInv'
<1>1. UNCHANGED <<born, ring, sent, lost, subVars>>
  BY DEF Take, Sleep, Wake
<1>2. HasNext' <=> HasNext
  BY <1>1 DEF HasNext
<1>3. drain' = "handling" => HasNext'
  BY <1>2 DEF Take, Sleep, Wake
<1>4. NoLostWakeup'
  BY <1>2 DEF NoLostWakeup, Take, Sleep, Wake
<1>5. drain' \in {"draining", "handling", "waiting"} /\ ready' \in BOOLEAN
  BY DEF IInv, TypeOK, Take, Sleep, Wake
<1>6. ring' \in Seq(Records)
  BY <1>1 DEF IInv, Shapes
<1>7. QED
  BY <1>1, <1>3, <1>4, <1>5, <1>6, SignalStep

\* What handling a record does: the ring loses its first, and the channel of its
\* process, if somebody is subscribed, gets its event.
LEMMA HandleEffect ==
  ASSUME IInv, Handle
  PROVE  /\ 1 \in 1..Len(ring)
         /\ ring' \in Seq(Records) /\ Len(ring') = Len(ring) - 1
         /\ \A k \in 1..Len(ring') : k + 1 \in 1..Len(ring) /\ ring'[k] = ring[k + 1]
         /\ sent' = Forwarded(ring[1].event)
         /\ ring[1].event \in 1..Len(born)
         /\ drain' = "draining"
         /\ UNCHANGED <<born, ready, lost, sub, cursor, got, since, lagged>>
<1>1. ring \in Seq(Records) /\ Len(ring) \in Nat
  BY Lengths DEF IInv, Shapes
<1>2. ring # <<>>
  BY DEF IInv, TypeOK, Handle, HasNext
<1>3. Len(ring) # 0
  BY <1>1, <1>2, EmptySeq
<1>4. /\ ring' \in Seq(Records) /\ Len(ring') = Len(ring) - 1
      /\ \A k \in 1..Len(ring') : ring'[k] = ring[k + 1]
  BY <1>1, <1>2, HeadTailProperties DEF Handle
<1>5. \A k \in 1..Len(ring') : k + 1 \in 1..Len(ring)
  BY <1>1, <1>4
<1>6. Head(ring) = ring[1]
  OBVIOUS
<1>7. 1 \in 1..Len(ring)
  BY <1>1, <1>3
<1>8. ring[1].event \in 1..Len(born)
  BY <1>7 DEF IInv, TypeOK
<1>9. QED
  BY <1>4, <1>5, <1>6, <1>7, <1>8 DEF Handle, AfterHandling, subVars

\* What forwarding an event n does to one channel.
LEMMA ForwardedChannel ==
  ASSUME IInv, NEW n \in 1..Len(born), NEW p \in Pids, sent' = Forwarded(n)
  PROVE  /\ sent'[p] \in Seq(1..Len(born))
         /\ Len(sent'[p]) \in Nat /\ Len(sent[p]) <= Len(sent'[p])
         /\ \A i \in 1..Len(sent[p]) : i \in 1..Len(sent'[p]) /\ sent'[p][i] = sent[p][i]
         /\ \A i \in 1..Len(sent'[p]) :
              i \in 1..Len(sent[p]) \/ (i = Len(sent[p]) + 1 /\ sent'[p][i] = n /\ born[n] = p)
         /\ p = born[n] /\ Subscribers(p) # {} =>
              Len(sent[p]) + 1 \in 1..Len(sent'[p]) /\ sent'[p][Len(sent[p]) + 1] = n
<1>1. sent[p] \in Seq(1..Len(born)) /\ Len(sent[p]) \in Nat
  BY Lengths DEF IInv, TypeOK
<1>2. CASE p = born[n] /\ Subscribers(p) # {}
  <2>1. sent'[p] = Append(sent[p], n)
    BY <1>2 DEF Forwarded
  <2>2. /\ sent'[p] \in Seq(1..Len(born)) /\ Len(sent'[p]) = Len(sent[p]) + 1
        /\ \A i \in 1..Len(sent[p]) : sent'[p][i] = sent[p][i]
        /\ sent'[p][Len(sent[p]) + 1] = n
    BY <1>1, <2>1, AppendProperties
  <2>3. /\ \A i \in 1..Len(sent[p]) : i \in 1..Len(sent'[p])
        /\ \A i \in 1..Len(sent'[p]) : i \in 1..Len(sent[p]) \/ i = Len(sent[p]) + 1
        /\ Len(sent[p]) + 1 \in 1..Len(sent'[p])
    <3>1. Len(sent[p]) \in Nat /\ Len(sent'[p]) = Len(sent[p]) + 1
      BY <1>1, <2>2
    <3>2. QED
      BY <3>1
  <2>4. Len(sent'[p]) \in Nat /\ Len(sent[p]) <= Len(sent'[p])
    BY <1>1, <2>2
  <2>5. QED
    BY <1>2, <2>2, <2>3, <2>4
<1>3. CASE ~(p = born[n] /\ Subscribers(p) # {})
  <2>1. sent'[p] = sent[p]
    BY <1>3 DEF Forwarded
  <2>2. QED
    BY <1>1, <1>3, <2>1
<1>4. QED
  BY <1>2, <1>3

\* So does handling a record: its event is younger than what its channel has
\* carried and older than what stays in the ring.
LEMMA HandleStep ==
  ASSUME IInv, Handle
  PROVE  IInv'
<1>1. /\ 1 \in 1..Len(ring)
      /\ ring' \in Seq(Records) /\ Len(ring') = Len(ring) - 1
      /\ \A k \in 1..Len(ring') : k + 1 \in 1..Len(ring) /\ ring'[k] = ring[k + 1]
      /\ sent' = Forwarded(ring[1].event)
      /\ ring[1].event \in 1..Len(born)
      /\ drain' = "draining"
      /\ UNCHANGED <<born, ready, lost, sub, cursor, got, since, lagged>>
  BY HandleEffect
<1>2. PICK n \in 1..Len(born) : n = ring[1].event /\ sent' = Forwarded(n)
  BY <1>1
<1>3. /\ Len(born) \in Nat /\ Len(ring) \in Nat
      /\ \A q \in Pids : Len(sent[q]) \in Nat
      /\ \A c \in Clients : Len(got[c]) \in Nat
  BY Lengths
<1>4. \A p \in Pids :
         /\ sent'[p] \in Seq(1..Len(born))
         /\ Len(sent'[p]) \in Nat /\ Len(sent[p]) <= Len(sent'[p])
         /\ \A i \in 1..Len(sent[p]) : i \in 1..Len(sent'[p]) /\ sent'[p][i] = sent[p][i]
         /\ \A i \in 1..Len(sent'[p]) :
              i \in 1..Len(sent[p]) \/ (i = Len(sent[p]) + 1 /\ sent'[p][i] = n /\ born[n] = p)
         /\ p = born[n] /\ Subscribers(p) # {} =>
              Len(sent[p]) + 1 \in 1..Len(sent'[p]) /\ sent'[p][Len(sent[p]) + 1] = n
  <2>1. TAKE p \in Pids
  <2>2. QED
    BY <1>2, ForwardedChannel
<1>5. \A k \in 1..Len(ring') : /\ ring'[k].event \in 1..Len(born)
                               /\ ring'[k].event > n
                               /\ \A l \in 1..Len(ring') : k < l => ring'[k].event < ring'[l].event
  <2>1. \A k, l \in 1..Len(ring) : k < l => ring[k].event < ring[l].event
    BY DEF IInv, TypeOK
  <2>2. \A k \in 1..Len(ring) : ring[k].event \in 1..Len(born)
    BY DEF IInv, TypeOK
  <2>3. \A k \in 1..Len(ring') : 1 < k + 1
    BY <1>1, <1>3
  <2>4. \A k, l \in 1..Len(ring') : k < l => k + 1 < l + 1
    BY <1>1, <1>3
  <2>5. \A k \in 1..Len(ring') : ring[k + 1].event > ring[1].event
    BY <1>1, <1>2, <2>1, <2>2, <2>3
  <2>6. QED
    BY <1>1, <1>2, <2>1, <2>2, <2>4, <2>5
<1>6. TypeOK'
  <2>1. \A k \in 1..Len(ring') : ring'[k] \in [event : 1..Len(born), committed : BOOLEAN]
    BY <1>1 DEF IInv, TypeOK
  <2>2. \A c \in Clients : sub[c] # None => cursor[c] <= Len(sent'[sub[c]])
    <3> SUFFICES ASSUME NEW c \in Clients, sub[c] # None
                 PROVE  cursor[c] <= Len(sent'[sub[c]])
      OBVIOUS
    <3>1. sub[c] \in Pids /\ cursor[c] \in Nat /\ cursor[c] <= Len(sent[sub[c]])
      BY DEF IInv, TypeOK, Shapes
    <3>2. QED
      BY <1>3, <1>4, <3>1
  <2>3. Len(ring') <= RingCap
    BY <1>1, <1>3, LimitAssumption DEF IInv, TypeOK
  <2>4. \A k, l \in 1..Len(ring') : k < l => ring'[k].event < ring'[l].event
    BY <1>5
  <2>5. \A p \in Pids : sent'[p] \in Seq(1..Len(born))
    BY <1>4
  <2>6. QED
    BY <1>1, <2>1, <2>2, <2>3, <2>4, <2>5 DEF IInv, TypeOK
<1>7. Shapes'
  <2>1. 1..Len(born) \subseteq Nat
    BY <1>3
  <2>2. \A p \in Pids : sent'[p] \in Seq(Nat)
    BY <1>4, <2>1, SeqMonotonic
  <2>3. DOMAIN sent' = Pids /\ sent' = [p \in Pids |-> sent'[p]]
    BY <1>1 DEF Forwarded
  <2>4. QED
    BY <1>1, <2>2, <2>3 DEF IInv, Shapes
<1>8. Unsubscribed'
  BY <1>1 DEF IInv, Unsubscribed
<1>9. \A p \in Pids : \A i \in 1..Len(sent[p]) :
        /\ sent[p][i] \in 1..Len(born)
        /\ sent[p][i] < n
        /\ \A k \in 1..Len(ring') : sent[p][i] < ring'[k].event
  BY <1>1, <1>2 DEF IInv, ChannelOrder
<1>10. ChannelOrder'
  <2> SUFFICES ASSUME NEW p \in Pids, NEW i \in 1..Len(sent'[p])
               PROVE  /\ sent'[p][i] \in 1..Len(born)
                      /\ born[sent'[p][i]] = p
                      /\ i <= sent'[p][i]
                      /\ \A j \in 1..Len(sent'[p]) : i < j => sent'[p][i] < sent'[p][j]
                      /\ \A k \in 1..Len(ring') : sent'[p][i] < ring'[k].event
    BY <1>1 DEF ChannelOrder
  <2>1. CASE i \in 1..Len(sent[p])
    <3>1. /\ sent[p][i] \in 1..Len(born)
          /\ born[sent[p][i]] = p
          /\ i <= sent[p][i]
          /\ \A j \in 1..Len(sent[p]) : i < j => sent[p][i] < sent[p][j]
      BY <2>1 DEF IInv, ChannelOrder
    <3>2. sent'[p][i] = sent[p][i]
      BY <1>4, <2>1
    <3>3. ASSUME NEW j \in 1..Len(sent'[p]), i < j
          PROVE  sent'[p][i] < sent'[p][j]
      <4>1. CASE j \in 1..Len(sent[p])
        <5>1. sent'[p][j] = sent[p][j]
          BY <1>4, <4>1
        <5>2. sent[p][i] < sent[p][j]
          BY <3>1, <3>3, <4>1, Zenon
        <5>3. QED
          BY <3>2, <5>1, <5>2
      <4>2. CASE sent'[p][j] = n
        BY <1>9, <2>1, <3>2, <4>2
      <4>3. QED
        BY <1>4, <4>1, <4>2
    <3>4. QED
      BY <1>9, <2>1, <3>1, <3>2, <3>3
  <2>2. CASE i = Len(sent[p]) + 1 /\ sent'[p][i] = n /\ born[n] = p
    <3>1. i <= n
      <4>1. CASE Len(sent[p]) = 0
        BY <2>2, <4>1, <1>3
      <4>2. CASE Len(sent[p]) # 0
        <5>1. Len(sent[p]) \in 1..Len(sent[p])
          BY <1>3, <4>2
        <5>2. Len(sent[p]) <= sent[p][Len(sent[p])]
          BY <5>1 DEF IInv, ChannelOrder
        <5>3. sent[p][Len(sent[p])] \in 1..Len(born) /\ sent[p][Len(sent[p])] < n
          BY <1>9, <5>1
        <5>4. QED
          BY <1>3, <2>2, <5>2, <5>3
      <4>3. QED
        BY <4>1, <4>2
    <3>2. \A j \in 1..Len(sent'[p]) : ~(i < j)
      <4>1. \A j \in 1..Len(sent'[p]) : j \in 1..Len(sent[p]) \/ j = Len(sent[p]) + 1
        BY <1>4
      <4>2. Len(sent[p]) \in Nat
        BY <1>3
      <4>3. QED
        BY <2>2, <4>1, <4>2
    <3>3. \A k \in 1..Len(ring') : n < ring'[k].event
      BY <1>3, <1>5
    <3>4. QED
      BY <2>2, <3>1, <3>2, <3>3
  <2>3. QED
    BY <1>4, <2>1, <2>2
<1>11. GotOrder'
  <2> SUFFICES ASSUME NEW c \in Clients, NEW i \in 1..Len(got[c])
               PROVE  /\ got[c][i] \in 1..Len(born)
                      /\ \A j \in cursor[c] + 1 .. Len(sent'[sub[c]]) : got[c][i] < sent'[sub[c]][j]
                      /\ \A k \in 1..Len(ring') : got[c][i] < ring'[k].event
    BY <1>1 DEF GotOrder
  <2>1. /\ got[c][i] \in 1..Len(born)
        /\ \A j \in cursor[c] + 1 .. Len(sent[sub[c]]) : got[c][i] < sent[sub[c]][j]
        /\ \A k \in 1..Len(ring) : got[c][i] < ring[k].event
    BY DEF IInv, GotOrder
  <2>2. sub[c] \in Pids
    <3>1. sub[c] # None
      <4>1. sub[c] = None => Len(got[c]) = 0
        BY EmptySeq DEF IInv, Unsubscribed
      <4>2. QED
        BY <4>1
    <3>2. QED
      BY <3>1 DEF IInv, TypeOK
  <2>3. cursor[c] \in Nat
    BY DEF IInv, Shapes
  <2>4. ASSUME NEW j \in cursor[c] + 1 .. Len(sent'[sub[c]])
        PROVE  got[c][i] < sent'[sub[c]][j]
    <3>1. j \in 1..Len(sent'[sub[c]])
      BY <2>3
    <3>2. CASE j \in 1..Len(sent[sub[c]])
      <4>1. j \in cursor[c] + 1 .. Len(sent[sub[c]])
        BY <2>3, <3>2
      <4>2. QED
        BY <1>4, <2>1, <2>2, <3>2, <4>1
    <3>3. CASE sent'[sub[c]][j] = n
      BY <1>1, <1>2, <2>1, <3>3
    <3>4. QED
      BY <1>4, <2>2, <3>1, <3>2, <3>3
  <2>5. \A k \in 1..Len(ring') : got[c][i] < ring'[k].event
    BY <1>1, <2>1
  <2>6. QED
    BY <2>1, <2>4, <2>5
<1>12. NoLostWakeup'
  BY <1>1 DEF NoLostWakeup
<1>13. Ordered'
  BY <1>1 DEF IInv, Ordered
<1>14. Accounted'
  <2> SUFFICES ASSUME NEW c \in Clients, sub[c] # None, c \notin lagged,
                      NEW m \in since[c] + 1 .. Len(born), Owed(c, m)
               PROVE  m \in lost \cup Received(c) \cup NotYetRead(c)' \/ InRing(m)'
    <3>1. \A c, m : (Owed(c, m)' <=> Owed(c, m)) /\ Received(c)' = Received(c)
      BY <1>1 DEF Owed, Received
    <3>2. QED
      BY <1>1, <3>1 DEF Accounted
  <2>1. m \in lost \cup Received(c) \cup NotYetRead(c) \/ InRing(m)
    BY DEF IInv, Accounted
  <2>2. sub[c] \in Pids /\ cursor[c] \in Nat /\ cursor[c] <= Len(sent[sub[c]])
    BY DEF IInv, TypeOK, Shapes
  <2>3. m \in NotYetRead(c) => m \in NotYetRead(c)'
    <3> PICK p \in Pids : p = sub[c]
      BY <2>2
    <3>1. /\ Len(sent[p]) \in Nat /\ Len(sent'[p]) \in Nat /\ Len(sent[p]) <= Len(sent'[p])
          /\ \A i \in 1..Len(sent[p]) : sent'[p][i] = sent[p][i]
      BY <1>3, <1>4
    <3>2. \A i \in cursor[c] + 1 .. Len(sent[p]) :
            i \in 1..Len(sent[p]) /\ i \in cursor[c] + 1 .. Len(sent'[p])
      BY <2>2, <3>1
    <3>3. \A i \in cursor[c] + 1 .. Len(sent[p]) : sent'[p][i] = sent[p][i]
      BY <3>1, <3>2
    <3>4. cursor' = cursor /\ sub' = sub
      BY <1>1
    <3>5. QED
      BY <3>2, <3>3, <3>4 DEF NotYetRead
  <2>4. CASE m = n
    <3>1. c \in Subscribers(born[n]) /\ sub[c] = born[n]
      BY <2>4 DEF Owed, Subscribers
    <3>2. /\ Len(sent[sub[c]]) + 1 \in 1..Len(sent'[sub[c]])
          /\ sent'[sub[c]][Len(sent[sub[c]]) + 1] = n
      BY <1>4, <2>2, <3>1
    <3>3. Len(sent[sub[c]]) + 1 \in cursor[c] + 1 .. Len(sent'[sub[c]])
      <4>1. Len(sent[sub[c]]) \in Nat /\ Len(sent'[sub[c]]) \in Nat
        BY <1>3, <1>4, <2>2
      <4>2. QED
        BY <2>2, <3>2, <4>1
    <3>4. QED
      BY <1>1, <2>4, <3>2, <3>3 DEF NotYetRead
  <2>5. CASE m # n /\ InRing(m)
    <3>1. PICK k \in 1..Len(ring) : ring[k].event = m
      BY <2>5 DEF InRing
    <3>2. k # 1
      BY <1>2, <2>5, <3>1
    <3>3. k - 1 \in 1..Len(ring') /\ (k - 1) + 1 = k
      BY <1>1, <1>3, <3>2
    <3>4. ring'[k - 1].event = m
      BY <1>1, <3>1, <3>3
    <3>5. QED
      BY <3>3, <3>4 DEF InRing
  <2>6. QED
    BY <2>1, <2>3, <2>4, <2>5
<1>15. QED
  BY <1>6, <1>7, <1>8, <1>10, <1>11, <1>12, <1>13, <1>14 DEF IInv

-----------------------------------------------------------------------------
\* So does a subscription: nothing has been received, and nothing that happened
\* before is owed.
LEMMA SubscribeStep ==
  ASSUME IInv, NEW c \in Clients, NEW p \in Pids, Subscribe(c, p)
  PROVE  IInv'
<1>1. /\ Len(born) \in Nat /\ Len(sent[p]) \in Nat /\ Len(sent[p]) <= MaxEvents
      /\ got[c] = <<>> /\ Len(got[c]) = 0
  <2>1. /\ Len(born) \in Nat /\ Len(sent[p]) \in Nat /\ Len(sent[p]) <= Len(born)
    BY Lengths, ChannelBound
  <2>2. Len(born) <= MaxEvents /\ got[c] = <<>>
    BY DEF IInv, TypeOK, Unsubscribed, Subscribe
  <2>3. QED
    BY <2>1, <2>2, LimitAssumption, EmptySeq
<1>2. /\ UNCHANGED <<born, ring, drain, ready, sent, lost, got, lagged>>
      /\ sub' = [sub EXCEPT ![c] = p]
      /\ cursor' = [cursor EXCEPT ![c] = Len(sent[p])]
      /\ since' = [since EXCEPT ![c] = Len(born)]
  BY DEF Subscribe
<1>3. /\ sub'[c] = p /\ cursor'[c] = Len(sent[p]) /\ since'[c] = Len(born)
      /\ \A d \in Clients : d # c =>
           sub'[d] = sub[d] /\ cursor'[d] = cursor[d] /\ since'[d] = since[d]
  BY <1>2 DEF IInv, TypeOK, Shapes
<1>4. HasNext' <=> HasNext
  BY <1>2 DEF HasNext
<1>5. TypeOK'
  <2>1. sub' \in [Clients -> Pids \cup {None}]
    BY <1>2 DEF IInv, TypeOK
  <2>2. \A d \in Clients : /\ cursor'[d] \in 0..MaxEvents
                           /\ since'[d] \in 0..Len(born)
                           /\ sub'[d] # None => cursor'[d] <= Len(sent[sub'[d]])
    <3>1. \A d \in Clients : /\ cursor[d] \in 0..MaxEvents
                             /\ since[d] \in 0..Len(born)
                             /\ sub[d] # None => cursor[d] <= Len(sent[sub[d]])
      BY DEF IInv, TypeOK
    <3>2. /\ cursor'[c] \in 0..MaxEvents /\ since'[c] \in 0..Len(born)
          /\ cursor'[c] <= Len(sent[sub'[c]])
      BY <1>1, <1>3, LimitAssumption
    <3>3. QED
      BY <1>3, <3>1, <3>2
  <2>3. QED
    BY <1>2, <1>4, <2>1, <2>2 DEF IInv, TypeOK
<1>6. Shapes'
  BY <1>1, <1>2 DEF IInv, Shapes
<1>7. Unsubscribed'
  BY <1>2, <1>3, NoneAssumption DEF IInv, Unsubscribed
<1>8. ChannelOrder'
  BY <1>2 DEF IInv, ChannelOrder
<1>9. GotOrder'
  BY <1>1, <1>2, <1>3 DEF IInv, GotOrder
<1>10. NoLostWakeup'
  BY <1>2, <1>4 DEF IInv, NoLostWakeup
<1>11. Ordered'
  BY <1>1, <1>2, <1>3 DEF IInv, Ordered
<1>12. Accounted'
  <2> SUFFICES ASSUME NEW d \in Clients, sub'[d] # None, d \notin lagged,
                      NEW m \in since'[d] + 1 .. Len(born), Owed(d, m)'
               PROVE  m \in lost \cup Received(d)' \cup NotYetRead(d)' \/ InRing(m)'
    BY <1>2 DEF Accounted
  <2>1. d # c
    BY <1>1, <1>3
  <2>2. /\ Owed(d, m) /\ Received(d)' = Received(d) /\ NotYetRead(d)' = NotYetRead(d)
        /\ InRing(m)' <=> InRing(m)
    BY <1>2, <1>3, <2>1 DEF Owed, Received, NotYetRead, InRing
  <2>3. QED
    BY <1>3, <2>1, <2>2 DEF IInv, Accounted
<1>13. QED
  BY <1>5, <1>6, <1>7, <1>8, <1>9, <1>10, <1>11, <1>12 DEF IInv

\* So does a departure: a channel goes only with its last receiver, so nobody
\* else loses what he has yet to read.
LEMMA LeaveStep ==
  ASSUME IInv, NEW c \in Clients, Leave(c)
  PROVE  IInv'
<1>1. /\ UNCHANGED <<born, ring, drain, ready, lost>>
      /\ sub' = [sub EXCEPT ![c] = None]
      /\ cursor' = [cursor EXCEPT ![c] = 0]
      /\ since' = [since EXCEPT ![c] = 0]
      /\ got' = [got EXCEPT ![c] = <<>>]
      /\ lagged' = lagged \ {c}
      /\ sent' = ChannelsWithout(c)
      /\ sub[c] \in Pids
  BY DEF IInv, TypeOK, Leave
<1>2. /\ sub'[c] = None /\ cursor'[c] = 0 /\ since'[c] = 0 /\ got'[c] = <<>>
      /\ \A d \in Clients : d # c => /\ sub'[d] = sub[d] /\ cursor'[d] = cursor[d]
                                     /\ since'[d] = since[d] /\ got'[d] = got[d]
  BY <1>1 DEF IInv, TypeOK, Shapes
<1>3. /\ Len(<<>>) = 0 /\ \A S : <<>> \in Seq(S)
      /\ Len(born) \in Nat
  BY EmptySeq, Lengths
<1>4. \A p \in Pids : sent'[p] = sent[p] \/ (sent'[p] = <<>> /\ p = sub[c] /\ Subscribers(p) = {c})
  BY <1>1 DEF IInv, Shapes, ChannelsWithout
<1>5. \A d \in Clients : d # c /\ sub[d] # None => sub[d] \in Pids /\ sent'[sub[d]] = sent[sub[d]]
  BY <1>4 DEF IInv, TypeOK, Subscribers
<1>6. HasNext' <=> HasNext
  BY <1>1 DEF HasNext
<1>7. TypeOK'
  <2>1. sub' \in [Clients -> Pids \cup {None}] /\ lagged' \subseteq Clients
    BY <1>1 DEF IInv, TypeOK
  <2>2. \A d \in Clients : /\ cursor'[d] \in 0..MaxEvents
                           /\ since'[d] \in 0..Len(born)
                           /\ sub'[d] # None => cursor'[d] <= Len(sent'[sub'[d]])
    <3>1. \A d \in Clients : /\ cursor[d] \in 0..MaxEvents
                             /\ since[d] \in 0..Len(born)
                             /\ sub[d] # None => cursor[d] <= Len(sent[sub[d]])
      BY DEF IInv, TypeOK
    <3>2. cursor'[c] \in 0..MaxEvents /\ since'[c] \in 0..Len(born) /\ sub'[c] = None
      BY <1>2, <1>3, LimitAssumption
    <3>3. QED
      BY <1>2, <1>5, <3>1, <3>2
  <2>3. \A p \in Pids : sent'[p] \in Seq(1..Len(born))
    BY <1>3, <1>4 DEF IInv, TypeOK
  <2>4. QED
    BY <1>1, <1>6, <2>1, <2>2, <2>3 DEF IInv, TypeOK
<1>8. Shapes'
  <2>1. sent' \in [Pids -> Seq(Nat)]
    BY <1>1, <1>3 DEF IInv, Shapes, ChannelsWithout
  <2>2. got' \in [Clients -> Seq(Nat)]
    BY <1>1, <1>3 DEF IInv, Shapes
  <2>3. QED
    BY <1>1, <2>1, <2>2 DEF IInv, Shapes
<1>9. Unsubscribed'
  BY <1>2 DEF IInv, Unsubscribed
<1>10. ChannelOrder'
  <2> SUFFICES ASSUME NEW p \in Pids, NEW i \in 1..Len(sent'[p])
               PROVE  /\ sent'[p][i] \in 1..Len(born)
                      /\ born[sent'[p][i]] = p
                      /\ i <= sent'[p][i]
                      /\ \A j \in 1..Len(sent'[p]) : i < j => sent'[p][i] < sent'[p][j]
                      /\ \A k \in 1..Len(ring) : sent'[p][i] < ring[k].event
    BY <1>1 DEF ChannelOrder
  <2>1. sent'[p] = sent[p]
    BY <1>3, <1>4
  <2>2. QED
    BY <2>1 DEF IInv, ChannelOrder
<1>11. \A d \in Clients : Len(got'[d]) # 0 => d # c /\ sub[d] # None
  <2>1. \A d \in Clients : sub[d] = None => Len(got[d]) = 0
    BY <1>3 DEF IInv, Unsubscribed
  <2>2. QED
    BY <1>2, <1>3, <2>1
<1>12. GotOrder'
  <2> SUFFICES ASSUME NEW d \in Clients, NEW i \in 1..Len(got'[d])
               PROVE  /\ got'[d][i] \in 1..Len(born)
                      /\ \A j \in cursor'[d] + 1 .. Len(sent'[sub'[d]]) : got'[d][i] < sent'[sub'[d]][j]
                      /\ \A k \in 1..Len(ring) : got'[d][i] < ring[k].event
    BY <1>1 DEF GotOrder
  <2>1. d # c /\ sub[d] # None
    BY <1>11
  <2>2. got'[d] = got[d] /\ cursor'[d] = cursor[d] /\ sent'[sub'[d]] = sent[sub[d]]
    BY <1>2, <1>5, <2>1
  <2>3. i \in 1..Len(got[d])
    BY <2>2
  <2>4. QED
    BY <2>2, <2>3 DEF IInv, GotOrder
<1>13. NoLostWakeup'
  BY <1>1, <1>6 DEF IInv, NoLostWakeup
<1>14. Ordered'
  <2>1. \A d \in Clients : d # c => got'[d] = got[d] /\ sub'[d] = sub[d]
    BY <1>2
  <2>2. Len(got'[c]) = 0
    BY <1>2, <1>3
  <2>3. QED
    BY <1>1, <2>1, <2>2 DEF IInv, Ordered
<1>15. Accounted'
  <2> SUFFICES ASSUME NEW d \in Clients, sub'[d] # None, d \notin lagged',
                      NEW m \in since'[d] + 1 .. Len(born), Owed(d, m)'
               PROVE  m \in lost \cup Received(d)' \cup NotYetRead(d)' \/ InRing(m)'
    BY <1>1 DEF Accounted
  <2>1. d # c /\ sub[d] # None /\ d \notin lagged
    BY <1>1, <1>2
  <2>2. /\ Owed(d, m) /\ Received(d)' = Received(d) /\ NotYetRead(d)' = NotYetRead(d)
        /\ InRing(m)' <=> InRing(m)
    BY <1>1, <1>2, <1>5, <2>1 DEF Owed, Received, NotYetRead, InRing
  <2>3. QED
    BY <1>2, <2>1, <2>2 DEF IInv, Accounted
<1>16. QED
  BY <1>7, <1>8, <1>9, <1>10, <1>12, <1>13, <1>14, <1>15 DEF IInv

\* So does a receipt: the next event is younger than all received before and
\* older than what is left.
LEMMA ReceiveStep ==
  ASSUME IInv, NEW c \in Clients, Receive(c)
  PROVE  IInv'
<1> DEFINE p == sub[c]
<1> DEFINE e == sent[p][cursor[c] + 1]
<1>1. /\ UNCHANGED <<born, ring, drain, ready, sent, lost, sub, since, lagged>>
      /\ cursor' = [cursor EXCEPT ![c] = @ + 1]
      /\ got' = [got EXCEPT ![c] = Append(@, e)]
      /\ p \in Pids
  BY DEF IInv, TypeOK, Receive
<1>2. /\ Len(born) \in Nat /\ cursor[c] \in Nat
      /\ Len(sent[p]) \in Nat /\ Len(sent[p]) <= Len(born) /\ Len(born) <= MaxEvents
      /\ cursor[c] + 1 \in 1..Len(sent[p])
      /\ got[c] \in Seq(Nat) /\ Len(got[c]) \in Nat
  <2>1. /\ Len(born) \in Nat /\ Len(sent[p]) \in Nat /\ Len(sent[p]) <= Len(born)
        /\ got[c] \in Seq(Nat) /\ Len(got[c]) \in Nat
    BY <1>1, Lengths, ChannelBound DEF IInv, Shapes
  <2>2. Len(born) <= MaxEvents /\ cursor[c] \in Nat
    BY DEF IInv, TypeOK, Shapes
  <2>3. Len(sent[p]) - cursor[c] \in 1..EventLimit
    BY DEF Receive, Unread
  <2>4. QED
    BY <2>1, <2>2, <2>3, LimitAssumption
<1>3. e \in 1..Len(born) /\ born[e] = p
  BY <1>1, <1>2 DEF IInv, ChannelOrder
<1>4. /\ \A j \in cursor[c] + 2 .. Len(sent[p]) : e < sent[p][j]
      /\ \A k \in 1..Len(ring) : e < ring[k].event
  <2>1. \A j \in cursor[c] + 2 .. Len(sent[p]) : j \in 1..Len(sent[p]) /\ cursor[c] + 1 < j
    BY <1>2
  <2>2. /\ \A j \in 1..Len(sent[p]) : cursor[c] + 1 < j => e < sent[p][j]
        /\ \A k \in 1..Len(ring) : e < ring[k].event
    BY <1>1, <1>2 DEF IInv, ChannelOrder
  <2>3. QED
    BY <2>1, <2>2
<1>5. \A i \in 1..Len(got[c]) : /\ got[c][i] < e
                                /\ \A j \in cursor[c] + 2 .. Len(sent[p]) : got[c][i] < sent[p][j]
  <2>1. cursor[c] + 1 \in cursor[c] + 1 .. Len(sent[p])
    BY <1>2
  <2>2. \A j \in cursor[c] + 2 .. Len(sent[p]) : j \in cursor[c] + 1 .. Len(sent[p])
    BY <1>2
  <2>3. QED
    BY <2>1, <2>2 DEF IInv, GotOrder
<1> HIDE DEF e
<1>6. /\ Len(got'[c]) = Len(got[c]) + 1
      /\ \A i \in 1..Len(got[c]) : got'[c][i] = got[c][i]
      /\ got'[c][Len(got[c]) + 1] = e
  <2>1. got'[c] = Append(got[c], e)
    BY <1>1 DEF IInv, Shapes
  <2>2. e \in Nat
    BY <1>2, <1>3
  <2>3. QED
    BY <1>2, <2>1, <2>2, AppendProperties
<1>7. \A i \in 1..Len(got'[c]) :
        i \in 1..Len(got[c]) \/ (i = Len(got[c]) + 1 /\ got'[c][i] = e)
  BY <1>2, <1>6
<1>8. /\ cursor'[c] = cursor[c] + 1
      /\ \A d \in Clients : d # c => cursor'[d] = cursor[d] /\ got'[d] = got[d]
  BY <1>1 DEF IInv, Shapes
<1>9. HasNext' <=> HasNext
  BY <1>1 DEF HasNext
<1>10. TypeOK'
  <2>1. \A d \in Clients : /\ cursor'[d] \in 0..MaxEvents
                           /\ sub[d] # None => cursor'[d] <= Len(sent[sub[d]])
    <3>1. \A d \in Clients : /\ cursor[d] \in 0..MaxEvents
                             /\ sub[d] # None => cursor[d] <= Len(sent[sub[d]])
      BY DEF IInv, TypeOK
    <3>2. cursor[c] + 1 \in 0..MaxEvents /\ cursor[c] + 1 <= Len(sent[p])
      BY <1>2, LimitAssumption
    <3>3. QED
      BY <1>8, <3>1, <3>2
  <2>2. QED
    BY <1>1, <1>9, <2>1 DEF IInv, TypeOK
<1>11. Shapes'
  <2>1. got'[c] \in Seq(Nat)
    BY <1>1, <1>2, <1>3, AppendProperties DEF IInv, Shapes
  <2>2. got' \in [Clients -> Seq(Nat)]
    BY <1>1, <2>1 DEF IInv, Shapes
  <2>3. QED
    BY <1>1, <2>2 DEF IInv, Shapes
<1>12. Unsubscribed'
  BY <1>1, <1>8, NoneAssumption DEF IInv, Unsubscribed
<1>13. ChannelOrder'
  BY <1>1 DEF IInv, ChannelOrder
<1>14. GotOrder'
  <2>1. ASSUME NEW i \in 1..Len(got'[c])
        PROVE  /\ got'[c][i] \in 1..Len(born)
               /\ \A j \in cursor[c] + 2 .. Len(sent[p]) : got'[c][i] < sent[p][j]
               /\ \A k \in 1..Len(ring) : got'[c][i] < ring[k].event
    <3>1. CASE i \in 1..Len(got[c])
      BY <1>5, <1>6, <3>1 DEF IInv, GotOrder
    <3>2. CASE got'[c][i] = e
      BY <1>3, <1>4, <3>2
    <3>3. QED
      BY <1>7, <3>1, <3>2
  <2>2. (cursor[c] + 1) + 1 = cursor[c] + 2
    BY <1>2
  <2>3. QED
    BY <1>1, <1>8, <2>1, <2>2 DEF IInv, GotOrder
<1>15. NoLostWakeup'
  BY <1>1, <1>9 DEF IInv, NoLostWakeup
<1>16. Ordered'
  <2>1. ASSUME NEW i \in 1..Len(got'[c])
        PROVE  born[got'[c][i]] = p
    <3>1. CASE i \in 1..Len(got[c])
      BY <1>6, <3>1 DEF IInv, Ordered
    <3>2. CASE got'[c][i] = e
      BY <1>3, <3>2
    <3>3. QED
      BY <1>7, <3>1, <3>2
  <2>2. \A i, j \in 1..Len(got'[c]) : i < j => got'[c][i] < got'[c][j]
    <3>1. got'[c] = Append(got[c], e) /\ got[c] \in Seq(Nat)
      BY <1>1 DEF IInv, Shapes
    <3>2. \A i, j \in 1..Len(got[c]) : i < j => got[c][i] < got[c][j]
      BY DEF IInv, Ordered
    <3>3. e \in Nat
      BY <1>2, <1>3
    <3>4. QED
      BY <1>5, <3>1, <3>2, <3>3, AppendIncreasing
  <2>3. QED
    BY <1>1, <1>8, <2>1, <2>2 DEF IInv, Ordered
<1>17. Accounted'
  <2> SUFFICES ASSUME NEW d \in Clients, sub[d] # None, d \notin lagged,
                      NEW m \in since[d] + 1 .. Len(born), Owed(d, m)
               PROVE  m \in lost \cup Received(d)' \cup NotYetRead(d)' \/ InRing(m)'
    <3>1. \A d, m : Owed(d, m)' <=> Owed(d, m)
      BY <1>1 DEF Owed
    <3>2. QED
      BY <1>1, <3>1 DEF Accounted
  <2>1. m \in lost \cup Received(d) \cup NotYetRead(d) \/ InRing(m)
    BY DEF IInv, Accounted
  <2>2. InRing(m)' <=> InRing(m)
    BY <1>1 DEF InRing
  <2>3. CASE d # c
    <3>1. Received(d)' = Received(d) /\ NotYetRead(d)' = NotYetRead(d)
      BY <1>1, <1>8, <2>3 DEF Received, NotYetRead
    <3>2. QED
      BY <2>1, <2>2, <3>1
  <2>4. CASE d = c
    <3>1. Received(c) \subseteq Received(c)' /\ e \in Received(c)'
      <4>1. \A i \in 1..Len(got[c]) : i \in 1..Len(got'[c])
        BY <1>2, <1>6
      <4>2. Len(got[c]) + 1 \in 1..Len(got'[c])
        BY <1>2, <1>6
      <4>3. QED
        BY <1>6, <4>1, <4>2 DEF Received
    <3>2. NotYetRead(c) \subseteq NotYetRead(c)' \cup {e}
      <4>1. \A i \in cursor[c] + 1 .. Len(sent[p]) :
              i = cursor[c] + 1 \/ i \in (cursor[c] + 1) + 1 .. Len(sent[p])
        BY <1>2
      <4>2. QED
        BY <1>1, <1>8, <4>1 DEF NotYetRead, e
    <3>3. QED
      BY <2>1, <2>2, <2>4, <3>1, <3>2
  <2>5. QED
    BY <2>3, <2>4
<1>18. QED
  BY <1>10, <1>11, <1>12, <1>13, <1>14, <1>15, <1>16, <1>17 DEF IInv

\* So does falling behind: what is skipped is older than what is left, and the
\* client is known to have missed events.
LEMMA LagStep ==
  ASSUME IInv, NEW c \in Clients, Lag(c)
  PROVE  IInv'
<1> DEFINE p == sub[c]
<1>1. /\ UNCHANGED <<born, ring, drain, ready, sent, lost, sub, got, since>>
      /\ cursor' = [cursor EXCEPT ![c] = OldestKept(c)]
      /\ lagged' = lagged \cup {c}
      /\ p \in Pids
  BY DEF IInv, TypeOK, Lag
<1>2. /\ Len(born) \in Nat /\ cursor[c] \in Nat
      /\ Len(sent[p]) \in Nat /\ Len(sent[p]) <= Len(born) /\ Len(born) <= MaxEvents
      /\ OldestKept(c) \in Nat /\ OldestKept(c) <= Len(sent[p]) /\ cursor[c] <= OldestKept(c)
  <2>1. Len(born) \in Nat /\ Len(sent[p]) \in Nat /\ Len(sent[p]) <= Len(born)
    BY <1>1, Lengths, ChannelBound
  <2>2. Len(born) <= MaxEvents /\ cursor[c] \in Nat
    BY DEF IInv, TypeOK, Shapes
  <2>3. Len(sent[p]) - cursor[c] > EventLimit /\ OldestKept(c) = Len(sent[p]) - EventLimit
    BY DEF Lag, Unread, OldestKept
  <2>4. QED
    BY <2>1, <2>2, <2>3, LimitAssumption
<1>3. cursor'[c] = OldestKept(c) /\ \A d \in Clients : d # c => cursor'[d] = cursor[d]
  BY <1>1 DEF IInv, Shapes
<1>4. HasNext' <=> HasNext
  BY <1>1 DEF HasNext
<1>5. TypeOK'
  <2>1. ASSUME NEW d \in Clients
        PROVE  /\ cursor'[d] \in 0..MaxEvents
               /\ sub[d] # None => cursor'[d] <= Len(sent[sub[d]])
    <3>1. CASE d = c
      <4>1. OldestKept(c) <= MaxEvents
        BY <1>2, LimitAssumption
      <4>2. QED
        BY <1>2, <1>3, <3>1, <4>1, LimitAssumption
    <3>2. CASE d # c
      BY <1>3, <3>2 DEF IInv, TypeOK
    <3>3. QED
      BY <3>1, <3>2
  <2>2. QED
    BY <1>1, <1>4, <2>1 DEF IInv, TypeOK
<1>6. Shapes'
  BY <1>1, <1>2 DEF IInv, Shapes
<1>7. Unsubscribed'
  BY <1>1, <1>3, NoneAssumption DEF IInv, Unsubscribed
<1>8. ChannelOrder'
  BY <1>1 DEF IInv, ChannelOrder
<1>9. GotOrder'
  <2>1. \A j \in OldestKept(c) + 1 .. Len(sent[p]) : j \in cursor[c] + 1 .. Len(sent[p])
    BY <1>2
  <2>2. QED
    BY <1>1, <1>3, <2>1 DEF IInv, GotOrder
<1>10. NoLostWakeup'
  BY <1>1, <1>4 DEF IInv, NoLostWakeup
<1>11. Ordered'
  BY <1>1 DEF IInv, Ordered
<1>12. Accounted'
  <2> SUFFICES ASSUME NEW d \in Clients, sub[d] # None, d \notin lagged, d # c,
                      NEW m \in since[d] + 1 .. Len(born), Owed(d, m)
               PROVE  m \in lost \cup Received(d)' \cup NotYetRead(d)' \/ InRing(m)'
    <3>1. \A d, m : Owed(d, m)' <=> Owed(d, m)
      BY <1>1 DEF Owed
    <3>2. QED
      BY <1>1, <3>1 DEF Accounted
  <2>1. /\ Received(d)' = Received(d) /\ NotYetRead(d)' = NotYetRead(d)
        /\ InRing(m)' <=> InRing(m)
    BY <1>1, <1>3 DEF Received, NotYetRead, InRing
  <2>2. QED
    BY <2>1 DEF IInv, Accounted
<1>13. QED
  BY <1>5, <1>6, <1>7, <1>8, <1>9, <1>10, <1>11, <1>12 DEF IInv

-----------------------------------------------------------------------------
\* The invariant holds in every reachable state, whatever programs commit first
\* and whoever comes, goes or reads slowly.
THEOREM Invariance == Spec => []IInv
<1>1. Init => IInv
  BY InitIInv
<1>2. IInv /\ [Next]_vars => IInv'
  <2> SUFFICES ASSUME IInv, [Next]_vars PROVE IInv'
    OBVIOUS
  <2>1. CASE Kernel
    BY <2>1, ReserveStep, CommitStep DEF Kernel
  <2>2. CASE Drain
    BY <2>2, TurnStep, HandleStep DEF Drain
  <2>3. ASSUME NEW c \in Clients, Client(c) PROVE IInv'
    BY <2>3, SubscribeStep, LeaveStep, ReceiveStep, LagStep DEF Client
  <2>4. CASE UNCHANGED vars
    <3>1. UNCHANGED <<born, ring, drain, ready, sent, lost, subVars>>
      BY <2>4 DEF vars
    <3>2. (HasNext' <=> HasNext) /\ ring' \in Seq(Records) /\ NoLostWakeup'
      BY <3>1 DEF IInv, Shapes, HasNext, NoLostWakeup
    <3>3. /\ drain' \in {"draining", "handling", "waiting"} /\ ready' \in BOOLEAN
          /\ drain' = "handling" => HasNext'
      BY <3>1, <3>2 DEF IInv, TypeOK
    <3>4. QED
      BY <3>1, <3>2, <3>3, SignalStep
  <2>5. QED
    BY <2>1, <2>2, <2>3, <2>4 DEF Next
<1>3. QED
  BY <1>1, <1>2, PTL DEF Spec

\* Records keep their order and receivers stay within their channels.
THEOREM TypeCorrect == Spec => []TypeOK
BY Invariance, PTL DEF IInv

\* The drain task never sleeps on a record it could take.
THEOREM NoWakeupLost == Spec => []NoLostWakeup
BY Invariance, PTL DEF IInv

\* A client receives the events of its process, each once and in order.
THEOREM InOrder == Spec => []Ordered
BY Invariance, PTL DEF IInv

\* A client that has not lagged has every event of its process since it
\* subscribed, or it is on its way, or the ring was full.
THEOREM NothingElseLost == Spec => []Accounted
BY Invariance, PTL DEF IInv
=============================================================================
