---------------------------- MODULE EventDelivery ----------------------------
(***************************************************************************)
(* The way of an event: a BPF program reserves a record in the ring buffer *)
(* (or loses the event when there is no room), fills and commits it; the   *)
(* drain task (src/ringbuf.rs) takes records in order until it finds none, *)
(* then sleeps until the kernel signals; each event is forwarded           *)
(* (src/stream.rs) to the broadcast channel of its PID; each receiver      *)
(* reads at its own pace and skips what was overwritten meanwhile.         *)
(*                                                                         *)
(* Subscribing and leaving are single steps here; StreamRegistry takes     *)
(* them apart.  The ring buffer, the readiness of its descriptor and the   *)
(* broadcast channel belong to the kernel and to tokio.                    *)
(***************************************************************************)
EXTENDS Integers, Sequences, FiniteSets

CONSTANTS
  Pids,        \* monitored processes
  Clients,     \* subscribers
  None,        \* not subscribed
  RingCap,     \* records the ring buffer holds
  EventLimit,  \* events a broadcast channel holds (event_limit, at least 1,
               \* rounded up to a power of two by tokio)
  MaxEvents    \* bound on the events the kernel produces

ASSUME NoneAssumption == None \notin Pids
ASSUME LimitAssumption ==
  EventLimit \in Nat \ {0} /\ RingCap \in Nat /\ MaxEvents \in Nat

VARIABLES
  born,    \* PIDs of the events so far, in the order of their reservation
  ring,    \* records of the ring buffer: event number and whether committed
  drain,   \* the drain task: draining, handling a record, waiting
  ready,   \* the descriptor is ready (a signal not yet taken)
  sent,    \* per PID: the events its channel has carried
  lost,    \* history: events for which the ring had no room
  sub,     \* the PID a client is subscribed to, or None
  cursor,  \* events of its channel a receiver has passed
  got,     \* events a client has received
  since,   \* history: events born before the client subscribed
  lagged   \* history: clients that have missed events

subVars == <<sub, cursor, got, since, lagged>>
vars == <<born, ring, drain, ready, sent, lost, subVars>>

Init ==
  /\ born = <<>>
  /\ ring = <<>>
  /\ drain = "draining"
  /\ ready = FALSE
  /\ sent = [p \in Pids |-> <<>>]
  /\ lost = {}
  /\ sub = [c \in Clients |-> None]
  /\ cursor = [c \in Clients |-> 0]
  /\ got = [c \in Clients |-> <<>>]
  /\ since = [c \in Clients |-> 0]
  /\ lagged = {}

Subscribers(p) == {c \in Clients : sub[c] = p}

-----------------------------------------------------------------------------
(* The kernel.                                                             *)

\* bpf_ringbuf_reserve for an event of a traced process; without room the
\* event is dropped and nobody is told.
Reserve(p) ==
  /\ Len(born) < MaxEvents
  /\ Subscribers(p) # {}
  /\ born' = Append(born, p)
  /\ \/ /\ Len(ring) < RingCap
        /\ ring' = Append(ring, [event |-> Len(born) + 1, committed |-> FALSE])
        /\ UNCHANGED lost
     \/ /\ Len(ring) = RingCap
        /\ lost' = lost \cup {Len(born) + 1}
        /\ UNCHANGED ring
  /\ UNCHANGED <<drain, ready, sent, subVars>>

\* bpf_ringbuf_submit: programs on several CPUs finish in any order.  The
\* consumer is signalled only when it has come as far as this record.
Commit(i) ==
  /\ ~ring[i].committed
  /\ ring' = [ring EXCEPT ![i].committed = TRUE]
  /\ ready' = (ready \/ i = 1)
  /\ UNCHANGED <<born, drain, sent, lost, subVars>>

-----------------------------------------------------------------------------
(* The drain task.                                                         *)

HasNext == ring # <<>> /\ Head(ring).committed

\* RingBuf::next returns a record.
Take ==
  /\ drain = "draining"
  /\ HasNext
  /\ drain' = "handling"
  /\ UNCHANGED <<born, ring, ready, sent, lost, subVars>>

\* Mutant: one record per wake-up.
AfterHandling_Waits == "waiting"

\* The inner loop goes on until there is nothing to take.
AfterHandling == "draining"

\* Mutant: an event goes to every channel.
Forwarded_ToAll(n) == [p \in Pids |-> Append(sent[p], n)]

\* StreamRegistry::forward: the channel of the event's PID carries it; without
\* subscribers it is dropped.
Forwarded(n) ==
  [p \in Pids |-> IF p = born[n] /\ Subscribers(p) # {} THEN Append(sent[p], n) ELSE sent[p]]

\* handle_sample; then the record is given back to the kernel.
Handle ==
  /\ drain = "handling"
  /\ sent' = Forwarded(Head(ring).event)
  /\ ring' = Tail(ring)
  /\ drain' = AfterHandling
  /\ UNCHANGED <<born, ready, lost, subVars>>

\* RingBuf::next returns None: wait for readiness.
Sleep ==
  /\ drain = "draining"
  /\ ~HasNext
  /\ drain' = "waiting"
  /\ UNCHANGED <<born, ring, ready, sent, lost, subVars>>

\* readable() returns, clear_ready.
Wake ==
  /\ drain = "waiting"
  /\ ready
  /\ ready' = FALSE
  /\ drain' = "draining"
  /\ UNCHANGED <<born, ring, sent, lost, subVars>>

-----------------------------------------------------------------------------
(* The subscribers.                                                        *)

\* A new receiver starts at the channel's end.
Subscribe(c, p) ==
  /\ sub[c] = None
  /\ sub' = [sub EXCEPT ![c] = p]
  /\ cursor' = [cursor EXCEPT ![c] = Len(sent[p])]
  /\ since' = [since EXCEPT ![c] = Len(born)]
  /\ UNCHANGED <<born, ring, drain, ready, sent, lost, got, lagged>>

\* Mutant: whoever leaves takes the channel away.
ChannelsWithout_Anyone(c) == [sent EXCEPT ![sub[c]] = <<>>]

\* SubscriptionGuard::drop: the last to leave takes the channel away.
ChannelsWithout(c) ==
  IF Subscribers(sub[c]) = {c} THEN [sent EXCEPT ![sub[c]] = <<>>] ELSE sent

Leave(c) ==
  /\ sub[c] # None
  /\ sub' = [sub EXCEPT ![c] = None]
  /\ cursor' = [cursor EXCEPT ![c] = 0]
  /\ since' = [since EXCEPT ![c] = 0]
  /\ got' = [got EXCEPT ![c] = <<>>]
  /\ lagged' = lagged \ {c}
  /\ sent' = ChannelsWithout(c)
  /\ UNCHANGED <<born, ring, drain, ready, lost>>

Unread(c) == Len(sent[sub[c]]) - cursor[c]

\* The receiver returns its next event.
Receive(c) ==
  /\ sub[c] # None
  /\ Unread(c) \in 1..EventLimit
  /\ cursor' = [cursor EXCEPT ![c] = @ + 1]
  /\ got' = [got EXCEPT ![c] = Append(@, sent[sub[c]][cursor[c] + 1])]
  /\ UNCHANGED <<born, ring, drain, ready, sent, lost, sub, since, lagged>>

\* The events before the oldest one the channel still holds.
OldestKept(c) == Len(sent[sub[c]]) - EventLimit

\* The receiver was overtaken: it is told so, and goes on with what is left.
\* Both handlers skip the notice.
Lag(c) ==
  /\ sub[c] # None
  /\ Unread(c) > EventLimit
  /\ cursor' = [cursor EXCEPT ![c] = OldestKept(c)]
  /\ lagged' = lagged \cup {c}
  /\ UNCHANGED <<born, ring, drain, ready, sent, lost, sub, got, since>>

-----------------------------------------------------------------------------
Kernel == (\E p \in Pids : Reserve(p)) \/ (\E i \in 1..Len(ring) : Commit(i))

Drain == Take \/ Handle \/ Sleep \/ Wake

Client(c) == (\E p \in Pids : Subscribe(c, p)) \/ Leave(c) \/ Receive(c) \/ Lag(c)

Next == Kernel \/ Drain \/ \E c \in Clients : Client(c)

Spec == Init /\ [][Next]_vars

\* A BPF program ends with its commit, the drain task is scheduled, and a
\* client's task reads.
Fairness ==
  /\ WF_vars(\E i \in 1..Len(ring) : Commit(i))
  /\ WF_vars(Drain)
  /\ \A c \in Clients : WF_vars(Receive(c) \/ Lag(c))

FairSpec == Spec /\ Fairness
-----------------------------------------------------------------------------
(* Properties.                                                             *)

InRing(n) == \E i \in 1..Len(ring) : ring[i].event = n

Received(c) == { got[c][i] : i \in 1..Len(got[c]) }

NotYetRead(c) == { sent[sub[c]][i] : i \in cursor[c] + 1 .. Len(sent[sub[c]]) }

\* Event n is of the process c is subscribed to.
Owed(c, n) == n \in 1..Len(born) /\ sub[c] = born[n]

\* State has its shape; the ring holds its records in the order of their
\* reservation, only the drain task's current record is being handled, and a
\* receiver is never ahead of its channel.
TypeOK ==
  /\ born \in Seq(Pids) /\ Len(born) <= MaxEvents
  /\ Len(ring) <= RingCap
  /\ \A i \in 1..Len(ring) : ring[i] \in [event : 1..Len(born), committed : BOOLEAN]
  /\ \A i, j \in 1..Len(ring) : i < j => ring[i].event < ring[j].event
  /\ drain \in {"draining", "handling", "waiting"}
  /\ drain = "handling" => HasNext
  /\ ready \in BOOLEAN
  /\ sub \in [Clients -> Pids \cup {None}]
  /\ lagged \subseteq Clients
  /\ lost \subseteq 1..Len(born)
  /\ \A p \in Pids : sent[p] \in Seq(1..Len(born))
  /\ \A c \in Clients : /\ cursor[c] \in 0..MaxEvents
                        /\ since[c] \in 0..Len(born)
                        /\ sub[c] # None => cursor[c] <= Len(sent[sub[c]])

\* The drain task does not sleep on data: while it waits and a record can be
\* taken, the descriptor is ready.  The loop of ringbuf.rs:48-57 drains until
\* None before it waits, and the kernel signals only for the record the
\* consumer has come to, so a task that waited earlier would miss the rest.
NoLostWakeup == drain = "waiting" /\ HasNext => ready

\* A client receives events of the process it asked for, each once, in the
\* order in which the kernel reserved them, whatever CPUs committed first and
\* however often the client lagged.
Ordered ==
  \A c \in Clients : /\ \A i \in 1..Len(got[c]) : born[got[c][i]] = sub[c]
                     /\ \A i, j \in 1..Len(got[c]) : i < j => got[c][i] < got[c][j]

\* An event that happened while a client was subscribed is lost to it only by
\* a full ring or by its own lag: otherwise it is on its way or received.
\* Other clients' coming and going does not change that.
Accounted ==
  \A c \in Clients : sub[c] # None /\ c \notin lagged =>
    \A n \in since[c] + 1 .. Len(born) :
      Owed(c, n) => n \in lost \cup Received(c) \cup NotYetRead(c) \/ InRing(n)

\* A record in the ring reaches every client subscribed to its process, unless
\* the client leaves or lags.
Delivered ==
  \A c \in Clients, n \in 1..MaxEvents :
    (InRing(n) /\ Owed(c, n)) ~> (n \in Received(c) \/ c \in lagged \/ ~Owed(c, n))
=============================================================================
