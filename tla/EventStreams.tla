----------------------------- MODULE EventStreams -----------------------------
(***************************************************************************)
(* The two HTTP handlers that stream a process's events to a browser, on   *)
(* top of the subscription registry: server-sent events                    *)
(* (http/routes.rs, stream_events) and WebSocket (http/ws.rs, handle_ws).  *)
(*                                                                         *)
(* Both take a Subscription apart.  stream_events moves the receiver into  *)
(* the response body and lets the guard go when the handler returns, while *)
(* the receiver lives.  handle_ws gives the receiver to a task of its own  *)
(* (the pump), keeps the guard in its main loop, and lets a third task     *)
(* (the reader) watch the socket; the three meet in a Notify, which holds  *)
(* one permit and wakes one waiter, and in a bounded mpsc queue.           *)
(***************************************************************************)
EXTENDS StreamRegistry

CONSTANTS
  WsClients,    \* the clients that come by WebSocket, the others by SSE
  EventLimit,   \* capacity of a broadcast channel
  QueueCap      \* capacity of the mpsc queue between pump and main loop

ASSUME WsAssumption == WsClients \subseteq Clients
ASSUME CapacityAssumption == EventLimit \in Nat /\ QueueCap \in Nat

SseClients == Clients \ WsClients

VARIABLES
  backlog,   \* events a client's receiver has not read yet
  peer,      \* a WebSocket client's connection as the far end left it
  reader,    \* the task that reads the WebSocket
  pump,      \* the task that moves events from the receiver to the queue
  main,      \* handle_ws's own loop, which owns the guard
  queue,     \* messages in the mpsc queue
  notified   \* clients whose Notify holds a permit

taskVars == <<backlog, peer, reader, pump, main, queue, notified>>
allVars == <<vars, taskVars>>

-----------------------------------------------------------------------------
StreamsInit ==
  /\ Init
  /\ backlog = [c \in Clients |-> 0]
  /\ peer = [c \in WsClients |-> "up"]
  /\ reader = [c \in WsClients |-> "off"]
  /\ pump = [c \in WsClients |-> "off"]
  /\ main = [c \in WsClients |-> "off"]
  /\ queue = [c \in WsClients |-> 0]
  /\ notified = {}

\* All of a WebSocket session's tasks have ended.
SessionOver(c) == reader[c] = "off" /\ pump[c] = "off" /\ main[c] = "off"

\* A request arrives; the handler calls subscribe.
Request(c, p) ==
  /\ c \in WsClients => SessionOver(c)
  /\ Subscribe(c, p)
  /\ UNCHANGED taskVars

\* The steps of subscribe, and of a guard's drop, that the handler waits for.
Registry(c) ==
  /\ Arm(c) \/ Unmap(c)
  /\ UNCHANGED taskVars

\* handle_ws: the subscription is there; the reader and the pump are spawned.
WsStart(c) ==
  /\ c \in WsClients
  /\ Attach(c)
  /\ backlog' = [backlog EXCEPT ![c] = 0]
  /\ peer' = [peer EXCEPT ![c] = "up"]
  /\ reader' = [reader EXCEPT ![c] = "run"]
  /\ pump' = [pump EXCEPT ![c] = "run"]
  /\ main' = [main EXCEPT ![c] = "run"]
  /\ queue' = [queue EXCEPT ![c] = 0]
  /\ notified' = notified \ {c}

\* stream_events: the receiver goes into the response body.
SseStart(c) ==
  /\ c \in SseClients
  /\ Attach(c)
  /\ backlog' = [backlog EXCEPT ![c] = 0]
  /\ UNCHANGED <<peer, reader, pump, main, queue, notified>>

\* StreamRegistry::forward: the event goes to every receiver of the PID's
\* channel; a full channel loses its oldest event.
Forward(p) ==
  /\ lock = None
  /\ streams[p] # None
  /\ backlog' = [c \in Clients |-> IF rx[c] = streams[p] /\ backlog[c] < EventLimit
                                   THEN backlog[c] + 1 ELSE backlog[c]]
  /\ UNCHANGED <<vars, peer, reader, pump, main, queue, notified>>

-----------------------------------------------------------------------------
(* Server-sent events.                                                     *)

\* stream_events returns: what is left of the Subscription, its guard, is
\* dropped.  The receiver is in the body.
SseReturn(c) ==
  /\ c \in SseClients
  /\ rx[c] # None
  /\ DropGuard(c)
  /\ UNCHANGED taskVars

\* The body is polled: an event goes out.
SseSend(c) ==
  /\ c \in SseClients \ guards
  /\ rx[c] # None
  /\ backlog[c] > 0
  /\ backlog' = [backlog EXCEPT ![c] = @ - 1]
  /\ UNCHANGED <<vars, peer, reader, pump, main, queue, notified>>

\* The client has gone: the body is dropped, and with it the receiver.
SseDisconnect(c) ==
  /\ c \in SseClients \ guards
  /\ DropRx(c)
  /\ backlog' = [backlog EXCEPT ![c] = 0]
  /\ UNCHANGED <<peer, reader, pump, main, queue, notified>>

-----------------------------------------------------------------------------
(* WebSocket.                                                              *)

\* The far end stops reading, reads on, closes with a handshake, or breaks off.
PeerChange(c) ==
  /\ ~SessionOver(c)
  /\ peer[c] \in {"up", "stalled"}
  /\ \E s \in {"up", "stalled", "closed", "broken"} \ {peer[c]} : peer' = [peer EXCEPT ![c] = s]
  /\ UNCHANGED <<vars, backlog, reader, pump, main, queue, notified>>

\* The reader gets an error: it notifies one waiter.
ReaderError(c) ==
  /\ reader[c] = "run"
  /\ peer[c] = "broken"
  /\ notified' = notified \cup {c}
  /\ reader' = [reader EXCEPT ![c] = "off"]
  /\ UNCHANGED <<vars, backlog, peer, pump, main, queue>>

\* The reader gets the end of the stream: nobody is told.
ReaderEnd(c) ==
  /\ reader[c] = "run"
  /\ peer[c] = "closed"
  /\ reader' = [reader EXCEPT ![c] = "off"]
  /\ UNCHANGED <<vars, backlog, peer, pump, main, queue, notified>>

\* Mutant: the receiver outlives the task.
PumpEnds_KeepsRx(c) ==
  /\ pump' = [pump EXCEPT ![c] = "off"]
  /\ UNCHANGED <<vars, backlog>>

\* The pump ends: its receiver is dropped.
PumpEnds(c) ==
  /\ pump' = [pump EXCEPT ![c] = "off"]
  /\ backlog' = [backlog EXCEPT ![c] = 0]
  /\ DropRx(c)

\* The pump wins the permit.
PumpCancel(c) ==
  /\ pump[c] = "run"
  /\ c \in notified
  /\ notified' = notified \ {c}
  /\ PumpEnds(c)
  /\ UNCHANGED <<peer, reader, main, queue>>

\* The pump takes an event and starts to send it to the queue.
PumpTake(c) ==
  /\ pump[c] = "run"
  /\ backlog[c] > 0
  /\ backlog' = [backlog EXCEPT ![c] = @ - 1]
  /\ pump' = [pump EXCEPT ![c] = "sending"]
  /\ UNCHANGED <<vars, peer, reader, main, queue, notified>>

\* The queue has room.
PumpSend(c) ==
  /\ pump[c] = "sending"
  /\ main[c] # "off"
  /\ queue[c] < QueueCap
  /\ queue' = [queue EXCEPT ![c] = @ + 1]
  /\ pump' = [pump EXCEPT ![c] = "run"]
  /\ UNCHANGED <<vars, backlog, peer, reader, main, notified>>

\* The main loop has dropped its end of the queue.
PumpSendFails(c) ==
  /\ pump[c] = "sending"
  /\ main[c] = "off"
  /\ PumpEnds(c)
  /\ UNCHANGED <<peer, reader, main, queue, notified>>

\* The main loop wins the permit and leaves.
MainCancel(c) ==
  /\ main[c] = "run"
  /\ c \in notified
  /\ notified' = notified \ {c}
  /\ main' = [main EXCEPT ![c] = "leaving"]
  /\ UNCHANGED <<vars, backlog, peer, reader, pump, queue>>

\* The ticker is due, or a message is in the queue: start to send it.
MainSends(c) ==
  /\ main[c] = "run"
  /\ main' = [main EXCEPT ![c] = "sending"]
  /\ UNCHANGED <<vars, backlog, peer, reader, pump, notified>>

MainPing(c) == MainSends(c) /\ UNCHANGED queue

MainTake(c) ==
  /\ queue[c] > 0
  /\ queue' = [queue EXCEPT ![c] = @ - 1]
  /\ MainSends(c)

\* Mutant: a failed send does not end the loop.
MainSent_Ignored(c) ==
  /\ main[c] = "sending"
  /\ peer[c] # "stalled"
  /\ main' = [main EXCEPT ![c] = "run"]
  /\ UNCHANGED <<vars, backlog, peer, reader, pump, queue, notified>>

\* ws_tx.send returns; a peer that does not read keeps it waiting.
MainSent(c) ==
  /\ main[c] = "sending"
  /\ \/ peer[c] = "up" /\ main' = [main EXCEPT ![c] = "run"]
     \/ peer[c] \in {"closed", "broken"} /\ main' = [main EXCEPT ![c] = "leaving"]
  /\ UNCHANGED <<vars, backlog, peer, reader, pump, queue, notified>>

\* handle_ws returns.  Locals go in reverse order of their declaration: the
\* guard before the queue, whatever the pump is doing with the receiver.
MainDropsGuard(c) ==
  /\ main[c] = "leaving"
  /\ DropGuard(c)
  /\ main' = [main EXCEPT ![c] = "returning"]
  /\ UNCHANGED <<backlog, peer, reader, pump, queue, notified>>

\* The guard's drop is over, the queue and the socket go.
MainDropsQueue(c) ==
  /\ main[c] = "returning"
  /\ call[c] = "none"
  /\ main' = [main EXCEPT ![c] = "off"]
  /\ queue' = [queue EXCEPT ![c] = 0]
  /\ UNCHANGED <<vars, backlog, peer, reader, pump, notified>>

-----------------------------------------------------------------------------
ReaderStep(c) == ReaderError(c) \/ ReaderEnd(c)

PumpStep(c) == PumpCancel(c) \/ PumpTake(c) \/ PumpSend(c) \/ PumpSendFails(c)

MainStep(c) ==
  \/ MainCancel(c)
  \/ MainPing(c)
  \/ MainTake(c)
  \/ MainSent(c)
  \/ MainDropsGuard(c)
  \/ MainDropsQueue(c)

WsStep(c) == PeerChange(c) \/ ReaderStep(c) \/ PumpStep(c) \/ MainStep(c)

SseStep(c) == SseReturn(c) \/ SseSend(c) \/ SseDisconnect(c)

StreamsNext ==
  \/ \E p \in Pids : Forward(p) \/ \E c \in Clients : Request(c, p)
  \/ \E c \in Clients : Registry(c) \/ WsStart(c) \/ SseStart(c) \/ SseStep(c)
  \/ \E c \in WsClients : WsStep(c)
  \/ Forks /\ UNCHANGED taskVars

StreamsSpec == StreamsInit /\ [][StreamsNext]_allVars

\* Tasks that can run do run, and the ticker keeps ticking.  Strong fairness
\* where a guard's drop waits for the `streams' mutex.  No client has to come
\* or go, and no process has to produce events.
StreamsFairness ==
  /\ \A c \in Clients : WF_allVars(Registry(c)) /\ WF_allVars(WsStart(c) \/ SseStart(c))
  /\ \A c \in SseClients : SF_allVars(SseReturn(c))
  /\ \A c \in WsClients : /\ WF_allVars(ReaderStep(c))
                          /\ WF_allVars(PumpStep(c))
                          /\ WF_allVars(MainStep(c))
                          /\ SF_allVars(MainDropsGuard(c))

FairStreamsSpec == StreamsSpec /\ StreamsFairness

-----------------------------------------------------------------------------
(* Properties.                                                             *)

\* Shapes, and who owns what in a WebSocket session: the pump the receiver,
\* the main loop the guard (ws.rs:58-85).
StreamsTypeOK ==
  /\ backlog \in [Clients -> 0..EventLimit]
  /\ peer \in [WsClients -> {"up", "stalled", "closed", "broken"}]
  /\ reader \in [WsClients -> {"off", "run"}]
  /\ pump \in [WsClients -> {"off", "run", "sending"}]
  /\ main \in [WsClients -> {"off", "run", "sending", "leaving", "returning"}]
  /\ queue \in [WsClients -> 0..QueueCap]
  /\ notified \in SUBSET WsClients
  /\ \A c \in WsClients : /\ rx[c] # None <=> pump[c] # "off"
                          /\ c \in guards <=> main[c] \in {"run", "sending", "leaving"}

\* A PID's entry that somebody still answers for.
Cared(p) ==
  \/ streams[p] = None
  \/ \E c \in Clients : /\ pid[c] = p
                        /\ c \in guards \/ rx[c] # None \/ call[c] \in {"arm", "attach"}

\* The entry is "removed when the last receiver drops" (stream.rs:28): none is
\* left that nobody answers for.
RemovedWithLast == \A p \in Pids : Cared(p)

\* An entry is left to itself in one way only: its last receiver is dropped by
\* a session whose guard has gone before.  That is each SSE session, and the
\* WebSocket session whose main loop won the permit or met the dead socket
\* before the pump ended.
AbandonedOnlyPastGuard ==
  [][\A p \in Pids : Cared(p) /\ ~Cared(p)' =>
        \E c \in Clients : pid[c] = p /\ rx[c] # None /\ c \notin guards /\ rx'[c] = None]_allVars

\* A WebSocket session whose connection is gone ends, whoever won the permit
\* and however long the peer did not read: the next ping fails (ws.rs:92-100).
SessionEnds ==
  \A c \in WsClients : peer[c] \in {"closed", "broken"} ~> main[c] = "off"
=============================================================================
