-------------------------------- MODULE WebUi --------------------------------
(***************************************************************************)
(* The browser's side (webui/src): the dashboard polls the list of         *)
(* processes under a filter, the page of a process polls its metadata and  *)
(* has a WebSocket with its events.  No request is ever cancelled: one that *)
(* was sent for a former filter or PID may still be answered, and requests *)
(* overlap.  A WebSocket that is closed delivers no more messages, but its *)
(* close event comes later.                                                *)
(*                                                                         *)
(* React runs the clean-ups and effects of a change before anything else,  *)
(* so a change of the page is one step.  Leaving a page discards its state; *)
(* going from one process to another, or to another filter, keeps it.  A   *)
(* process has one file descriptor here that it opens and closes.          *)
(***************************************************************************)
EXTENDS Naturals, Sequences

CONSTANTS
  Keys,        \* PIDs, and as well filters of the dashboard
  FirstKey,    \* the one the first page is about; as a filter, none
  None,        \* no answer, no process, an empty map
  MaxInFlight, \* bound: requests in flight
  MaxMoves,    \* bound on what the user does
  MaxChanges   \* bound on what happens on the host and in the network

ASSUME FirstAssumption == FirstKey \in Keys
ASSUME BoundsAssumption == MaxMoves \in Nat /\ MaxChanges \in Nat

Slots == 1..MaxInFlight

VARIABLES
  alive,     \* the host's processes
  file,      \* those with their file open
  changes,   \* what has happened so far
  page,      \* "dashboard" or "process"
  key,       \* its filter or PID
  moves,     \* what the user has done so far
  timers,    \* keys with an interval set
  flight,    \* slot -> request, or None
  list,      \* dashboard: the processes shown, for which filter
  meta,      \* process page: whose metadata is shown
  files,     \* process page: the file map
  socks,     \* the page's sockets, in the order they were made
  paused,    \* the stream is paused
  connected, \* it is shown as LIVE
  buffer,    \* whose events are in allEventsRef
  late       \* history: a former socket's close has come since the last change

hostVars == <<alive, file, changes>>
pageVars == <<page, key, moves, timers>>
viewVars == <<list, meta, files>>
streamVars == <<socks, paused, connected, buffer, late>>
vars == <<hostVars, pageVars, flight, viewVars, streamVars>>

-----------------------------------------------------------------------------
Request(pg, k) == [page |-> pg, key |-> k, answer |-> None]

\* new WebSocket(...).
Socket(k) == [pid |-> k, state |-> "connecting", queue |-> <<>>]

FirstSockets(pg, k) == IF pg = "process" THEN <<Socket(k)>> ELSE <<>>

\* Any page may be opened first.
Init ==
  /\ alive = Keys /\ file \in SUBSET Keys
  /\ changes = 0
  /\ page \in {"dashboard", "process"} /\ key = FirstKey
  /\ moves = 0
  /\ timers = {key}
  /\ flight = [s \in Slots |-> IF s = 1 THEN Request(page, key) ELSE None]
  /\ list = None /\ meta = None /\ files = None
  /\ socks = FirstSockets(page, key)
  /\ paused = FALSE /\ connected = FALSE /\ buffer = {} /\ late = FALSE

-----------------------------------------------------------------------------
(* The user.                                                               *)

Move == moves < MaxMoves /\ moves' = moves + 1

\* Mutant: the former interval goes on.
TimersFor_Kept(k) == timers \cup {k}

\* The clean-up clears the interval, the effect sets a new one.
TimersFor(k) == {k}

\* The effect's first request; requests under way are left alone.
Sent(f, pg, k) ==
  \E s \in Slots : /\ f[s] = None
                   /\ \A t \in Slots : t < s => f[t] # None
                   /\ flight' = [f EXCEPT ![s] = Request(pg, k)]

\* ws.close().
Closed(s) == IF s.state \in {"connecting", "open"} THEN [s EXCEPT !.state = "closing"] ELSE s

\* Mutant: the effect has no clean-up.
Cleaned_Not == socks

\* The clean-up of the effect of [pid, isPaused].
Cleaned == [i \in DOMAIN socks |-> Closed(socks[i])]

\* Mutant: isConnected waits for the former socket's close.
ConnectedReset_Kept == connected

\* setIsConnected(false).
ConnectedReset == FALSE

\* To another page: the former one's state is gone, its requests count no more.
\* The dashboard opens without a filter.
Leave(k) ==
  /\ Move
  /\ page = "process" => k = FirstKey
  /\ page' = IF page = "dashboard" THEN "process" ELSE "dashboard"
  /\ key' = k
  /\ timers' = {k}
  /\ Sent([s \in Slots |-> None], page', k)
  /\ list' = None /\ meta' = None /\ files' = None
  /\ socks' = FirstSockets(page', k)
  /\ paused' = FALSE /\ connected' = FALSE /\ buffer' = {} /\ late' = FALSE
  /\ UNCHANGED hostVars

\* Another filter: nothing is reset.
Filter(k) ==
  /\ Move
  /\ page = "dashboard"
  /\ k # key
  /\ key' = k
  /\ timers' = TimersFor(k)
  /\ Sent(flight, page, k)
  /\ UNCHANGED <<hostVars, page, viewVars, streamVars>>

\* To a parent or child: the file map and the stream are reset, metadata stays.
GoTo(k) ==
  /\ Move
  /\ page = "process"
  /\ k # key
  /\ key' = k
  /\ timers' = TimersFor(k)
  /\ Sent(flight, page, k)
  /\ files' = None
  /\ socks' = Append(Cleaned, Socket(k))
  /\ paused' = FALSE
  /\ connected' = ConnectedReset
  /\ buffer' = {}
  /\ late' = FALSE
  /\ UNCHANGED <<hostVars, page, list, meta>>

\* The button: Pause closes the socket, Resume makes a new one.
PauseOrResume ==
  /\ Move
  /\ page = "process"
  /\ paused' = ~paused
  /\ socks' = IF paused THEN Append(socks, Socket(key)) ELSE Cleaned
  /\ connected' = IF paused THEN connected ELSE FALSE
  /\ late' = FALSE
  /\ UNCHANGED <<hostVars, page, key, timers, flight, viewVars, buffer>>

-----------------------------------------------------------------------------
Change == changes < MaxChanges /\ changes' = changes + 1

(* Polling.                                                                *)

\* The interval's function, of whichever run of the effect.
Poll(k) ==
  /\ k \in timers
  /\ UNCHANGED <<hostVars, pageVars, viewVars, streamVars>>
  /\ Sent(flight, page, k)

\* What the daemon answers: the list, or a process's file, or an error if it has
\* gone.
AnswerTo(r) ==
  IF r.page = "dashboard" THEN [ok |-> TRUE, data |-> alive]
  ELSE [ok |-> r.key \in alive, data |-> r.key \in file]

Serve(s) ==
  /\ flight[s] # None
  /\ flight[s].answer = None
  /\ flight' = [flight EXCEPT ![s].answer = AnswerTo(flight[s])]
  /\ UNCHANGED <<hostVars, pageVars, viewVars, streamVars>>

\* The request fails in the network, and the catch keeps what is shown.  The
\* dashboard does not look at res.ok: an error status of the daemon has an empty
\* body (routes.rs:28), where res.json() fails as well.
Fail(s) ==
  /\ Change
  /\ flight[s] # None
  /\ flight[s].answer = None
  /\ flight' = [flight EXCEPT ![s].answer = [ok |-> FALSE, data |-> None]]
  /\ UNCHANGED <<alive, file, pageVars, viewVars, streamVars>>

FileMap(k, open) == IF open THEN [pid |-> k, state |-> "open"] ELSE None

\* Mutant: the answer is merged into the map.
FilesAfter_Merged(r) == IF r.answer.data THEN FileMap(r.key, TRUE) ELSE files

\* The answer replaces the map.
FilesAfter(r) == FileMap(r.key, r.answer.data)

\* The answer is shown, whatever the page is about by now; an error is not.
Deliver(s) ==
  /\ flight[s] # None
  /\ flight[s].answer # None
  /\ flight' = [flight EXCEPT ![s] = None]
  /\ LET r == flight[s] IN
     \/ /\ r.answer.ok /\ r.page = "dashboard"
        /\ list' = [filter |-> r.key, pids |-> r.answer.data]
        /\ UNCHANGED <<meta, files>>
     \/ /\ r.answer.ok /\ r.page = "process"
        /\ meta' = r.key
        /\ files' = FilesAfter(r)
        /\ UNCHANGED list
     \/ /\ ~r.answer.ok
        /\ UNCHANGED viewVars
  /\ UNCHANGED <<hostVars, pageVars, streamVars>>

-----------------------------------------------------------------------------
(* The stream.                                                             *)

Live(s) == s.state \in {"connecting", "open"}

\* onopen.
Opens(i) ==
  /\ socks[i].state = "connecting"
  /\ socks' = [socks EXCEPT ![i].state = "open"]
  /\ connected' = TRUE
  /\ UNCHANGED <<hostVars, pageVars, flight, viewVars, paused, buffer, late>>

\* onmessage and handleStreamEvent; a close counts for a known descriptor only.
Receive(i) ==
  /\ socks[i].state = "open"
  /\ socks[i].queue # <<>>
  /\ socks' = [socks EXCEPT ![i].queue = Tail(@)]
  /\ buffer' = buffer \cup {socks[i].pid}
  /\ files' = IF Head(socks[i].queue) = "open" THEN FileMap(socks[i].pid, TRUE)
              ELSE IF files = None THEN None
              ELSE [files EXCEPT !.state = "closed"]
  /\ UNCHANGED <<hostVars, pageVars, flight, list, meta, paused, connected, late>>

\* onclose of a socket that the page has closed, perhaps with another one open.
CloseComes(i) ==
  /\ socks[i].state = "closing"
  /\ socks' = [socks EXCEPT ![i].state = "closed", ![i].queue = <<>>]
  /\ connected' = FALSE
  /\ late' = TRUE
  /\ UNCHANGED <<hostVars, pageVars, flight, viewVars, paused, buffer>>

\* onerror, onclose: the daemon or the network ends it, and nobody reconnects.
Breaks(i) ==
  /\ Change
  /\ Live(socks[i])
  /\ socks' = [socks EXCEPT ![i].state = "closed", ![i].queue = <<>>]
  /\ connected' = FALSE
  /\ UNCHANGED <<alive, file, pageVars, flight, viewVars, paused, buffer, late>>

-----------------------------------------------------------------------------
(* The host.                                                               *)

\* A process opens or closes its file; the event is sent, or lost.
Toggle(k) ==
  /\ Change
  /\ k \in alive
  /\ file' = IF k \in file THEN file \ {k} ELSE file \cup {k}
  /\ LET event == IF k \in file THEN "close" ELSE "open"
         Sends(s) == IF Live(s) /\ s.pid = k THEN [s EXCEPT !.queue = Append(@, event)] ELSE s
     IN  socks' \in {socks, [i \in DOMAIN socks |-> Sends(socks[i])]}
  /\ UNCHANGED <<alive, pageVars, flight, viewVars, paused, connected, buffer, late>>

Die(k) ==
  /\ Change
  /\ k \in alive
  /\ alive' = alive \ {k}
  /\ file' = file \ {k}
  /\ UNCHANGED <<pageVars, flight, viewVars, streamVars>>

-----------------------------------------------------------------------------
User == PauseOrResume \/ \E k \in Keys : Leave(k) \/ Filter(k) \/ GoTo(k)

Network == \E s \in Slots : Serve(s) \/ Fail(s) \/ Deliver(s)

Stream == \E i \in DOMAIN socks : Opens(i) \/ Receive(i) \/ CloseComes(i) \/ Breaks(i)

Next ==
  \/ User \/ Network \/ Stream
  \/ \E k \in Keys : Poll(k) \/ Toggle(k) \/ Die(k)

Spec == Init /\ [][Next]_vars

\* Intervals run, the daemon answers, answers and messages arrive.
FairSpec ==
  /\ Spec
  /\ \A k \in Keys : WF_vars(Poll(k))
  /\ \A s \in Slots : WF_vars(Serve(s)) /\ WF_vars(Deliver(s))
  /\ WF_vars(\E i \in DOMAIN socks : Receive(i))

-----------------------------------------------------------------------------
(* Properties.                                                             *)

\* Shapes; there is one interval, for what the page is about.
TypeOK ==
  /\ alive \subseteq Keys /\ file \subseteq alive
  /\ changes \in 0..MaxChanges /\ moves \in 0..MaxMoves
  /\ page \in {"dashboard", "process"} /\ key \in Keys
  /\ timers = {key}
  /\ \A s \in Slots : flight[s] # None => flight[s].page = page /\ flight[s].key \in Keys
  /\ list # None => list.filter \in Keys /\ list.pids \subseteq Keys
  /\ meta \in Keys \cup {None}
  /\ files # None => files.pid \in Keys /\ files.state \in {"open", "closed"}
  /\ Len(socks) <= MaxMoves + 1
  /\ page = "dashboard" => socks = <<>> /\ meta = None /\ files = None
  /\ page = "process" => list = None
  /\ connected \in BOOLEAN /\ paused \in BOOLEAN /\ late \in BOOLEAN
  /\ buffer \subseteq Keys

\* At most one socket is live, the last one made, for the process of the page,
\* and none while the stream is paused: navigation and the button race neither
\* the handshake nor the former socket's close (ProcessStream.tsx:215-291).  And
\* the events kept and counted are those of that process, for all that its former
\* sockets had under way (ProcessStream.tsx:71-83).
StreamOfPage ==
  /\ \A i \in DOMAIN socks : Live(socks[i]) => i = Len(socks) /\ socks[i].pid = key /\ ~paused
  /\ buffer \subseteq {key}

\* LIVE is shown only while the page's socket is open; and where one is open but
\* shown as disconnected, the close of a former socket has come since
\* (ProcessStream.tsx:217, 229, 280-286).
Indicator ==
  LET open == socks # <<>> /\ socks[Len(socks)].state = "open"
  IN  /\ connected => open
      /\ open /\ ~connected => late

\* When the user and the host have come to rest, the dashboard shows the list for
\* its filter, and the page of a living process its own metadata and open files,
\* whatever late answers, overlapping polls and lost events went before
\* (Dashboard.tsx:72-119, ProcessDetails.tsx:103-185).
Settles ==
  <>[](/\ page = "dashboard" => list = [filter |-> key, pids |-> alive]
       /\ page = "process" /\ key \in alive => meta = key /\ files = FileMap(key, key \in file))
=============================================================================
