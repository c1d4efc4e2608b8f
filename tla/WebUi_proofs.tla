----------------------------- MODULE WebUi_proofs -----------------------------
(***************************************************************************)
(* That the stream of the browser's page is that of its process, and its   *)
(* indicator right, for any keys and any number of requests in flight.     *)
(*                                                                         *)
(* The runs' three invariants are inductive together with the shapes of    *)
(* requests, files and sockets: while the stream is paused there is no live *)
(* socket, so nothing that `connected' says is stale when it is resumed.   *)
(***************************************************************************)
EXTENDS WebUi, SequenceTheorems, TLAPS

Answers(good) ==
  {None} \cup [ok : {TRUE}, data : good] \cup [ok : {FALSE}, data : BOOLEAN \cup {None}]

Lists == [page : {"dashboard"}, key : Keys, answer : Answers(SUBSET Keys)]

Details == [page : {"process"}, key : Keys, answer : Answers(BOOLEAN)]

Requests == Lists \cup Details

Files == [pid : Keys, state : {"open", "closed"}]

Messages == Seq({"open", "close"})

Sockets == [pid : Keys, state : {"connecting", "open", "closing", "closed"}, queue : Messages]

\* What the host, the page and its requests are.
Page ==
  /\ alive \subseteq Keys /\ file \subseteq alive
  /\ changes \in 0..MaxChanges /\ moves \in 0..MaxMoves
  /\ page \in {"dashboard", "process"} /\ key \in Keys
  /\ timers = {key}

Flights ==
  /\ flight \in [Slots -> Requests \cup {None}]
  /\ \A s \in Slots : flight[s] # None => flight[s].page = page

Views ==
  /\ list \in [filter : Keys, pids : SUBSET Keys] \cup {None}
  /\ meta \in Keys \cup {None}
  /\ files \in Files \cup {None}
  /\ page = "dashboard" => meta = None /\ files = None
  /\ page = "process" => list = None

Streams ==
  /\ socks \in Seq(Sockets)
  /\ Len(socks) <= moves + 1
  /\ page = "dashboard" => socks = <<>> /\ buffer = {}
  /\ connected \in BOOLEAN /\ paused \in BOOLEAN /\ late \in BOOLEAN
  /\ StreamOfPage
  /\ Indicator

IInv == Page /\ Flights /\ Views /\ Streams

-----------------------------------------------------------------------------
(* Requests.                                                               *)

\* A new request is one of the page's.
LEMMA SentFlights ==
  ASSUME NEW f \in [Slots -> Requests \cup {None}], NEW pg \in {"dashboard", "process"},
         NEW k \in Keys, Sent(f, pg, k),
         \A s \in Slots : f[s] # None => f[s].page = pg
  PROVE  /\ flight' \in [Slots -> Requests \cup {None}]
         /\ \A s \in Slots : flight'[s] # None => flight'[s].page = pg
<1>1. Request(pg, k) \in Requests /\ Request(pg, k).page = pg
  BY DEF Request, Requests, Lists, Details, Answers
<1>2. PICK s \in Slots : flight' = [f EXCEPT ![s] = Request(pg, k)]
  BY DEF Sent
<1>3. QED
  BY <1>1, <1>2

\* An answered request is still one of its page's.
LEMMA AnswerFlights ==
  ASSUME Flights, NEW s \in Slots, flight[s] # None, NEW a,
         flight[s] \in Lists => a \in Answers(SUBSET Keys),
         flight[s] \in Details => a \in Answers(BOOLEAN),
         flight' = [flight EXCEPT ![s].answer = a], page' = page
  PROVE  Flights'
<1> DEFINE r == [flight[s] EXCEPT !.answer = a]
<1>1. flight[s] \in Requests /\ flight[s].page = page
  BY DEF Flights
<1>2. flight[s] \in Lists => r \in Lists /\ r.page = flight[s].page
  BY DEF Lists
<1>3. flight[s] \in Details => r \in Details /\ r.page = flight[s].page
  BY DEF Details
<1>4. r \in Requests /\ r.page = page
  BY <1>1, <1>2, <1>3 DEF Requests
<1>5. flight' = [flight EXCEPT ![s] = r]
  OBVIOUS
<1> HIDE DEF r
<1>6. flight' \in [Slots -> Requests \cup {None}]
  BY <1>4, <1>5 DEF Flights
<1>7. ASSUME NEW t \in Slots, flight'[t] # None
      PROVE  flight'[t].page = page
  BY <1>4, <1>5, <1>7 DEF Flights
<1>8. QED
  BY <1>6, <1>7 DEF Flights

\* The daemon's answer is one to the request.
LEMMA AnswerTyped ==
  ASSUME Page, NEW r \in Requests
  PROVE  /\ r \in Lists => AnswerTo(r) \in Answers(SUBSET Keys)
         /\ r \in Details => AnswerTo(r) \in Answers(BOOLEAN)
<1>1. ASSUME r \in Lists
      PROVE  AnswerTo(r) \in [ok : {TRUE}, data : SUBSET Keys]
  BY <1>1 DEF Lists, AnswerTo, Page
<1>2. ASSUME r \in Details
      PROVE  AnswerTo(r) \in [ok : {TRUE}, data : BOOLEAN] \cup [ok : {FALSE}, data : BOOLEAN]
  <2>1. AnswerTo(r) = [ok |-> r.key \in alive, data |-> r.key \in file]
    BY <1>2 DEF Details, AnswerTo
  <2> DEFINE lives == r.key \in alive  opened == r.key \in file
  <2>2. (lives = TRUE \/ lives = FALSE) /\ (opened = TRUE \/ opened = FALSE)
    OBVIOUS
  <2>3. \A b, d \in {TRUE, FALSE} :
          [ok |-> b, data |-> d] \in [ok : {TRUE}, data : BOOLEAN] \cup [ok : {FALSE}, data : BOOLEAN]
    OBVIOUS
  <2> HIDE DEF lives, opened
  <2>4. QED
    BY <2>1, <2>2, <2>3, Zenon DEF lives, opened
<1>3. QED
  BY <1>1, <1>2 DEF Answers

-----------------------------------------------------------------------------
(* Sockets.                                                                *)

\* A new socket is connecting, for the PID it is made for.
LEMMA SocketTyped ==
  ASSUME NEW k \in Keys
  PROVE  /\ Socket(k) \in Sockets
         /\ Socket(k).pid = k /\ Socket(k).state = "connecting" /\ Live(Socket(k))
<1>1. <<>> \in Messages
  BY EmptySeq DEF Messages
<1>2. QED
  BY <1>1 DEF Socket, Sockets, Live

\* The sockets a page opens with.
LEMMA FirstTyped ==
  ASSUME NEW pg \in {"dashboard", "process"}, NEW k \in Keys
  PROVE  /\ FirstSockets(pg, k) \in Seq(Sockets)
         /\ pg = "dashboard" => FirstSockets(pg, k) = <<>>
         /\ Len(FirstSockets(pg, k)) <= 1
         /\ \A i \in DOMAIN FirstSockets(pg, k) :
              /\ i = Len(FirstSockets(pg, k))
              /\ FirstSockets(pg, k)[i] = Socket(k)
         /\ FirstSockets(pg, k) # <<>> =>
              FirstSockets(pg, k)[Len(FirstSockets(pg, k))] = Socket(k)
<1>1. Socket(k) \in Sockets
  BY SocketTyped
<1>2. QED
  BY <1>1 DEF FirstSockets

\* The positions of the sockets, and what is at them.
LEMMA SocketAt ==
  ASSUME socks \in Seq(Sockets)
  PROVE  /\ DOMAIN socks = 1..Len(socks) /\ Len(socks) \in Nat
         /\ \A i \in DOMAIN socks : socks[i] \in Sockets
         /\ socks # <<>> => Len(socks) \in DOMAIN socks
BY LenProperties, EmptySeq, ElementOfSeq

\* A closed socket is not live.
LEMMA ClosedTyped ==
  ASSUME NEW s \in Sockets
  PROVE  /\ Closed(s) \in Sockets /\ Closed(s).pid = s.pid
         /\ ~Live(Closed(s)) /\ Closed(s).state # "open"
BY DEF Closed, Sockets, Live

\* What the clean-up leaves: as many sockets, none of them live.
LEMMA CleanedTyped ==
  ASSUME socks \in Seq(Sockets)
  PROVE  /\ Cleaned \in Seq(Sockets) /\ Len(Cleaned) = Len(socks)
         /\ Cleaned = <<>> <=> socks = <<>>
         /\ \A i \in 1..Len(socks) : ~Live(Cleaned[i]) /\ Cleaned[i].state # "open"
<1>1. DOMAIN socks = 1..Len(socks) /\ Len(socks) \in Nat
  BY SocketAt
<1>2. \A i \in 1..Len(socks) : Cleaned[i] = Closed(socks[i]) /\ socks[i] \in Sockets
  BY <1>1, SocketAt DEF Cleaned
<1>3. \A i \in 1..Len(socks) : /\ Cleaned[i] \in Sockets
                               /\ ~Live(Cleaned[i]) /\ Cleaned[i].state # "open"
  BY <1>2, ClosedTyped
<1>4. Cleaned \in [1..Len(socks) -> Sockets]
  BY <1>1, <1>3 DEF Cleaned
<1>5. Cleaned \in Seq(Sockets) /\ Len(Cleaned) = Len(socks)
  BY <1>1, <1>4
<1>6. Cleaned = <<>> <=> socks = <<>>
  BY <1>5, EmptySeq
<1>7. QED
  BY <1>3, <1>5, <1>6

\* A socket made after the clean-up is the only live one, and the last.
LEMMA NewSocket ==
  ASSUME NEW old \in Seq(Sockets), NEW k \in Keys,
         \A i \in 1..Len(old) : ~Live(old[i])
  PROVE  LET new == Append(old, Socket(k)) IN
         /\ new \in Seq(Sockets) /\ Len(new) = Len(old) + 1
         /\ \A i \in DOMAIN new : Live(new[i]) => i = Len(new) /\ new[i].pid = k
         /\ new[Len(new)] = Socket(k) /\ new # <<>>
<1> DEFINE new == Append(old, Socket(k))
<1>1. Socket(k) \in Sockets /\ Socket(k).pid = k
  BY SocketTyped
<1>2. /\ new \in Seq(Sockets) /\ Len(new) = Len(old) + 1 /\ Len(old) \in Nat
      /\ \A i \in 1..Len(old) : new[i] = old[i]
      /\ new[Len(old) + 1] = Socket(k)
  BY <1>1, AppendProperties, LenProperties
<1>3. DOMAIN new = 1..(Len(old) + 1) /\ new # <<>>
  BY <1>2, LenProperties, EmptySeq
<1> HIDE DEF new
<1>4. ASSUME NEW i \in DOMAIN new, Live(new[i])
      PROVE  i = Len(new) /\ new[i].pid = k
  <2>1. i \notin 1..Len(old)
    BY <1>2, <1>4
  <2>2. i = Len(old) + 1
    BY <2>1, <1>2, <1>3, <1>4
  <2>3. QED
    BY <2>2, <1>1, <1>2
<1>5. QED
  BY <1>2, <1>3, <1>4 DEF new

\* One socket changes, and comes to life by no change of its own.
LEMMA OneSocket ==
  ASSUME Streams, NEW i \in DOMAIN socks, NEW t \in Sockets,
         t.pid = socks[i].pid, Live(t) => Live(socks[i]),
         socks' = [socks EXCEPT ![i] = t],
         moves' = moves, page' = page, key' = key, paused' = paused,
         buffer' \subseteq {key}
  PROVE  /\ socks' \in Seq(Sockets) /\ Len(socks') = Len(socks)
         /\ Len(socks') <= moves' + 1 /\ page # "dashboard" /\ socks' # <<>>
         /\ Len(socks) \in 1..Len(socks)
         /\ \A j \in 1..Len(socks) : socks'[j] = IF j = i THEN t ELSE socks[j]
         /\ StreamOfPage'
<1>1. /\ socks \in Seq(Sockets) /\ Len(socks) <= moves + 1
      /\ page = "dashboard" => socks = <<>>
      /\ StreamOfPage
  BY DEF Streams
<1>2. DOMAIN socks = 1..Len(socks) /\ Len(socks) \in Nat /\ i \in 1..Len(socks)
  BY <1>1, SocketAt
<1>3. /\ socks' \in Seq(Sockets) /\ Len(socks') = Len(socks)
      /\ \A j \in 1..Len(socks) : socks'[j] = IF j = i THEN t ELSE socks[j]
  BY <1>1, <1>2, ExceptSeq
<1>4. Len(socks) \in 1..Len(socks) /\ socks # <<>> /\ socks' # <<>>
  BY <1>2, <1>3, EmptySeq
<1>5. DOMAIN socks' = 1..Len(socks)
  BY <1>3, LenProperties
<1>6. ASSUME NEW j \in DOMAIN socks', Live(socks'[j])
      PROVE  j = Len(socks') /\ socks'[j].pid = key' /\ ~paused'
  <2>1. Live(socks[j]) /\ socks'[j].pid = socks[j].pid /\ j \in DOMAIN socks
    BY <1>2, <1>3, <1>5, <1>6
  <2>2. QED
    BY <2>1, <1>1, <1>3 DEF StreamOfPage
<1>7. StreamOfPage'
  BY <1>6 DEF StreamOfPage, Live
<1>8. QED
  BY <1>1, <1>3, <1>4, <1>7

-----------------------------------------------------------------------------
(* Initial states.                                                         *)

\* Whatever page is opened first.
LEMMA InitIInv == Init => IInv
<1> SUFFICES ASSUME Init
             PROVE  IInv
  OBVIOUS
<1>1. Page
  BY FirstAssumption, BoundsAssumption DEF Init, Page
<1>2. Flights
  <2>1. Request(page, key) \in Requests /\ Request(page, key).page = page
    BY FirstAssumption DEF Init, Request, Requests, Lists, Details, Answers
  <2>2. flight = [s \in Slots |-> IF s = 1 THEN Request(page, key) ELSE None]
    BY DEF Init
  <2>3. QED
    BY <2>1, <2>2 DEF Flights
<1>3. Views
  BY DEF Init, Views
<1>4. Streams
  <2>1. /\ page \in {"dashboard", "process"} /\ key \in Keys
        /\ moves = 0 /\ socks = FirstSockets(page, key)
        /\ paused = FALSE /\ connected = FALSE /\ buffer = {} /\ late = FALSE
    BY FirstAssumption DEF Init
  <2>2. /\ socks \in Seq(Sockets) /\ Len(socks) <= moves + 1
        /\ page = "dashboard" => socks = <<>>
    BY <2>1, FirstTyped
  <2>3. StreamOfPage
    BY <2>1, FirstTyped, SocketTyped DEF StreamOfPage
  <2>4. Indicator
    BY <2>1, FirstTyped, SocketTyped DEF Indicator
  <2>5. QED
    BY <2>1, <2>2, <2>3, <2>4 DEF Streams
<1>5. QED
  BY <1>1, <1>2, <1>3, <1>4 DEF IInv

-----------------------------------------------------------------------------
(* The user.                                                               *)

\* Another page begins anew.
LEMMA LeaveStep == ASSUME IInv, NEW k \in Keys, Leave(k)
                   PROVE  IInv'
<1>1. /\ page \in {"dashboard", "process"} /\ moves \in 0..MaxMoves
      /\ moves < MaxMoves /\ moves' = moves + 1
      /\ page' \in {"dashboard", "process"} /\ key' = k /\ timers' = {k}
      /\ UNCHANGED hostVars
  BY DEF IInv, Page, Leave, Move
<1>2. /\ list' = None /\ meta' = None /\ files' = None
      /\ socks' = FirstSockets(page', k)
      /\ paused' = FALSE /\ connected' = FALSE /\ buffer' = {} /\ late' = FALSE
      /\ Sent([s \in Slots |-> None], page', k)
  BY DEF Leave
<1>3. Page'
  BY <1>1, BoundsAssumption DEF IInv, Page, hostVars
<1>4. PICK pg \in {"dashboard", "process"} : pg = page'
  BY <1>1
<1>5. Flights'
  BY <1>2, <1>4, SentFlights DEF Flights
<1>6. Views'
  BY <1>2 DEF Views
<1>7. Streams'
  <2>1. /\ socks' \in Seq(Sockets) /\ Len(socks') <= 1
        /\ page' = "dashboard" => socks' = <<>>
    BY <1>2, <1>4, FirstTyped
  <2>2. StreamOfPage'
    BY <1>1, <1>2, <1>4, FirstTyped, SocketTyped DEF StreamOfPage
  <2>3. Indicator'
    BY <1>2, <1>4, FirstTyped, SocketTyped DEF Indicator
  <2>4. Len(socks') <= moves' + 1
    BY <1>1, <2>1, LenProperties
  <2>5. QED
    BY <1>2, <2>1, <2>2, <2>3, <2>4 DEF Streams
<1>8. QED
  BY <1>3, <1>5, <1>6, <1>7 DEF IInv

\* Another filter: the dashboard has no stream.
LEMMA FilterStep == ASSUME IInv, NEW k \in Keys, Filter(k)
                    PROVE  IInv'
<1>1. /\ moves < MaxMoves /\ moves' = moves + 1 /\ page = "dashboard"
      /\ key' = k /\ timers' = {k} /\ Sent(flight, page, k)
      /\ UNCHANGED <<hostVars, page, viewVars, streamVars>>
  BY DEF Filter, Move, TimersFor
<1>2. Page'
  BY <1>1, BoundsAssumption DEF IInv, Page, hostVars
<1>3. Flights'
  BY <1>1, SentFlights DEF IInv, Flights
<1>4. Views'
  BY <1>1 DEF IInv, Views, viewVars
<1>5. Streams'
  <2>1. socks' = <<>> /\ buffer' = {} /\ connected' = connected /\ late' = late /\ paused' = paused
    BY <1>1 DEF IInv, Streams, streamVars
  <2>2. connected = FALSE
    BY <1>1 DEF IInv, Streams, Indicator
  <2>3. StreamOfPage' /\ Indicator'
    BY <2>1, <2>2 DEF StreamOfPage, Indicator
  <2>4. socks' \in Seq(Sockets) /\ Len(socks') = 0 /\ moves \in Nat
    BY <2>1, EmptySeq DEF IInv, Page
  <2>5. QED
    BY <1>1, <2>1, <2>3, <2>4 DEF IInv, Streams
<1>6. QED
  BY <1>2, <1>3, <1>4, <1>5 DEF IInv

\* Another process: the former socket closes before the new one is made.
LEMMA GoToStep == ASSUME IInv, NEW k \in Keys, GoTo(k)
                  PROVE  IInv'
<1>1. /\ moves < MaxMoves /\ moves' = moves + 1 /\ page = "process"
      /\ key' = k /\ timers' = {k} /\ Sent(flight, page, k)
      /\ files' = None /\ socks' = Append(Cleaned, Socket(k))
      /\ paused' = FALSE /\ connected' = FALSE /\ buffer' = {} /\ late' = FALSE
      /\ UNCHANGED <<hostVars, page, list, meta>>
  BY DEF GoTo, Move, TimersFor, ConnectedReset
<1>2. Page'
  BY <1>1, BoundsAssumption DEF IInv, Page, hostVars
<1>3. Flights'
  BY <1>1, SentFlights DEF IInv, Flights
<1>4. Views'
  BY <1>1 DEF IInv, Views
<1>5. Streams'
  <2>1. /\ socks \in Seq(Sockets) /\ Len(socks) <= moves + 1 /\ moves \in Nat
    BY DEF IInv, Streams, Page
  <2>2. Cleaned \in Seq(Sockets) /\ Len(Cleaned) = Len(socks)
    BY <2>1, CleanedTyped
  <2>3. \A i \in 1..Len(Cleaned) : ~Live(Cleaned[i])
    BY <2>1, <2>2, CleanedTyped
  <2>4. /\ socks' \in Seq(Sockets) /\ Len(socks') = Len(socks) + 1
        /\ \A i \in DOMAIN socks' : Live(socks'[i]) => i = Len(socks') /\ socks'[i].pid = k
        /\ socks'[Len(socks')] = Socket(k)
    BY <1>1, <2>2, <2>3, NewSocket
  <2>5. StreamOfPage'
    BY <1>1, <2>4 DEF StreamOfPage, Live
  <2>6. Indicator'
    BY <1>1, <2>4, SocketTyped DEF Indicator
  <2>7. Len(socks') <= moves' + 1
    BY <1>1, <2>1, <2>4, LenProperties
  <2>8. QED
    BY <1>1, <2>4, <2>5, <2>6, <2>7 DEF Streams
<1>6. QED
  BY <1>2, <1>3, <1>4, <1>5 DEF IInv

\* Pause closes the last socket, Resume makes one where none is live.
LEMMA PauseStep == ASSUME IInv, PauseOrResume
                   PROVE  IInv'
<1>1. /\ moves < MaxMoves /\ moves' = moves + 1 /\ page = "process"
      /\ paused' = ~paused /\ late' = FALSE
      /\ socks' = IF paused THEN Append(socks, Socket(key)) ELSE Cleaned
      /\ connected' = IF paused THEN connected ELSE FALSE
      /\ UNCHANGED <<hostVars, page, key, timers, flight, viewVars, buffer>>
  BY DEF PauseOrResume, Move
<1>2. /\ socks \in Seq(Sockets) /\ Len(socks) <= moves + 1
      /\ moves \in Nat /\ Len(socks) \in Nat /\ key \in Keys
      /\ StreamOfPage /\ Indicator /\ paused \in BOOLEAN /\ connected \in BOOLEAN
  BY LenProperties DEF IInv, Streams, Page
<1>3. Page'
  BY <1>1, BoundsAssumption DEF IInv, Page, hostVars
<1>4. Flights'
  BY <1>1 DEF IInv, Flights
<1>5. Views'
  BY <1>1 DEF IInv, Views, viewVars
<1>6. /\ socks' \in Seq(Sockets) /\ Len(socks') <= moves' + 1
      /\ StreamOfPage' /\ Indicator' /\ connected' \in BOOLEAN
  <2>1. CASE paused
    <3>1. \A i \in 1..Len(socks) : ~Live(socks[i])
      BY <1>2, <2>1, SocketAt DEF StreamOfPage
    <3>2. /\ socks' \in Seq(Sockets) /\ Len(socks') = Len(socks) + 1
          /\ \A i \in DOMAIN socks' : Live(socks'[i]) => i = Len(socks') /\ socks'[i].pid = key
          /\ socks'[Len(socks')] = Socket(key)
      BY <1>1, <1>2, <2>1, <3>1, NewSocket
    <3>3. paused' = FALSE /\ connected' = connected /\ key' = key /\ buffer' = buffer
      BY <1>1, <2>1
    <3>4. connected = FALSE
      BY <1>2, <3>1, SocketAt DEF Indicator, Live
    <3>5. StreamOfPage'
      BY <1>2, <3>2, <3>3 DEF StreamOfPage, Live
    <3>6. Indicator'
      BY <1>2, <3>2, <3>3, <3>4, SocketTyped DEF Indicator
    <3>7. Len(socks') <= moves' + 1
      BY <1>1, <1>2, <3>2, SMT
    <3>8. connected' \in BOOLEAN
      BY <3>3, <3>4
    <3>9. QED
      BY <3>2, <3>5, <3>6, <3>7, <3>8, Zenon
  <2>2. CASE ~paused
    <3>1. /\ socks' \in Seq(Sockets) /\ Len(socks') = Len(socks)
          /\ socks' = <<>> <=> socks = <<>>
          /\ \A i \in 1..Len(socks') : ~Live(socks'[i]) /\ socks'[i].state # "open"
      BY <1>1, <1>2, <2>2, CleanedTyped
    <3>2. DOMAIN socks' = 1..Len(socks') /\ (socks' # <<>> => Len(socks') \in 1..Len(socks'))
      BY <3>1, LenProperties, EmptySeq
    <3>3. connected' = FALSE /\ key' = key /\ buffer' = buffer
      BY <1>1, <2>2
    <3>4. StreamOfPage'
      BY <1>2, <3>1, <3>2, <3>3 DEF StreamOfPage, Live
    <3>5. Indicator'
      BY <3>1, <3>2, <3>3 DEF Indicator
    <3>6. Len(socks') <= moves' + 1
      BY <1>1, <1>2, <3>1, SMT
    <3>7. connected' \in BOOLEAN
      BY <3>3
    <3>8. QED
      BY <3>1, <3>4, <3>5, <3>6, <3>7, Zenon
  <2>3. QED
    BY <1>2, <2>1, <2>2
<1>7. Streams'
  BY <1>1, <1>6 DEF IInv, Streams
<1>8. QED
  BY <1>3, <1>4, <1>5, <1>7 DEF IInv

-----------------------------------------------------------------------------
(* Polling.                                                                *)

\* What no poll, answer or failure touches.
LEMMA StreamsStay ==
  ASSUME Streams, UNCHANGED <<page, key, moves, streamVars>>
  PROVE  Streams'
BY DEF Streams, StreamOfPage, Indicator, Live, streamVars

\* An interval sends for the key that the page has.
LEMMA PollStep == ASSUME IInv, NEW k \in Keys, Poll(k)
                  PROVE  IInv'
<1>1. Sent(flight, page, k) /\ UNCHANGED <<hostVars, pageVars, viewVars, streamVars>>
  BY DEF Poll
<1>2. Page'
  BY <1>1 DEF IInv, Page, hostVars, pageVars
<1>3. Flights'
  <2>1. page' = page /\ page \in {"dashboard", "process"}
    BY <1>1 DEF pageVars, IInv, Page
  <2>2. QED
    BY <1>1, <2>1, SentFlights DEF IInv, Flights
<1>4. Views'
  BY <1>1 DEF IInv, Views, viewVars, pageVars
<1>5. Streams'
  BY <1>1, StreamsStay DEF IInv, pageVars
<1>6. QED
  BY <1>2, <1>3, <1>4, <1>5 DEF IInv

\* The daemon answers.
LEMMA ServeStep == ASSUME IInv, NEW s \in Slots, Serve(s)
                   PROVE  IInv'
<1>1. /\ flight[s] # None /\ flight' = [flight EXCEPT ![s].answer = AnswerTo(flight[s])]
      /\ UNCHANGED <<hostVars, pageVars, viewVars, streamVars>>
  BY DEF Serve
<1>2. flight[s] \in Requests /\ Page /\ Flights
  BY <1>1 DEF IInv, Flights
<1>3. /\ flight[s] \in Lists => AnswerTo(flight[s]) \in Answers(SUBSET Keys)
      /\ flight[s] \in Details => AnswerTo(flight[s]) \in Answers(BOOLEAN)
  BY <1>2, AnswerTyped
<1>4. Flights'
  BY <1>1, <1>2, <1>3, AnswerFlights DEF pageVars
<1>5. Page'
  BY <1>1, <1>2 DEF Page, hostVars, pageVars
<1>6. Views'
  BY <1>1 DEF IInv, Views, viewVars, pageVars
<1>7. Streams'
  BY <1>1, StreamsStay DEF IInv, pageVars
<1>8. QED
  BY <1>4, <1>5, <1>6, <1>7 DEF IInv

\* The request fails in the network.
LEMMA FailStep == ASSUME IInv, NEW s \in Slots, Fail(s)
                  PROVE  IInv'
<1> DEFINE a == [ok |-> FALSE, data |-> None]
<1>1. /\ flight[s] # None /\ flight' = [flight EXCEPT ![s].answer = a]
      /\ changes < MaxChanges /\ changes' = changes + 1
      /\ UNCHANGED <<alive, file, pageVars, viewVars, streamVars>>
  BY DEF Fail, Change
<1>2. a \in Answers(SUBSET Keys) /\ a \in Answers(BOOLEAN)
  BY DEF Answers
<1> HIDE DEF a
<1>3. Flights'
  BY <1>1, <1>2, AnswerFlights DEF IInv, pageVars
<1>4. Page'
  BY <1>1, BoundsAssumption DEF IInv, Page, pageVars
<1>5. Views'
  BY <1>1 DEF IInv, Views, viewVars, pageVars
<1>6. Streams'
  BY <1>1, StreamsStay DEF IInv, pageVars
<1>7. QED
  BY <1>3, <1>4, <1>5, <1>6 DEF IInv

\* An answer is shown, on the page that asked for it.
LEMMA DeliverStep == ASSUME IInv, NEW s \in Slots, Deliver(s)
                     PROVE  IInv'
<1> DEFINE r == flight[s]
<1>1. /\ r # None /\ r.answer # None /\ flight' = [flight EXCEPT ![s] = None]
      /\ UNCHANGED <<hostVars, pageVars, streamVars>>
  BY DEF Deliver
<1>2. r \in Requests /\ r.page = page
  BY <1>1 DEF IInv, Flights
<1>3. Page'
  BY <1>1 DEF IInv, Page, hostVars, pageVars
<1>4. Flights'
  BY <1>1 DEF IInv, Flights, pageVars
<1>5. Views'
  <2>1. CASE r.answer.ok /\ r.page = "dashboard" /\ UNCHANGED <<meta, files>>
             /\ list' = [filter |-> r.key, pids |-> r.answer.data]
    <3>1. r.key \in Keys /\ r.answer.data \in SUBSET Keys
      BY <1>1, <1>2, <2>1 DEF Requests, Lists, Details, Answers
    <3>2. list' \in [filter : Keys, pids : SUBSET Keys]
      BY <2>1, <3>1
    <3>3. page' = "dashboard"
      BY <1>1, <1>2, <2>1 DEF pageVars
    <3>4. QED
      BY <1>2, <2>1, <3>2, <3>3 DEF IInv, Views
  <2>2. CASE r.answer.ok /\ r.page = "process" /\ UNCHANGED list
             /\ meta' = r.key /\ files' = FilesAfter(r)
    <3>1. r.key \in Keys
      BY <1>2 DEF Requests, Lists, Details
    <3>2. files' \in Files \cup {None}
      BY <2>2, <3>1 DEF FilesAfter, FileMap, Files
    <3>3. page' = "process" /\ page = "process"
      BY <1>1, <1>2, <2>2 DEF pageVars
    <3>4. QED
      BY <2>2, <3>1, <3>2, <3>3 DEF IInv, Views
  <2>3. CASE UNCHANGED viewVars
    BY <1>1, <2>3 DEF IInv, Views, viewVars, pageVars
  <2>4. QED
    BY <2>1, <2>2, <2>3 DEF Deliver
<1>6. Streams'
  BY <1>1, StreamsStay DEF IInv, pageVars
<1>7. QED
  BY <1>3, <1>4, <1>5, <1>6 DEF IInv

-----------------------------------------------------------------------------
(* The stream.                                                             *)

\* The live socket is the last one, the page's.
LEMMA LiveIsLast ==
  ASSUME Streams, NEW i \in DOMAIN socks, Live(socks[i])
  PROVE  i = Len(socks) /\ socks[i].pid = key /\ paused = FALSE /\ socks[i] \in Sockets
BY SocketAt DEF Streams, StreamOfPage

\* The handshake of the page's socket ends.
LEMMA OpensStep == ASSUME IInv, NEW i \in DOMAIN socks, Opens(i)
                   PROVE  IInv'
<1> DEFINE t == [socks[i] EXCEPT !.state = "open"]
<1>1. /\ socks[i].state = "connecting" /\ socks' = [socks EXCEPT ![i] = t]
      /\ connected' = TRUE
      /\ UNCHANGED <<hostVars, pageVars, flight, viewVars, paused, buffer, late>>
  BY DEF Opens
<1>2. Streams /\ Live(socks[i])
  BY <1>1 DEF IInv, Live
<1>3. i = Len(socks) /\ socks[i] \in Sockets
  BY <1>2, LiveIsLast
<1>4. t \in Sockets /\ t.pid = socks[i].pid /\ t.state = "open"
  BY <1>3 DEF Sockets
<1> HIDE DEF t
<1>5. /\ socks' \in Seq(Sockets) /\ Len(socks') = Len(socks) /\ Len(socks') <= moves' + 1
      /\ page # "dashboard" /\ StreamOfPage' /\ socks' # <<>> /\ socks'[Len(socks')] = t
  <2>1. buffer' \subseteq {key}
    BY <1>1, <1>2 DEF Streams, StreamOfPage
  <2>2. moves' = moves /\ page' = page /\ key' = key /\ paused' = paused
    BY <1>1 DEF pageVars
  <2>3. QED
    BY <1>1, <1>2, <1>3, <1>4, <2>1, <2>2, OneSocket
<1>6. Indicator'
  BY <1>1, <1>4, <1>5 DEF Indicator
<1>7. Streams'
  BY <1>1, <1>2, <1>5, <1>6 DEF Streams, pageVars
<1>8. Page' /\ Flights' /\ Views'
  BY <1>1 DEF IInv, Page, Flights, Views, hostVars, pageVars, viewVars
<1>9. QED
  BY <1>7, <1>8 DEF IInv

\* A message comes, on the page's socket alone.
LEMMA ReceiveStep == ASSUME IInv, NEW i \in DOMAIN socks, Receive(i)
                     PROVE  IInv'
<1> DEFINE t == [socks[i] EXCEPT !.queue = Tail(@)]
<1>1. /\ socks[i].state = "open" /\ socks[i].queue # <<>>
      /\ socks' = [socks EXCEPT ![i] = t]
      /\ buffer' = buffer \cup {socks[i].pid}
      /\ UNCHANGED <<hostVars, pageVars, flight, list, meta, paused, connected, late>>
  BY DEF Receive
<1>2. Streams /\ Live(socks[i])
  BY <1>1 DEF IInv, Live
<1>3. i = Len(socks) /\ socks[i] \in Sockets /\ socks[i].pid = key
  BY <1>2, LiveIsLast
<1>4. t \in Sockets /\ t.pid = socks[i].pid /\ t.state = socks[i].state
  <2>1. Tail(socks[i].queue) \in Messages
    BY <1>1, <1>3, HeadTailProperties DEF Sockets, Messages
  <2>2. QED
    BY <1>3, <2>1 DEF Sockets
<1> HIDE DEF t
<1>5. /\ socks' \in Seq(Sockets) /\ Len(socks') = Len(socks) /\ Len(socks') <= moves' + 1
      /\ page # "dashboard" /\ StreamOfPage' /\ socks' # <<>> /\ socks'[Len(socks')] = t
  <2>1. buffer' \subseteq {key}
    BY <1>1, <1>2, <1>3 DEF Streams, StreamOfPage
  <2>2. moves' = moves /\ page' = page /\ key' = key /\ paused' = paused
    BY <1>1 DEF pageVars
  <2>3. Live(t) => Live(socks[i])
    BY <1>2
  <2>4. QED
    BY <1>1, <1>2, <1>3, <1>4, <2>1, <2>2, <2>3, OneSocket
<1>6. Indicator'
  <2>1. connected' = connected /\ late' = late /\ socks # <<>> /\ Indicator
    BY <1>1, <1>2, <1>5 DEF Streams, pageVars, IInv, Page, StreamOfPage
  <2>2. QED
    BY <1>1, <1>3, <1>4, <1>5, <2>1 DEF Indicator
<1>7. Streams'
  BY <1>1, <1>2, <1>5, <1>6 DEF Streams, pageVars
<1>8. Views'
  <2>1. files' \in Files \cup {None}
    <3>1. CASE files' = FileMap(socks[i].pid, TRUE)
      BY <1>3, <3>1 DEF FileMap, Files, Sockets
    <3>2. CASE files' = None
      BY <3>2
    <3>3. CASE files # None /\ files' = [files EXCEPT !.state = "closed"]
      BY <3>3 DEF IInv, Views, Files
    <3>4. QED
      BY <3>1, <3>2, <3>3 DEF Receive
  <2>2. QED
    BY <1>1, <1>5, <2>1 DEF IInv, Views, pageVars
<1>9. Page' /\ Flights'
  BY <1>1 DEF IInv, Page, Flights, hostVars, pageVars
<1>10. QED
  BY <1>7, <1>8, <1>9 DEF IInv

\* A socket's end comes: nothing live changes but that socket.
LEMMA EndStep ==
  ASSUME IInv, NEW i \in DOMAIN socks, socks[i].state # "closed",
         socks' = [socks EXCEPT ![i].state = "closed", ![i].queue = <<>>],
         connected' = FALSE, late' \in BOOLEAN,
         late' = TRUE \/ (late' = late /\ i = Len(socks)),
         UNCHANGED <<pageVars, paused, buffer>>
  PROVE  Streams'
<1> DEFINE t == [socks[i] EXCEPT !.state = "closed", !.queue = <<>>]
<1>1. Streams /\ socks[i] \in Sockets
  BY SocketAt DEF IInv, Streams
<1>2. socks' = [socks EXCEPT ![i] = t]
  OBVIOUS
<1>3. t \in Sockets /\ t.pid = socks[i].pid /\ t.state = "closed" /\ ~Live(t)
  BY <1>1, EmptySeq DEF Sockets, Messages, Live
<1> HIDE DEF t
<1>4. /\ socks' \in Seq(Sockets) /\ Len(socks') = Len(socks) /\ Len(socks') <= moves' + 1
      /\ page # "dashboard" /\ StreamOfPage'
      /\ i = Len(socks) => socks'[Len(socks')] = t
  <2>1. buffer' \subseteq {key}
    BY <1>1 DEF Streams, StreamOfPage
  <2>2. moves' = moves /\ page' = page /\ key' = key /\ paused' = paused
    BY DEF pageVars
  <2>3. /\ socks' \in Seq(Sockets) /\ Len(socks') = Len(socks) /\ Len(socks') <= moves' + 1
        /\ page # "dashboard" /\ StreamOfPage'
    BY <1>1, <1>2, <1>3, <2>1, <2>2, OneSocket
  <2>4. i = Len(socks) => socks'[Len(socks')] = t
    BY <1>2, <2>3
  <2>5. QED
    BY <2>3, <2>4
<1>5. Indicator'
  BY <1>3, <1>4 DEF Indicator
<1>6. QED
  BY <1>1, <1>4, <1>5 DEF Streams, pageVars

\* The close of a socket that the page has closed.
LEMMA CloseStep == ASSUME IInv, NEW i \in DOMAIN socks, CloseComes(i)
                   PROVE  IInv'
<1>1. UNCHANGED <<hostVars, pageVars, flight, viewVars, paused, buffer>>
  BY DEF CloseComes
<1>2. /\ socks[i].state = "closing"
      /\ socks' = [socks EXCEPT ![i].state = "closed", ![i].queue = <<>>]
      /\ connected' = FALSE /\ late' = TRUE
  BY DEF CloseComes
<1>3. socks[i].state # "closed" /\ late' \in BOOLEAN
  BY <1>2
<1>4. Streams'
  <2>1. late' = TRUE \/ (late' = late /\ i = Len(socks))
    BY <1>2, Zenon
  <2>2. UNCHANGED <<pageVars, paused, buffer>>
    BY <1>1
  <2>3. QED
    BY <1>2, <1>3, <2>1, <2>2, EndStep, Zenon
<1>5. Page' /\ Flights' /\ Views'
  BY <1>1 DEF IInv, Page, Flights, Views, hostVars, pageVars, viewVars
<1>6. QED
  BY <1>4, <1>5 DEF IInv

\* The end that the daemon or the network makes.
LEMMA BreakStep == ASSUME IInv, NEW i \in DOMAIN socks, Breaks(i)
                   PROVE  IInv'
<1>1. /\ Live(socks[i]) /\ changes < MaxChanges /\ changes' = changes + 1
      /\ UNCHANGED <<alive, file, pageVars, flight, viewVars, paused, buffer, late>>
  BY DEF Breaks, Change
<1>2. Streams'
  <2>1. Streams
    BY DEF IInv
  <2>2. i = Len(socks) /\ socks[i].state # "closed" /\ late' = late /\ late \in BOOLEAN
    BY <1>1, <2>1, LiveIsLast DEF Live, Streams
  <2>3. QED
    BY <1>1, <2>2, EndStep DEF Breaks
<1>3. Page'
  BY <1>1, BoundsAssumption DEF IInv, Page, pageVars
<1>4. Flights' /\ Views'
  BY <1>1 DEF IInv, Flights, Views, pageVars, viewVars
<1>5. QED
  BY <1>2, <1>3, <1>4 DEF IInv

-----------------------------------------------------------------------------
(* The host.                                                               *)

\* Only queues grow when an event is sent.
LEMMA QueuesGrow ==
  ASSUME Streams, NEW sent,
         sent = [i \in DOMAIN socks |-> sent[i]],
         \A i \in DOMAIN socks : /\ sent[i] \in Sockets
                                /\ sent[i].pid = socks[i].pid /\ sent[i].state = socks[i].state,
         socks' = sent, UNCHANGED <<pageVars, paused, connected, buffer, late>>
  PROVE  Streams'
<1>1. socks \in Seq(Sockets) /\ DOMAIN socks = 1..Len(socks) /\ Len(socks) \in Nat
  BY SocketAt DEF Streams
<1>2. socks' \in [1..Len(socks) -> Sockets]
  BY <1>1
<1>3. socks' \in Seq(Sockets) /\ Len(socks') = Len(socks)
  BY <1>1, <1>2
<1>4. DOMAIN socks' = DOMAIN socks /\ (socks' = <<>> <=> socks = <<>>)
  BY <1>1, <1>3, LenProperties, EmptySeq
<1>5. StreamOfPage'
  BY <1>3, <1>4 DEF Streams, StreamOfPage, Live, pageVars
<1>6. Indicator'
  <2>1. socks # <<>> => socks'[Len(socks')].state = socks[Len(socks)].state
    BY <1>1, <1>3, SocketAt
  <2>2. QED
    BY <1>4, <2>1 DEF Streams, Indicator
<1>7. Len(socks') <= moves' + 1 /\ (page' = "dashboard" => socks' = <<>> /\ buffer' = {})
  BY <1>3, <1>4 DEF Streams, pageVars
<1>8. connected' \in BOOLEAN /\ paused' \in BOOLEAN /\ late' \in BOOLEAN
  BY Zenon DEF Streams
<1>9. QED
  BY <1>3, <1>5, <1>6, <1>7, <1>8, Zenon DEF Streams

\* A process opens or closes its file, and the event is sent or lost.
LEMMA ToggleStep == ASSUME IInv, NEW k \in Keys, Toggle(k)
                    PROVE  IInv'
<1> DEFINE event == IF k \in file THEN "close" ELSE "open"
           Sends(s) == IF Live(s) /\ s.pid = k THEN [s EXCEPT !.queue = Append(@, event)] ELSE s
           sent == [i \in DOMAIN socks |-> Sends(socks[i])]
<1>1. /\ k \in alive /\ changes < MaxChanges /\ changes' = changes + 1
      /\ file' = IF k \in file THEN file \ {k} ELSE file \cup {k}
      /\ socks' = socks \/ socks' = sent
      /\ UNCHANGED <<alive, pageVars, flight, viewVars, paused, connected, buffer, late>>
  BY DEF Toggle, Change
<1>2. event \in {"open", "close"}
  OBVIOUS
<1>3. ASSUME NEW s \in Sockets
      PROVE  Sends(s) \in Sockets /\ Sends(s).pid = s.pid /\ Sends(s).state = s.state
  <2> HIDE DEF event
  <2>1. Append(s.queue, event) \in Messages
    BY <1>2, AppendProperties DEF Sockets, Messages
  <2>2. QED
    BY <2>1 DEF Sockets
<1> HIDE DEF Sends
<1>4. \A i \in DOMAIN socks : sent[i] = Sends(socks[i]) /\ socks[i] \in Sockets
  BY SocketAt DEF IInv, Streams
<1>5. sent = [i \in DOMAIN socks |-> sent[i]]
  OBVIOUS
<1> HIDE DEF sent
<1>6. \A i \in DOMAIN socks : /\ sent[i] \in Sockets
                             /\ sent[i].pid = socks[i].pid /\ sent[i].state = socks[i].state
  BY <1>3, <1>4
<1>7. Streams'
  <2>1. CASE socks' = socks
    <3>1. UNCHANGED <<page, key, moves, streamVars>>
      BY <1>1, <2>1 DEF pageVars, streamVars
    <3>2. QED
      BY <3>1, StreamsStay DEF IInv
  <2>2. CASE socks' = sent
    BY <1>1, <1>5, <1>6, <2>2, QueuesGrow DEF IInv
  <2>3. QED
    BY <1>1, <2>1, <2>2
<1>8. Page'
  BY <1>1, BoundsAssumption DEF IInv, Page, pageVars
<1>9. Flights' /\ Views'
  BY <1>1 DEF IInv, Flights, Views, pageVars, viewVars
<1>10. QED
  BY <1>7, <1>8, <1>9 DEF IInv

\* A process ends.
LEMMA DieStep == ASSUME IInv, NEW k \in Keys, Die(k)
                 PROVE  IInv'
<1>1. /\ changes < MaxChanges /\ changes' = changes + 1
      /\ alive' = alive \ {k} /\ file' = file \ {k}
      /\ UNCHANGED <<pageVars, flight, viewVars, streamVars>>
  BY DEF Die, Change
<1>2. Page'
  BY <1>1, BoundsAssumption DEF IInv, Page, pageVars
<1>3. Flights' /\ Views'
  BY <1>1 DEF IInv, Flights, Views, pageVars, viewVars
<1>4. Streams'
  BY <1>1, StreamsStay DEF IInv, pageVars
<1>5. QED
  BY <1>2, <1>3, <1>4 DEF IInv

-----------------------------------------------------------------------------
(* The theorems.                                                           *)

\* Every step keeps the invariant.
LEMMA NextIInv == IInv /\ [Next]_vars => IInv'
<1> SUFFICES ASSUME IInv, [Next]_vars
             PROVE  IInv'
  OBVIOUS
<1>1. CASE UNCHANGED vars
  <2>1. UNCHANGED <<page, key, moves, streamVars>>
    BY <1>1 DEF vars, pageVars
  <2>2. Streams'
    BY <2>1, StreamsStay DEF IInv
  <2>3. Page' /\ Flights' /\ Views'
    BY <1>1 DEF IInv, Page, Flights, Views, vars, hostVars, pageVars, viewVars
  <2>4. QED
    BY <2>2, <2>3 DEF IInv
<1>2. CASE User
  BY <1>2, PauseStep, LeaveStep, FilterStep, GoToStep DEF User
<1>3. CASE Network
  BY <1>3, ServeStep, FailStep, DeliverStep DEF Network
<1>4. CASE Stream
  BY <1>4, OpensStep, ReceiveStep, CloseStep, BreakStep DEF Stream
<1>5. CASE \E k \in Keys : Poll(k) \/ Toggle(k) \/ Die(k)
  BY <1>5, PollStep, ToggleStep, DieStep
<1>6. QED
  BY <1>1, <1>2, <1>3, <1>4, <1>5 DEF Next

\* The invariant holds in every behaviour of the page.
THEOREM Invariance == Spec => []IInv
<1>1. Init => IInv
  BY InitIInv
<1>2. IInv /\ [Next]_vars => IInv'
  BY NextIInv
<1>3. QED
  BY <1>1, <1>2, PTL DEF Spec

\* The invariant says what the type invariant says, more precisely.
LEMMA TypesFromIInv == IInv => TypeOK
<1> SUFFICES ASSUME IInv
             PROVE  TypeOK
  OBVIOUS
<1>1. ASSUME NEW s \in Slots, flight[s] # None
      PROVE  flight[s].page = page /\ flight[s].key \in Keys
  BY <1>1 DEF IInv, Flights, Requests, Lists, Details
<1>2. /\ list # None => list.filter \in Keys /\ list.pids \subseteq Keys
      /\ files # None => files.pid \in Keys /\ files.state \in {"open", "closed"}
  BY DEF IInv, Views, Files
<1>3. Len(socks) <= MaxMoves + 1
  BY BoundsAssumption, LenProperties DEF IInv, Page, Streams
<1>4. buffer \subseteq Keys
  BY DEF IInv, Page, Streams, StreamOfPage
<1>5. /\ page = "dashboard" => socks = <<>> /\ meta = None /\ files = None
      /\ page = "process" => list = None
      /\ connected \in BOOLEAN /\ paused \in BOOLEAN /\ late \in BOOLEAN
      /\ meta \in Keys \cup {None} /\ Page
  BY Zenon DEF IInv, Views, Streams
<1>6. QED
  BY <1>1, <1>2, <1>3, <1>4, <1>5, Zenon DEF TypeOK, Page

\* The page's requests, pictures and sockets keep their shapes, and there is one
\* interval, for what the page is about.
THEOREM TypeCorrect == Spec => []TypeOK
BY Invariance, TypesFromIInv, PTL

\* At most one socket is live, the last one, for the page's process, none while
\* paused; and only that process's events are kept.
THEOREM OneStream == Spec => []StreamOfPage
<1>1. IInv => StreamOfPage
  BY DEF IInv, Streams
<1>2. QED
  BY <1>1, Invariance, PTL

\* LIVE is shown only over an open socket, and an open one is shown as closed only
\* after the late close of a former one.
THEOREM IndicatorRight == Spec => []Indicator
<1>1. IInv => Indicator
  BY DEF IInv, Streams
<1>2. QED
  BY <1>1, Invariance, PTL

=============================================================================
