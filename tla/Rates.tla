--------------------------------- MODULE Rates ---------------------------------
(***************************************************************************)
(* The rates poller (src/rates.rs) over the counters of IoCounters.  Every *)
(* period it reads all counters and publishes the differences from the     *)
(* previous reading.  Counters vanish, start anew, and a reading may fail. *)
(*                                                                         *)
(* A rate is given here as the bytes since the previous poll: the poller   *)
(* divides by the time since then, a period.  A reading goes from key to   *)
(* key while programs count; keys have nothing to do with each other, so   *)
(* one step stands for all of them.                                        *)
(***************************************************************************)
EXTENDS IoCounters, FiniteSets, Functions

CONSTANTS
  MaxCounted,  \* bound on the bytes counted
  MaxFails     \* bound on the readings that fail

ASSUME CountersAssumption == IsFiniteSet(Pids) /\ None \notin Int
ASSUME PollsAssumption == MaxCounted \in Nat /\ MaxFails \in Nat

VARIABLES
  prev,      \* prev_io: process -> counter, or None
  primed,    \* prev_at is there
  rates,     \* per_pid_rates as published
  host,      \* host_rates as published
  fails,     \* readings that have failed so far
  total,     \* history: bytes ever counted, by process
  mark,      \* history: total at the last poll
  evicted,   \* history: entries that have vanished since the last poll
  blind      \* history: the last reading has failed

pollVars == <<prev, primed, rates, host, fails, mark, blind>>
ratesVars == <<counter, pollVars, total, evicted>>

Nothing == [p \in Pids |-> None]
Zero == [p \in Pids |-> 0]

RatesInit ==
  /\ CountersInit
  /\ prev = Nothing /\ primed = FALSE
  /\ rates = Nothing /\ host = 0
  /\ fails = 0
  /\ total = Zero /\ mark = Zero
  /\ evicted = {} /\ blind = FALSE

-----------------------------------------------------------------------------
\* A BPF program counts a byte.
CountByte(p, gone) ==
  /\ SumFunction(total) < MaxCounted
  /\ gone \subseteq {q \in Pids : counter[q] # None}
  /\ Count(p, gone)
  /\ total' = [total EXCEPT ![p] = @ + 1]
  /\ evicted' = evicted \cup gone
  /\ UNCHANGED pollVars

-----------------------------------------------------------------------------
(* compute_rates.                                                          *)

\* Mutant: the distance of the two counters, whichever is the greater.
Delta_Distance(new, old) == IF new >= old THEN new - old ELSE old - new

\* saturating_sub.
Delta(new, old) == IF new >= old THEN new - old ELSE 0

\* unwrap_or_default.
Before(p) == IF prev[p] = None THEN 0 ELSE prev[p]

\* A process in the sample has a rate, from the second poll on.
Rate(sample, p) ==
  IF sample[p] = None \/ ~primed THEN None ELSE Delta(sample[p], Before(p))

\* Mutant: the sums are not reset.
HostRate_Growing(new) == host + SumFunction([p \in Pids |-> IF new[p] = None THEN 0 ELSE new[p]])

HostRate(new) == SumFunction([p \in Pids |-> IF new[p] = None THEN 0 ELSE new[p]])

\* What each poll does with its sample; *snapshot is replaced as a whole.
Publish(sample) ==
  /\ rates' = [p \in Pids |-> Rate(sample, p)]
  /\ host' = HostRate(rates')
  /\ prev' = sample
  /\ primed' = TRUE
  /\ mark' = total
  /\ evicted' = {}
  /\ UNCHANGED <<counter, total>>

\* A poll that reads the map.
Poll ==
  /\ Publish(counter)
  /\ blind' = FALSE
  /\ UNCHANGED fails

\* A poll whose reading fails: it has an empty sample, and goes on with it.
PollFails ==
  /\ fails < MaxFails
  /\ fails' = fails + 1
  /\ Publish(Nothing)
  /\ blind' = TRUE

-----------------------------------------------------------------------------
RatesNext ==
  \/ \E p \in Pids, gone \in SUBSET Pids : CountByte(p, gone)
  \/ Poll \/ PollFails

RatesSpec == RatesInit /\ [][RatesNext]_ratesVars

-----------------------------------------------------------------------------
(* Properties.                                                             *)

\* Shapes; the host's rates are those of the processes published with them.
RatesTypeOK ==
  /\ counter \in [Pids -> Nat \cup {None}]
  /\ prev \in [Pids -> Nat \cup {None}]
  /\ rates \in [Pids -> Nat \cup {None}]
  /\ total \in [Pids -> Nat] /\ mark \in [Pids -> Nat]
  /\ fails \in 0..MaxFails
  /\ evicted \subseteq Pids
  /\ primed \in BOOLEAN /\ blind \in BOOLEAN
  /\ host = HostRate([p \in Pids |-> IF rates[p] = None THEN 0 ELSE rates[p]])

\* After a good poll, the next one publishes for a process just what has been
\* counted since, in its first poll too, or less where the entry has been evicted
\* in between; the host's rate is never more than all that was counted.  After a
\* failed one nothing holds: a whole counter comes as the rate of one period, for
\* one period (rates.rs:98, 136-140).
RatesExplained ==
  [][(Poll \/ PollFails) /\ ~blind =>
       /\ \A p \in Pids :
            LET rate == IF rates'[p] = None THEN 0 ELSE rates'[p]
                news == total[p] - mark[p]
            IN  /\ rate <= news
                /\ Poll /\ primed /\ p \notin evicted => rate = news
       /\ host' <= SumFunction(total) - SumFunction(mark)]_ratesVars
=============================================================================
