----------------------------- MODULE TraceControl -----------------------------
(***************************************************************************)
(* What the registry promises (the module comment of src/stream.rs and the *)
(* comment on `subscribe'): a process is traced while it has subscribers   *)
(* and, once it has none, until the tracing is switched off.               *)
(***************************************************************************)
CONSTANTS Pids, Clients

VARIABLES
  subs,   \* PID -> the clients subscribed to it
  armed   \* the PIDs the registry has had traced

abstractVars == <<subs, armed>>

Init == subs = [p \in Pids |-> {}] /\ armed = {}

\* The first subscriber is on its way.
SwitchOn(p) == subs[p] = {} /\ armed' = armed \cup {p} /\ UNCHANGED subs

Join(c, p) ==
  /\ p \in armed
  /\ \A q \in Pids : c \notin subs[q]
  /\ subs' = [subs EXCEPT ![p] = @ \cup {c}]
  /\ UNCHANGED armed

Leave(c, p) ==
  /\ c \in subs[p]
  /\ subs' = [subs EXCEPT ![p] = @ \ {c}]
  /\ UNCHANGED armed

\* The last subscriber has gone.
SwitchOff(p) == subs[p] = {} /\ armed' = armed \ {p} /\ UNCHANGED subs

Next == \E p \in Pids : \/ SwitchOn(p)
                        \/ SwitchOff(p)
                        \/ \E c \in Clients : Join(c, p) \/ Leave(c, p)

Spec == Init /\ [][Next]_abstractVars

\* Tracing nobody listens to does not go on for ever.
FairSpec == Spec /\ \A p \in Pids : WF_abstractVars(SwitchOff(p))
=============================================================================
