SPECIFICATION Spec
CONSTANTS
  Pids = {p1}
  Clients = {c1, c2}
  Channels = {ch1, ch2}
  None = None
  MaxTargets = 1
  InsertMayFail = FALSE
INVARIANTS
  SubscribedArmed
