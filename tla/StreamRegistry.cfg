SPECIFICATION FairSpec
CONSTANTS
  Pids = {p1, p2, p3}
  Clients = {c1, c2, c3}
  Channels = {ch1, ch2, ch3}
  None = None
  MaxTargets = 2
  InsertMayFail = TRUE
INVARIANTS
  TypeOK
  ReceiverRegistered
  EntryOwned
  TargetOwned
PROPERTIES
  DisarmSticks
  WoundUp
