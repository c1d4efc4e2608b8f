SPECIFICATION FairStreamsSpec
CONSTANTS
  Pids = {p1, p2}
  Clients = {w1, s1}
  WsClients = {w1}
  Channels = {ch1, ch2}
  None = None
  MaxTargets = 2
  InsertMayFail = FALSE
  EventLimit = 1
  QueueCap = 1
INVARIANTS
  StreamsTypeOK
  ReceiverRegistered
PROPERTIES
  AbandonedOnlyPastGuard
  SessionEnds
