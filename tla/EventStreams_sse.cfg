SPECIFICATION StreamsSpec
CONSTANTS
  Pids = {p1}
  Clients = {s1}
  WsClients = {}
  Channels = {ch1, ch2}
  None = None
  MaxTargets = 1
  InsertMayFail = FALSE
  EventLimit = 1
  QueueCap = 1
INVARIANTS
  RemovedWithLast
