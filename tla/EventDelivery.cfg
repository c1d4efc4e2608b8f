SPECIFICATION FairSpec
CONSTANTS
  Pids = {p1, p2}
  Clients = {c1, c2}
  None = None
  RingCap = 2
  EventLimit = 1
  MaxEvents = 3
INVARIANTS TypeOK NoLostWakeup Ordered Accounted
PROPERTIES Delivered
