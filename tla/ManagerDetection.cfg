SPECIFICATION FairSpec
CONSTANTS
  Pids = {1, 2, 3}
  InitComm = "systemd"
  Comms = {"dockerd", "sh"}
  None = None
  MaxChanges = 2
INVARIANTS
  TypeOK
  ManagerNearest
PROPERTIES
  WalkEnds
  NoneMissed
