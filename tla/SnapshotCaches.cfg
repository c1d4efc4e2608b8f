SPECIFICATION FairSpec
CONSTANTS
  Pids = {p1, p2}
  Namespaces = {n1, n2}
  None = None
  MaxChanges = 3
INVARIANTS
  TypeOK
  AbsentUnlisted
  TreeExplained
PROPERTIES
  EventuallyCurrent
