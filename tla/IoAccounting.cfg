SPECIFICATION KernelSpec
CONSTANTS
  Cpus = {k1, k2}
  Pids = {p1, p2}
  Socks = {s1, s2}
  Elems = {e1, e2}
  None = None
  MaxFlows = 2
  MaxBytes = 3
SYMMETRY Symmetry
INVARIANTS
  KernelTypeOK
  BytesAccounted
  FlowExact
  OwnSocket
PROPERTIES
  ImplementsCounters
