SPECIFICATION RatesSpec
CONSTANTS
  Pids = {p1, p2}
  None = None
  MaxCounted = 5
  MaxFails = 2
INVARIANTS
  RatesTypeOK
PROPERTIES
  RatesExplained
