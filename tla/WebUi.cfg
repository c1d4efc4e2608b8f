SPECIFICATION FairSpec
CONSTANTS
  Keys = {k1, k2}
  FirstKey = k1
  None = None
  MaxInFlight = 2
  MaxMoves = 2
  MaxChanges = 2
INVARIANTS
  TypeOK
  StreamOfPage
  Indicator
PROPERTIES
  Settles
