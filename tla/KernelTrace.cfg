SPECIFICATION Spec
CONSTANTS
  Tasks = {t1, t2, t3}
  Paths = {f1, f2}
  None = None
  MaxTargets = 2
  MaxArgs = 1
SYMMETRY Symmetry
INVARIANTS
  TypeOK
  OpenNamed
  ArgsReturned
  MetricsExplained
