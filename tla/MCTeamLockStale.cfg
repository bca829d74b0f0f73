SPECIFICATION Spec
CONSTANTS
  None = None
  Process = {p1, p2, p3}
  MaxDir = 3
  MaxCrash = 1
CHECK_DEADLOCK FALSE
INVARIANTS
  MutualExclusion
