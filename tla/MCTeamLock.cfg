SPECIFICATION FairSpec
CONSTANTS
  None = None
  Process = {p1, p2, p3}
  MaxDir = 5
  MaxCrash = 2
CHECK_DEADLOCK FALSE
INVARIANTS
  HolderAloneUnlessMisfired
PROPERTIES
  OnlyRecoveryMisfires
  DeadLockRemoved
