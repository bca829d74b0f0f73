SPECIFICATION Spec
CONSTANTS
  Worker = {w1, w2, w3}
  Task = {t}
  Nobody = Nobody
  NoFile = NoFile
  Untouched = Untouched
  FirstWorkers = {w1}
  LateFault <- AllButTheLast
  MaxGen = 5
  MaxCrash = 1
  MaxFault = 1
SYMMETRY WorkerSymmetry
INVARIANTS
  ScalingTypeOK
  KilledAreOut
  DebtAllOrNothing
  ClaimedByMember
PROPERTIES
  ImplementsStore
  NoPaneLost
