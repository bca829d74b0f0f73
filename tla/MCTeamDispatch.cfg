SPECIFICATION Spec
CONSTANTS
  Message = {m1, m2}
  Request = {r1, r2}
  Drain = {d1, d2}
  Nobody = Nobody
  Dead = Dead
  MaxAttempts = 2
  MaxPerTick = 2
  MaxFaults = 2
CHECK_DEADLOCK FALSE
INVARIANTS
  DispatchTypeOK
  OneInjector
  AttemptsLeft
  OneOpenRequest
PROPERTIES
  StatusMovesForward
  StatusTellsTheTruth
  ClaimsAreOpen
  ReceiptsOutliveDoubt
  QueueEmpties
