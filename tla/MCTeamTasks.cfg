SPECIFICATION Spec
CONSTANTS
  NoWorker = NoWorker
  Worker = {w1, w2}
  LeaseTicks = 1
  DepChoice = {{}, {1}}
  CodeChoice = {TRUE, FALSE}
  MaxTask = 2
  MaxClaim = 3
  MaxVersion = 3
  MaxCrash = 1
SYMMETRY WorkerSymmetry
CHECK_DEADLOCK FALSE
INVARIANTS
  TypeOK
  OwnershipAgrees
  InFlightOwnsClaim
  ClaimedAfterDeps
  EvidenceBeforeCompleted
PROPERTIES
  TerminalIsFinal
  VersionCountsWrites
  LiveClaimNotTakenOver
