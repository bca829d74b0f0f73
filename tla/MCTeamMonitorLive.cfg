SPECIFICATION FairSpec
CONSTANTS
  NoWorker = NoWorker
  Worker = {w1, w2}
  LeaseTicks = 1
  DepChoice = {{}}
  CodeChoice = {TRUE}
  MaxTask = 1
  MaxClaim = 1
  MaxVersion = 2
  MaxCrash = 1
  LaunchMode = "interactive"
  MaxFix = 0
  MaxRestart = 1
  MaxHook = 0
INVARIANTS
  MarkImpliesAnnounced
  EventsTellTheTruth
PROPERTIES
  EveryClaimEnds
  LostCompletionRecovered
  CompletePhaseReopens
