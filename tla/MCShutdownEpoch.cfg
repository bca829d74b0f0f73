SPECIFICATION MonitorSpec
CONSTANTS
  NoWorker = NoWorker
  Worker = {w1}
  LeaseTicks = 1
  DepChoice = {{}}
  CodeChoice = {TRUE}
  MaxTask = 2
  MaxClaim = 2
  MaxVersion = 1
  MaxCrash = 0
  LaunchMode = "prompt"
  MaxFix = 1
  MaxRestart = 0
  MaxHook = 0
CHECK_DEADLOCK FALSE
INVARIANTS
  GatedShutdownIsFinal
