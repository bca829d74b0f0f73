SPECIFICATION Spec
CONSTANTS
  Request = {r1, r2}
  Message = {m}
  Team = {a, b}
  NoTeam = NoTeam
  MaxDeath = 2
SYMMETRY EngineSymmetry
CHECK_DEADLOCK FALSE
INVARIANTS
  EngineTypeOK
  OldAndNewFilesLoad
PROPERTIES
  ImplementsStore
  NeverRequeued
