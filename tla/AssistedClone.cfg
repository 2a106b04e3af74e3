SPECIFICATION Spec
CONSTANTS
  MaxSessions = 3
  MaxRenumberings = 2
  MaxDrifts = 1
  MaxCrashes = 2
CHECK_DEADLOCK FALSE
INVARIANTS
  OnlyTargetIsWritten
  NoAttemptOverPartial
PROPERTIES
  SessionIsTrue
