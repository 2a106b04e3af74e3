SPECIFICATION Spec
CONSTANTS
  r1 = r1
  r2 = r2
  i1 = i1
  Runs <- MCRuns
  Importers <- MCImporters
  KeepOffline = TRUE
  MaxHalfDays = 1
  MaxCrashes = 1
SYMMETRY Symmetry
CHECK_DEADLOCK FALSE
INVARIANTS
  CloneIsExclusive
  EndedHoldsNoLock
  TargetOfflineAtRest
PROPERTIES
  ProviderIsWaitedFor
