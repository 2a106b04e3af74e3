SPECIFICATION Spec
CONSTANTS
  w1 = w1
  w2 = w2
  m1 = m1
  m2 = m2
  Workers <- MCWorkers
  Monitors <- MCMonitors
  MaxRuns = 3
  MaxScheduled = 2
  MaxRequests = 2
  MaxCrashes = 1
CHECK_DEADLOCK FALSE
SYMMETRY Symmetric
INVARIANTS
  RetriesAreSound
  OneOfEach
PROPERTIES
  CancelIsHonoured
