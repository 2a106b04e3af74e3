SPECIFICATION Spec
CONSTANTS
  j1 = j1
  j2 = j2
  v1 = v1
  v2 = v2
  r1 = r1
  r2 = r2
  nobody = nobody
  NoJob <- nobody
  Jobs <- TwoJobs
  Volumes <- OneVolume
  Recoverers <- NoRecoverer
  MaxAppCrashes = 0
  MaxWorkerCrashes = 0
  MaxRecoveryCrashes = 0
VIEW WithoutHistory
SYMMETRY Interchangeable
INVARIANTS
  RecordIsOwned
PROPERTIES
  NoJobIsForgotten
