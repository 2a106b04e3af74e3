SPECIFICATION Spec
CONSTANTS
  j1 = j1
  j2 = j2
  v1 = v1
  v2 = v2
  r1 = r1
  r2 = r2
  nobody = nobody
  NoJob <- nobody
  Jobs <- OneJob
  Volumes <- TwoVolumes
  Recoverers <- TwoRecoverers
  MaxAppCrashes = 1
  MaxWorkerCrashes = 1
  MaxRecoveryCrashes = 1
SYMMETRY Interchangeable
INVARIANTS
  AcceptedCancelHonoured
  CompleteIsTrue
  ConfirmedMeansGone
  SnapshotsAreTended
  ErasureIsTold
PROPERTIES
  BoundaryKept
