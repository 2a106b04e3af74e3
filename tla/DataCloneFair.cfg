SPECIFICATION FairSpec
CONSTANTS
  j1 = j1
  j2 = j2
  v1 = v1
  v2 = v2
  r1 = r1
  r2 = r2
  nobody = nobody
  NoJob <- nobody
  Jobs <- OneJob
  Volumes <- OneVolume
  Recoverers <- NoRecoverer
  MaxAppCrashes = 1
  MaxWorkerCrashes = 1
  MaxRecoveryCrashes = 0
PROPERTIES
  AppReturns
  WorkerEnds
