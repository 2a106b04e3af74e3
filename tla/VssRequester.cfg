SPECIFICATION VssSpec
CONSTANTS
  j1 = j1
  j2 = j2
  v1 = v1
  v2 = v2
  v3 = v3
  Jobs <- TwoJobs
  Volumes <- ThreeVolumes
INVARIANTS
  JournalCoversSnapshots
PROPERTIES
  SuccessMeansWholeSet
  HelperEnds
