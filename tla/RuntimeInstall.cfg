SPECIFICATION FairSpec
CHECK_DEADLOCK FALSE
CONSTANTS
  i1 = i1
  i2 = i2
  w1 = w1
  w2 = w2
  nothing = nothing
  Nothing <- nothing
  Installers <- TwoInstallers
  Workers <- TwoWorkers
INVARIANTS
  RuntimeIsWhole
PROPERTIES
  TrustedKeepsRuntime
  BundleKept
  InstallerEnds
