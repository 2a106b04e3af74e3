SPECIFICATION FairSpec
CONSTANTS
  r1 = r1
  r2 = r2
  Runners <- MCRunners
  MaxCrashes = 1
CHECK_DEADLOCK FALSE
INVARIANTS
  EngineOnce
  ReturnIsTrue
PROPERTIES
  ChannelIsFinal
  RunningEnds
