SPECIFICATION CopiesSpec
CONSTANTS
  f1 = f1
  f2 = f2
  c1 = c1
  c2 = c2
  Files <- MCFiles
  Commands <- MCCommands
  MaxVersion = 2
  MaxChanges = 3
  MaxStarts = 2
  MaxCrashes = 1
CHECK_DEADLOCK FALSE
SYMMETRY Symmetric
INVARIANTS
  ReplicaIsListed
PROPERTIES
  ReplicaIsTrue
  RestoreIsSafe
