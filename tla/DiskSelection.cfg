SPECIFICATION Spec
CONSTANTS
  n0 = n0
  n1 = n1
  n2 = n2
  Disks <- MCDisks
  SystemDisk = "sys"
  VaultDisk = "vault"
  Numbers <- MCNumbers
  Identities <- MCIdentities
  SystemIdentity <- MCSystemIdentity
  Layouts <- MCLayouts
  SystemLayout <- MCSystemLayout
  MaxChanges = 3
CHECK_DEADLOCK FALSE
SYMMETRY Symm
INVARIANTS
  EnrolledIsPicked
  SafeSelection
  SuccessIsStructural
