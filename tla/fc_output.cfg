SPECIFICATION Spec
CONSTANTS
  Nodes = {0, 1, 2, 3}
  F = 1
  Slots = 2
  KeyNum = 1024
  TxInit = 4
  Batch = 1
  VrfHash <- MCAllSelected
  Synchronous = TRUE
  MaxMiss = 0
  MaxCrash = 0
  None = None
  NoHash = NoHash
  NoQuorum = NoQuorum
INVARIANTS
  SameOutput
