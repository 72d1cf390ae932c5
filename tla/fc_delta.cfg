SPECIFICATION Spec
CONSTANTS
  Nodes = {0, 1, 2}
  F = 1
  Slots = 2
  KeyNum = 1024
  TxInit = 4
  Batch = 1
  VrfHash <- MCAllSelected
  Synchronous = TRUE
  MaxMiss = 0
  MaxCrash = 1
  None = None
  NoHash = NoHash
  NoQuorum = NoQuorum
INVARIANTS
  SynchronousAgreement
CHECK_DEADLOCK FALSE
