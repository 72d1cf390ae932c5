SPECIFICATION QFairSpec
CONSTANTS
  Nodes = {0, 1}
  F = 1
  Slots = 2
  KeyNum = 7
  TxInit = 1
  Batch = 1
  VrfHash <- MCFewSelected
  Synchronous = FALSE
  MaxMiss = 2
  MaxCrash = 1
  None = None
  NoHash = NoHash
  NoQuorum = NoQuorum
INVARIANTS
  ExactlyOnce
PROPERTIES
  Spec
  QTermination
CHECK_DEADLOCK FALSE
