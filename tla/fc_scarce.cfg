SPECIFICATION FairSpec
CONSTANTS
  Nodes = {0, 1, 2}
  F = 1
  Slots = 2
  KeyNum = 6
  TxInit = 1
  Batch = 1
  VrfHash <- MCTwoPropose
  Synchronous = TRUE
  MaxMiss = 1
  MaxCrash = 1
  None = None
  NoHash = NoHash
  NoQuorum = NoQuorum
INVARIANTS
  GradedAgreement
  GradePropagation
PROPERTIES
  Termination
CHECK_DEADLOCK FALSE
