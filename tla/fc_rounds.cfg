SPECIFICATION Spec
CONSTANTS
  Nodes = {0, 1}
  F = 1
  Slots = 3
  KeyNum = 1024
  TxInit = 4
  Batch = 1
  VrfHash <- MCAllSelected
  Synchronous = TRUE
  MaxMiss = 1
  MaxCrash = 0
  None = None
  NoHash = NoHash
  NoQuorum = NoQuorum
INVARIANTS
  TypeOK
  OneMessagePerStep
  RoundAccounting
  TipIsLastOutput
  CertificateChain
