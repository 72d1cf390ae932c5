SPECIFICATION QSpec
CONSTANTS
  Nodes = {0, 1}
  F = 1
  Slots = 2
  KeyNum = 1024
  TxInit = 4
  Batch = 1
  VrfHash <- MCAllSelected
  Synchronous = FALSE
  MaxMiss = 2
  MaxCrash = 0
  None = None
  NoHash = NoHash
  NoQuorum = NoQuorum
PROPERTIES
  EarlyMessagesKept
