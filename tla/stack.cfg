SPECIFICATION StackSpec
CONSTANTS
  a = a
  b = b
  c = c
  d = d
  R1 = R1
  R2 = R2
  Value = Value
  Failed = Failed
  None = None
  Nodes = {a, b, c}
  Faulty = {c}
  F = 1
  B = 2
  RoundsToRun = 2
  Tx = {1, 2, 3, 4, 5, 6, 7, 8, 9}
  Submitted <- MCApart
  FaultyBatch = {9}
  CallMatches = TRUE
  Message = Message
  NoMessage = NoMessage
INVARIANTS
  StackTypeOK
  SameSubset
  SameCoin
  SameBlocks
  NothingLost
  DeliveredOnce
  BranchesBind
  FewLiars
  ThresholdCounts
PROPERTIES
  AgreementsAreFaithful
  CallsReturn
CHECK_DEADLOCK FALSE
