SPECIFICATION FairSpec
CONSTANTS
  a = a
  b = b
  c = c
  Nodes = {a, b, c}
  Faulty = {c}
  F = 1
  B = 2
  RoundsToRun = 2
  Tx = {1, 2, 3, 4, 5, 6, 7, 8, 9}
  Submitted <- MCApart
  FaultyBatch = {9}
  CallMatches = FALSE
  None = None
PROPERTIES
  OneRoundRuns
CHECK_DEADLOCK FALSE
