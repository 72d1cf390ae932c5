SPECIFICATION Spec
CONSTANTS
  a = a
  b = b
  c = c
  d = d
  Nodes = {a, b, c, d}
  Faulty = {d}
  F = 1
  MaxEpoch = 1
  Coins <- MCZeroThenOne
  MaxInputs <- MCOneZeroAtMost
  None = None
SYMMETRY Alike
INVARIANTS
  TypeOK
  SureValuesAgree
  DecisionIsLocked
  NoWavering
PROPERTIES
  ImplementsAgreement
CHECK_DEADLOCK FALSE
