SPECIFICATION Spec
CONSTANTS
  a = a
  b = b
  c = c
  d = d
  Nodes = {a, b, c, d}
  Faulty = {d}
  F = 1
  MaxEpoch = 1
  Coins <- MCCoinOne
  MaxInputs <- MCOneZero
  None = None
SYMMETRY Alike
INVARIANTS
  FewAbandoned
CHECK_DEADLOCK FALSE
