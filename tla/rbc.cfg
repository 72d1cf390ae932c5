SPECIFICATION FairSpec
CONSTANTS
  a = a
  b = b
  c = c
  d = d
  Nodes = {a, b, c, d}
  Faulty = {d}
  Leader = d
  F = 1
  R1 = R1
  R2 = R2
  Roots = {R1, R2}
  Encodings = {R1}
  Input = R1
  MaxFaulty = 1
  None = None
  Failed = Failed
INVARIANTS
  TypeOK
  ReadyAgreement
  ReadyIsRecoverable
PROPERTY
  ImplementsBroadcast
CHECK_DEADLOCK FALSE
