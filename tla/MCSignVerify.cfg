SPECIFICATION FairSpec
CONSTANTS
  N = 11
  Half = 8
  FieldSize = 16
  FieldMul <- MCFieldMul
  X <- MCX
  Base = 4
  Length = 2
  PrivateKeys = {1, 4, 10}
  Hashes = {0, 1, 6, 15, 16, 19}
  Elsewhere <- MCElsewhere
INVARIANTS
  SignedVerifies
  AcceptsExactlySigned
PROPERTY SignReturns
CHECK_DEADLOCK FALSE
