SPECIFICATION Spec
CONSTANTS
  B = 4
  Bits = 2
  BS = 2
  HashStep <- MCHashStep
  ZeroH <- MCZeroH
  c1 = c1
  c2 = c2
  Ctx = {c1, c2}
  NullCtx = NullCtx
  Box = {b0, b1}
  DefaultBox = b0
  ZeroBox = ZeroBox
  Mixed = Mixed
  Pieces <- MCPieces
  MaxLen = 6
SYMMETRY Swap
INVARIANTS
  StateIsOfMessage
  DigestIsOfMessage
  OwnCipher
CHECK_DEADLOCK FALSE
