SPECIFICATION TransferSpec
CONSTANTS
  Byte = {0, 1}
  ZeroByte = 0
  Xor <- MCXor
  BS = 3
  Key = {0, 1}
  ZeroKey = 0
  Sbox = {0, 1}
  DefaultSbox = 0
  E <- MCE
  None = None
  IVs <- MCIVs
  Inputs <- MCInputs
  MaxStream = 9
  ParamsFirst = FALSE
  Sizes = {1, 2, 4, 7}
INVARIANT RoundTrip
CHECK_DEADLOCK FALSE
