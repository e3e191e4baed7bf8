SPECIFICATION Spec
CONSTANTS
  Null = Null
  PKeys = {p, q}
  Ctxs = {c, d}
  Curves = {"m257", "m431"}
  DefaultCurve = "m257"
  Sboxes = {"s1", "s2"}
  DefaultSbox = "s1"
  Degree = 3
  FieldSize = 8
  Add <- MCAdd
  Mul <- MCMul
  Inverse2m <- MCInverse
  Root <- MCRoot
  Solve <- MCSolve
SYMMETRY Alike
INVARIANTS
  OwnsItsOwn
  WorksAsMeant
  CompareTells
PROPERTY LeaksAreKnown
