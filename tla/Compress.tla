------------------------------ MODULE Compress ------------------------------
(***************************************************************************)
(* dstulib/compress.c: a point (x, y) of the curve                         *)
(*                                                                         *)
(*     y^2 + xy = x^3 + ax^2 + b     with a = 0 or a = 1                   *)
(*                                                                         *)
(* over a binary field is written as x alone.  The lowest bit of x can be  *)
(* found again from the trace, for half of the x; in its place goes a bit  *)
(* that tells y from x + y, the other one for this x.                      *)
(*                                                                         *)
(* A field element is the number whose bits are its coefficients, and the  *)
(* degree of the field is odd.  The arithmetic (BN_GF2m ...) is external.  *)
(***************************************************************************)
EXTENDS Integers

CONSTANTS
  Degree, FieldSize,
  Add(_, _), Mul(_, _),
  Inverse2m(_), Root(_),
  Solve(_)               (* a z with z^2 + z = u, if there is one          *)

Field        == 0 .. FieldSize - 1
Sq(u)        == Mul(u, u)
Solves(z, u) == Add(Sq(z), z) = u

ASSUME DegreeAssumption == Degree \in Nat \ {0} /\ FieldSize \in Nat /\ FieldSize > 1

\* A field of characteristic 2, in which adding 1 changes the lowest bit.
ASSUME GroupAssumption ==
  \A u, v \in Field :
    /\ Add(u, v) \in Field /\ Mul(u, v) \in Field
    /\ Add(u, v) = Add(v, u) /\ Mul(u, v) = Mul(v, u)
    /\ Add(u, u) = 0 /\ Add(u, 0) = u /\ Mul(u, 1) = u /\ Mul(u, 0) = 0
    /\ Add(u, 1) = IF u % 2 = 0 THEN u + 1 ELSE u - 1

ASSUME RingAssumption ==
  \A u, v, w \in Field :
    /\ Add(Add(u, v), w) = Add(u, Add(v, w))
    /\ Mul(Mul(u, v), w) = Mul(u, Mul(v, w))
    /\ Mul(u, Add(v, w)) = Add(Mul(u, v), Mul(u, w))

ASSUME InverseAssumption ==
  \A u \in Field \ {0} : Inverse2m(u) \in Field /\ Mul(u, Inverse2m(u)) = 1

ASSUME RootAssumption == \A u \in Field : Root(Sq(u)) = u

ASSUME SolveAssumption ==
  \A u \in Field : (\E z \in Field : Solves(z, u)) => Solve(u) \in Field /\ Solves(Solve(u), u)

-----------------------------------------------------------------------------
\* bn_trace: r is squared and u added, as often as the degree has it less one.
Trace(u) ==
  LET r[i \in 0 .. Degree - 1] == IF i = 0 THEN u ELSE Add(Sq(r[i - 1]), u)
  IN  r[Degree - 1]

\* It is 0 or 1, and not the same for u and u + 1 as the degree is odd.
ASSUME TraceAssumption ==
  /\ Trace(0) = 0
  /\ \A u \in Field : Trace(u) \in {0, 1} /\ Trace(Add(u, 1)) = 1 - Trace(u)

\* BN_clear_bit and BN_set_bit, bit 0.
ClearBit(u)   == u - (u % 2)
WithBit(u, k) == ClearBit(u) + k

\* What BN_GF2m_mod_mul, BN_GF2m_mod_inv make of y and x in dstu_point_compress.
Slope(x, y) == Mul(y, Inverse2m(x))

None == <<>>

\* <<c>> when c is written; None when it would be 0, for which bn_encode tells
\* the same as for a failure: how many bytes there are in the number.
dstu_point_compress(x, y) ==
  IF x = 0 THEN <<0>>
  ELSE LET c == WithBit(x, Trace(Slope(x, y))) IN IF c = 0 THEN None ELSE <<c>>

OnCurve(a, b, x, y) ==
  Add(Sq(y), Mul(x, y)) = Add(Add(Mul(Sq(x), x), Mul(a, Sq(x))), b)

\* The x that is written, with its own lowest bit: the one whose trace is a.
RestoredX(a, c) == LET x == ClearBit(c) IN WithBit(x, IF Trace(x) = a THEN 0 ELSE 1)

\* The right side of the equation, divided by x^2.
Quadratic(a, b, x) ==
  LET cube == Mul(Sq(x), x)
      sum  == Add(IF a = 1 THEN Add(cube, Sq(x)) ELSE cube, b)
  IN  Mul(sum, Inverse2m(Sq(x)))

\* The y that goes with x and the written bit k.
RestoredY(a, b, x, k) ==
  LET z == Solve(Quadratic(a, b, x))
  IN  Mul(IF Trace(z) = k THEN z ELSE Add(z, 1), x)

\* dstu_point_expand; None when BN_GF2m_mod_inv or BN_GF2m_mod_solve_quad fails or
\* EC_POINT_set_affine_coordinates finds that the point is not on the curve.
dstu_point_expand(a, b, c) ==
  IF c = 0 THEN <<0, Root(b)>>
  ELSE LET x == RestoredX(a, c)
           y == RestoredY(a, b, x, c % 2)
       IN  IF x = 0 \/ ~(\E z \in Field : Solves(z, Quadratic(a, b, x))) THEN None
           ELSE IF OnCurve(a, b, x, y) THEN <<x, y>> ELSE None

-----------------------------------------------------------------------------
(* Properties, for the curves over a field                                 *)

\* The x would be written as 0, which is how a point with x = 0 is written.
Vanishes(x, y) == x = 1 /\ Trace(y) = 0

Writable(a, x, y) == x = 0 \/ (Trace(x) = a /\ ~Vanishes(x, y))

\* A writable point of the curve is written, and read as itself.
ComesBack(a, b, x, y) ==
  OnCurve(a, b, x, y) /\ Writable(a, x, y) =>
    LET c == dstu_point_compress(x, y)
    IN  c # None /\ dstu_point_expand(a, b, c[1]) = <<x, y>>

\* Of the other points one whose x would be written as 0 is refused, so that it is
\* not taken for the point with x = 0; one whose x has the other trace is written
\* and read as another point, or not at all.
OthersDoNot(a, b, x, y) ==
  OnCurve(a, b, x, y) /\ ~Writable(a, x, y) =>
    LET c == dstu_point_compress(x, y)
    IN  IF Vanishes(x, y) THEN c = None
        ELSE c # None /\ dstu_point_expand(a, b, c[1]) # <<x, y>>
=============================================================================
