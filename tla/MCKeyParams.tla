---------------------------- MODULE MCKeyParams -----------------------------
(* Two keys, two contexts, two curves, and the default sbox and another.   *)
(* Keys are alike and contexts are alike: no definition names one of them. *)
(*                                                                         *)
(* The points that the ASN.1 methods write are those of all curves over    *)
(* the field of 8 elements with the polynomial t^3 + t + 1.                *)
EXTENDS KeyParams, Compress, Bitwise, TLC

Alike == Permutations(PKeys) \cup Permutations(Ctxs)

-----------------------------------------------------------------------------
MCAdd(u, v) == u ^^ v

\* Multiplication by t, and the sum of the multiples that the bits of v tell.
Times2(u) == IF u < 4 THEN 2 * u ELSE (2 * u) ^^ 11
MCMul(u, v) ==
  LET bit(n) == (v \div 2 ^ n) % 2
  IN  (u * bit(0)) ^^ ((Times2(u) * bit(1)) ^^ (Times2(Times2(u)) * bit(2)))

MCInverse(u) == CHOOSE v \in Field : MCMul(u, v) = 1
MCRoot(u)    == CHOOSE v \in Field : MCMul(v, v) = u
MCSolve(u)   == CHOOSE z \in Field : Solves(z, u)

\* Every writable point comes back, on every curve, and no other.
ASSUME Points ==
  \A a \in {0, 1}, b \in Field \ {0}, x, y \in Field :
    ComesBack(a, b, x, y) /\ OthersDoNot(a, b, x, y)

\* There are points of all kinds: with a = 0 and with a = 1, with x = 0, with
\* x = 1 that would be written as 0, and with the other trace.
ASSUME PointsOfAllKinds ==
  \A a \in {0, 1} :
    /\ \E b, y \in Field \ {0} : OnCurve(a, b, 0, y)
    /\ \E b, x, y \in Field \ {0} : OnCurve(a, b, x, y) /\ Writable(a, x, y)
    /\ \E b, x, y \in Field \ {0} : OnCurve(a, b, x, y) /\ Trace(x) # a
    /\ a = 1 => \E b, y \in Field \ {0} : OnCurve(a, b, 1, y) /\ Vanishes(1, y)
=============================================================================
