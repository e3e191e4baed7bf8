----------------------------- MODULE Positional -----------------------------
(* Numbers by their digits, as dstulib and the engine write and read them  *)
(* byte by byte.                                                           *)
EXTENDS Integers

\* What a digit is worth that n others are below, in base b.
Power(b) == LET p[n \in Nat] == IF n = 0 THEN 1 ELSE b * p[n - 1] IN p

\* The digit of x that n others are below.
DigitAt(b, x, n) == (x \div Power(b)[n]) % b

\* The number with the n digits of d, the highest one first.
NumberOf(b, d, n) == LET x[k \in 0 .. n] == IF k = 0 THEN 0 ELSE b * x[k - 1] + d[k] IN x[n]
=============================================================================
