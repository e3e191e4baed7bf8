---------------------------- MODULE MCSignVerify ----------------------------
(* The curve y^2 + xy = x^3 + 8x^2 + 9 over the field of 16 elements with  *)
(* the polynomial t^4 + t + 1; it has 22 points, and (8, 1) has order 11.  *)
EXTENDS SignVerify, Bitwise

Plus(terms) == FoldLeft(LAMBDA a, b : a ^^ b, 0, terms)

\* Multiplication by t, and the sum of the multiples that the bits of b tell.
Times2(a) == IF a < 8 THEN 2 * a ELSE Plus(<<2 * a, 19>>)
Bit(b, n) == (b \div 2 ^ n) % 2
Product(a, b) ==
  LET a2 == Times2(a)  a4 == Times2(a2)  a8 == Times2(a4)
  IN  Plus(<<a * Bit(b, 0), a2 * Bit(b, 1), a4 * Bit(b, 2), a8 * Bit(b, 3)>>)

Mul == [a, b \in 0 .. 15 |-> Product(a, b)]
MCFieldMul(a, b) == Mul[a, b]
Quotient(a, b) == CHOOSE c \in 0 .. 15 : Mul[c, b] = a

G == <<8, 1>>

PlusG(p) ==
  IF p = G
  THEN LET l  == Plus(<<p[1], Quotient(p[2], p[1])>>)
           x3 == Plus(<<Mul[l, l], l, 8>>)
       IN  <<x3, Plus(<<Mul[p[1], p[1]], Mul[Plus(<<l, 1>>), x3]>>)>>
  ELSE LET l  == Quotient(Plus(<<p[2], G[2]>>), Plus(<<p[1], G[1]>>))
           x3 == Plus(<<Mul[l, l], l, p[1], G[1], 8>>)
       IN  <<x3, Plus(<<Mul[l, Plus(<<p[1], x3>>)], x3, p[2]>>)>>

Points == <<G, <<9, 15>>, <<12, 0>>, <<15, 11>>, <<11, 2>>, <<11, 9>>, <<15, 4>>, <<12, 12>>, <<9, 6>>, <<8, 9>>>>
ASSUME CurveTable == \A k \in 1 .. 9 : Points[k + 1] = PlusG(Points[k])

MCX    == [k \in 1 .. 10 |-> Points[k][1]]

Bytes == 0 .. 3
Seqs(n) == [1 .. n -> Bytes]

\* All of the right length, some that are too short, odd or padded.
MCElsewhere ==
  Seqs(4) \cup Seqs(2) \cup Seqs(3)
  \cup {<<0>> \o s \o <<0>> : s \in Seqs(3)}
  \cup {<<0, s[1], s[2], 0, s[3], s[4]>> : s \in Seqs(4)}
  \cup {<<s[1], s[2], 0, s[3], s[4], 0>> : s \in Seqs(4)}
=============================================================================
