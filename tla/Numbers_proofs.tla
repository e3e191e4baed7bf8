--------------------------- MODULE Numbers_proofs ---------------------------
(* What the other proofs need to know of numbers: induction by the least   *)
(* counterexample, functions that are defined by recursion, digits, and    *)
(* sequences that are put together.                                        *)
EXTENDS Positional, FiniteSetTheorems, SequenceTheorems, TLAPS

\* Every nonempty set of natural numbers has a least element.
LEMMA Smallest ==
  ASSUME NEW T \in SUBSET Nat, T # {}
  PROVE  \E n \in T : \A m \in T : n <= m
<1> DEFINE U == {1 .. n : n \in T}
<1>1. U \subseteq FiniteSubsetsOf(Nat) /\ U # {}
  <2>1. ASSUME NEW n \in T PROVE IsFiniteSet(1 .. n) /\ 1 .. n \in SUBSET Nat
    BY FS_Interval, SMT
  <2> QED
    BY <2>1 DEF FiniteSubsetsOf
<1>2. PICK x \in U : \A y \in U : <<y, x>> \notin StrictSubsetOrdering(Nat)
  <2> HIDE DEF U
  <2> QED
    BY <1>1, FS_StrictSubsetOrderingWellFounded, WFMin
<1>3. PICK n \in T : x = 1 .. n
  OBVIOUS
<1>4. ASSUME NEW m \in T, m < n PROVE FALSE
  <2>1. 1 .. m \subseteq 1 .. n /\ n \in 1 .. n /\ n \notin 1 .. m
    BY <1>4, SMT
  <2>2. <<1 .. m, 1 .. n>> \in StrictSubsetOrdering(Nat)
    BY <2>1, SMT DEF StrictSubsetOrdering
  <2> QED
    BY <2>2, <1>2, <1>3
<1> QED
  BY <1>4, SMT

\* Induction: a set of natural numbers that holds 0 and, with every number,
\* the next one, holds all up to a bound.
LEMMA UpTo ==
  ASSUME NEW n \in Nat, NEW P,
         0 \in P, \A k \in 0 .. n - 1 : k \in P => k + 1 \in P
  PROVE  \A k \in 0 .. n : k \in P
<1> DEFINE T == {k \in 0 .. n : k \notin P}
<1> SUFFICES ASSUME T # {} PROVE FALSE
  OBVIOUS
<1>1. T \in SUBSET Nat
  BY SMT
<1>2. PICK k \in T : \A j \in T : k <= j
  <2> HIDE DEF T
  <2> QED
    BY <1>1, Smallest
<1>3. k \in 0 .. n /\ k \notin P /\ k # 0
  OBVIOUS
<1>4. k - 1 \in 0 .. n - 1 /\ (k - 1) + 1 = k /\ ~(k <= k - 1) /\ k - 1 \in 0 .. n
  BY <1>3, SMT
<1>5. k - 1 \in P
  BY <1>2, <1>4
<1> QED
  BY <1>3, <1>4, <1>5

\* f is the recursion from x0 by the steps g, at the numbers D.
IsRun(f, D, x0, g) == f = [k \in D |-> IF k = 0 THEN x0 ELSE g[<<k, f[k - 1]>>]]

\* A recursion up to n has a solution.
LEMMA RunExists ==
  ASSUME NEW S, NEW x0 \in S, NEW g \in [Nat \X S -> S], NEW n \in Nat
  PROVE  \E f \in [0 .. n -> S] : IsRun(f, 0 .. n, x0, g)
<1> DEFINE Run(f, i) == /\ f \in [0 .. i -> S]
                        /\ f = [k \in 0 .. i |-> IF k = 0 THEN x0 ELSE g[<<k, f[k - 1]>>]]
           P == {i \in Nat : \E f : Run(f, i)}
<1>1. 0 \in P
  <2> DEFINE f == [k \in 0 .. 0 |-> x0]
  <2>1. f \in [0 .. 0 -> S]
    OBVIOUS
  <2>2. \A k \in 0 .. 0 : k = 0
    BY SMT
  <2>3. f = [k \in 0 .. 0 |-> IF k = 0 THEN x0 ELSE g[<<k, f[k - 1]>>]]
    BY <2>2
  <2> QED
    BY <2>1, <2>3
<1>2. ASSUME NEW i \in Nat, i \in P PROVE i + 1 \in P
  <2>1. PICK f : Run(f, i)
    BY <1>2
  <2> DEFINE h == [k \in 0 .. i + 1 |-> IF k = i + 1 THEN g[<<i + 1, f[i]>>] ELSE f[k]]
  <2>2. /\ i + 1 \in Nat /\ (i + 1) - 1 = i /\ i \in 0 .. i /\ i + 1 # 0
        /\ \A k \in 0 .. i + 1 : k # i + 1 => k \in 0 .. i
        /\ \A k \in 0 .. i : k # 0 => k - 1 \in 0 .. i /\ k - 1 # i + 1 /\ k - 1 \in 0 .. i + 1
        /\ \A k \in 0 .. i : k # i + 1 /\ k \in 0 .. i + 1
        /\ i \in 0 .. i + 1 /\ i # i + 1
    BY SMT
  <2>3. h \in [0 .. i + 1 -> S]
    BY <2>1, <2>2
  <2>4. ASSUME NEW k \in 0 .. i + 1
        PROVE  h[k] = IF k = 0 THEN x0 ELSE g[<<k, h[k - 1]>>]
    <3>1. CASE k = i + 1
      <4>1. h[k] = g[<<i + 1, f[i]>>] /\ h[i] = f[i]
        BY <2>2, <3>1
      <4> HIDE DEF h
      <4> QED
        BY <2>2, <3>1, <4>1
    <3>2. CASE k # i + 1
      <4>1. k \in 0 .. i /\ h[k] = f[k]
        BY <2>2, <3>2
      <4>2. f[k] = IF k = 0 THEN x0 ELSE g[<<k, f[k - 1]>>]
        BY <2>1, <4>1
      <4>3. k # 0 => h[k - 1] = f[k - 1]
        BY <2>2, <4>1
      <4> HIDE DEF h
      <4> QED
        BY <4>1, <4>2, <4>3
    <3> QED
      BY <3>1, <3>2
  <2>5. h = [k \in 0 .. i + 1 |-> IF k = 0 THEN x0 ELSE g[<<k, h[k - 1]>>]]
    <3>1. h = [k \in 0 .. i + 1 |-> h[k]]
      BY <2>3
    <3> HIDE DEF h
    <3> QED
      BY <2>4, <3>1
  <2> HIDE DEF h
  <2> QED
    BY <2>2, <2>3, <2>5
<1>3. n \in P
  <2> HIDE DEF P
  <2>1. \A k \in 0 .. n - 1 : k \in Nat
    BY SMT
  <2>2. n \in 0 .. n
    BY SMT
  <2> QED
    BY <1>1, <1>2, <2>1, <2>2, UpTo
<1> QED
  BY <1>3 DEF IsRun

\* Two recursions that make the same steps agree, as far as both of them go.
LEMMA RunsAgree ==
  ASSUME NEW x0, NEW g, NEW n \in Nat, NEW m \in 0 .. n,
         NEW f, IsRun(f, 0 .. n, x0, g), NEW h, IsRun(h, 0 .. m, x0, g)
  PROVE  \A k \in 0 .. m : f[k] = h[k]
<1> DEFINE P == {k \in 0 .. m : f[k] = h[k]}
<1>1. 0 \in 0 .. m /\ 0 \in 0 .. n /\ m \in Nat /\ \A k \in 0 .. m : k \in 0 .. n
  BY SMT
<1>2. 0 \in P
  <2>1. f[0] = x0
    BY <1>1 DEF IsRun
  <2>2. h[0] = x0
    BY <1>1 DEF IsRun
  <2> QED
    BY <1>1, <2>1, <2>2
<1>3. ASSUME NEW k \in 0 .. m - 1, k \in P PROVE k + 1 \in P
  <2>1. k + 1 \in 0 .. m /\ k + 1 \in 0 .. n /\ (k + 1) - 1 = k /\ k + 1 # 0
    BY SMT
  <2>2. f[k + 1] = g[<<k + 1, f[k]>>]
    BY <2>1 DEF IsRun
  <2>3. h[k + 1] = g[<<k + 1, h[k]>>]
    BY <2>1 DEF IsRun
  <2> QED
    BY <1>3, <2>1, <2>2, <2>3
<1>4. \A k \in 0 .. m : k \in P
  <2> HIDE DEF P
  <2> QED
    BY <1>1, <1>2, <1>3, UpTo
<1> QED
  BY <1>4

\* Induction over all natural numbers.
LEMMA AllNat ==
  ASSUME NEW P, 0 \in P, \A k \in Nat : k \in P => k + 1 \in P
  PROVE  \A k \in Nat : k \in P
<1> SUFFICES ASSUME NEW n \in Nat PROVE n \in P
  OBVIOUS
<1>1. \A k \in 0 .. n - 1 : k \in Nat
  BY SMT
<1>2. \A k \in 0 .. n : k \in P
  BY <1>1, UpTo
<1>3. n \in 0 .. n
  BY SMT
<1> QED
  BY <1>2, <1>3

\* A recursion over all natural numbers has a solution.
LEMMA NatRunExists ==
  ASSUME NEW S, NEW x0 \in S, NEW g \in [Nat \X S -> S]
  PROVE  \E f \in [Nat -> S] : IsRun(f, Nat, x0, g)
<1> DEFINE Run(f, n) == f \in [0 .. n -> S] /\ IsRun(f, 0 .. n, x0, g)
           F == [n \in Nat |-> CHOOSE f : Run(f, n)]
           f == [n \in Nat |-> F[n][n]]
<1>1. ASSUME NEW n \in Nat PROVE Run(F[n], n)
  <2>1. \E h : Run(h, n)
    BY RunExists
  <2>2. F[n] = CHOOSE h : Run(h, n)
    OBVIOUS
  <2> HIDE DEF Run, F
  <2> QED
    BY <2>1, <2>2
<1>2. f \in [Nat -> S]
  <2>1. \A n \in Nat : n \in 0 .. n
    BY SMT
  <2>2. \A n \in Nat : F[n][n] \in S
    BY <1>1, <2>1
  <2> HIDE DEF F
  <2> QED
    BY <2>2
<1>3. ASSUME NEW k \in Nat
      PROVE  f[k] = IF k = 0 THEN x0 ELSE g[<<k, f[k - 1]>>]
  <2>1. k \in 0 .. k
    BY SMT
  <2> DEFINE a == F[k]
  <2>2. IsRun(a, 0 .. k, x0, g)
    BY <1>1
  <2>3. a[k] = IF k = 0 THEN x0 ELSE g[<<k, a[k - 1]>>]
    <3> HIDE DEF a
    <3> QED
      BY <2>1, <2>2 DEF IsRun
  <2>4. f[k] = a[k]
    OBVIOUS
  <2>5. CASE k = 0
    <3> HIDE DEF f, a
    <3> QED
      BY <2>3, <2>4, <2>5
  <2>6. CASE k # 0
    <3> DEFINE m == k - 1
               b == F[m]
    <3>1. m \in Nat /\ m \in 0 .. k /\ m \in 0 .. m
      BY <2>6, SMT
    <3>2. IsRun(b, 0 .. m, x0, g) /\ f[m] = b[m]
      BY <1>1, <3>1
    <3> HIDE DEF a, b, m, f
    <3>3. a[m] = b[m]
      BY <2>2, <3>1, <3>2, RunsAgree
    <3> QED
      BY <2>3, <2>4, <2>6, <3>2, <3>3 DEF m
  <2> QED
    BY <2>5, <2>6
<1>4. f = [k \in Nat |-> IF k = 0 THEN x0 ELSE g[<<k, f[k - 1]>>]]
  <2>1. f = [k \in Nat |-> f[k]]
    OBVIOUS
  <2> HIDE DEF f
  <2> QED
    BY <1>3, <2>1
<1> HIDE DEF f
<1> QED
  BY <1>2, <1>4 DEF IsRun

-----------------------------------------------------------------------------
(* Division                                                                *)

LEMMA DivMod ==
  ASSUME NEW n \in Nat \ {0}, NEW a \in Int
  PROVE  /\ a \div n \in Int /\ a % n \in 0 .. n - 1
         /\ a = n * (a \div n) + (a % n)
  BY SMT

LEMMA ModUnique ==
  ASSUME NEW n \in Nat \ {0}, NEW m \in Int, NEW r \in 0 .. n - 1
  PROVE  (n * m + r) % n = r
  BY SMT

LEMMA DivUnique ==
  ASSUME NEW n \in Nat \ {0}, NEW m \in Int, NEW r \in 0 .. n - 1
  PROVE  (n * m + r) \div n = m
  BY SMT

LEMMA DivNat ==
  ASSUME NEW n \in Nat \ {0}, NEW a \in Nat
  PROVE  a \div n \in Nat /\ a % n \in Nat
  BY SMT

-----------------------------------------------------------------------------
(* Digits                                                                  *)

LEMMA PowerIs ==
  ASSUME NEW b \in Nat \ {0}
  PROVE  /\ Power(b) \in [Nat -> Nat \ {0}] /\ Power(b)[0] = 1
         /\ \A n \in Nat : Power(b)[n + 1] = b * Power(b)[n]
<1> DEFINE S == Nat \ {0}
           p[n \in Nat] == IF n = 0 THEN 1 ELSE b * p[n - 1]
           g == [x \in Nat \X S |-> b * x[2]]
<1>1. p = Power(b)
  BY DEF Power
<1>2. 1 \in S /\ g \in [Nat \X S -> S]
  <2>1. \A x \in S : b * x \in S
    BY SMT
  <2> QED
    BY <2>1
<1>3. PICK f \in [Nat -> S] : IsRun(f, Nat, 1, g)
  <2> HIDE DEF S, g
  <2> QED
    BY <1>2, NatRunExists
<1>4. f = [n \in Nat |-> IF n = 0 THEN 1 ELSE b * f[n - 1]]
  <2>1. \A n \in Nat : n # 0 => n - 1 \in Nat
    BY SMT
  <2>2. \A n \in Nat : n # 0 => g[<<n, f[n - 1]>>] = b * f[n - 1]
    BY <2>1
  <2> HIDE DEF g
  <2> QED
    BY <1>3, <2>2 DEF IsRun
<1>5. p = [n \in Nat |-> IF n = 0 THEN 1 ELSE b * p[n - 1]]
  BY <1>4
<1> HIDE DEF p, S
<1>6. p[0] = 1 /\ \A n \in Nat : p[n + 1] = b * p[n]
  <2>1. \A n \in Nat : n + 1 \in Nat /\ n + 1 # 0 /\ (n + 1) - 1 = n
    BY SMT
  <2> QED
    BY <1>5, <2>1
<1>7. \A n \in Nat : p[n] \in Nat \ {0}
  <2> DEFINE P == {n \in Nat : p[n] \in Nat \ {0}}
  <2>1. 0 \in P
    BY <1>6
  <2>2. \A n \in Nat : n \in P => n + 1 \in P
    <3>1. \A x \in Nat \ {0} : b * x \in Nat \ {0}
      BY SMT
    <3>2. \A n \in Nat : n + 1 \in Nat
      BY SMT
    <3> QED
      BY <1>6, <3>1, <3>2
  <2> HIDE DEF P
  <2>3. \A n \in Nat : n \in P
    BY <2>1, <2>2, AllNat
  <2> QED
    BY <2>3 DEF P
<1>8. p \in [Nat -> Nat \ {0}]
  BY <1>5, <1>7
<1> QED
  BY <1>1, <1>6, <1>8

\* What is below a digit, and the digit itself, in terms of the next one.
LEMMA DigitStep ==
  ASSUME NEW b \in Nat \ {0}, NEW x \in Nat, NEW n \in Nat
  PROVE  /\ x \div Power(b)[n + 1] = (x \div Power(b)[n]) \div b
         /\ x \div Power(b)[n] = b * (x \div Power(b)[n + 1]) + DigitAt(b, x, n)
         /\ x % Power(b)[n + 1] = Power(b)[n] * DigitAt(b, x, n) + (x % Power(b)[n])
         /\ x \div Power(b)[n] \in Nat /\ x % Power(b)[n] \in 0 .. Power(b)[n] - 1
         /\ DigitAt(b, x, n) \in 0 .. b - 1
<1> DEFINE p == Power(b)[n]
           q == x \div p
           w == x % p
           e == q \div b
           d == q % b
           m == Power(b)[n + 1]
           r == p * d + w
<1>1. p \in Nat \ {0} /\ m = b * p /\ x \in Int
  BY PowerIs, SMT
<1> HIDE DEF p, m
<1>2. q \in Nat /\ q \in Int /\ w \in 0 .. p - 1 /\ x = p * q + w
  <2>1. q \in Nat
    BY <1>1, DivNat
  <2>2. w \in 0 .. p - 1 /\ x = p * q + w
    BY <1>1, DivMod
  <2> HIDE DEF q
  <2> QED
    BY <2>1, <2>2, SMT
<1>3. DigitAt(b, x, n) = d
  BY DEF DigitAt, d, q, p
<1>4. x \div Power(b)[n] = q /\ x % Power(b)[n] = w
  BY DEF q, w, p
<1> HIDE DEF q, w
<1>5. e \in Nat /\ d \in 0 .. b - 1 /\ q = b * e + d
  <2>1. e \in Nat
    BY <1>2, DivNat
  <2>2. d \in 0 .. b - 1 /\ q = b * e + d
    BY <1>2, DivMod
  <2> QED
    BY <2>1, <2>2
<1> HIDE DEF e, d
<1>6. x = m * e + r
  <2>1. x = p * (b * e + d) + w
    BY <1>2, <1>5
  <2>2. p * (b * e + d) + w = (b * p) * e + (p * d + w)
    BY <1>1, <1>2, <1>5, SMT
  <2> QED
    BY <1>1, <2>1, <2>2
<1>7. m \in Nat \ {0} /\ e \in Int
  <2>1. b * p \in Nat \ {0}
    BY <1>1, SMT
  <2> QED
    BY <1>1, <1>5, <2>1, SMT
<1>8. r \in 0 .. m - 1
  <2>1. p * d \in Nat /\ p * d <= p * (b - 1)
    BY <1>1, <1>5, SMT
  <2>2. p * (b - 1) = b * p - p
    BY <1>1, SMT
  <2> QED
    BY <1>1, <1>2, <1>7, <2>1, <2>2, SMT
<1> HIDE DEF r
<1>9. x \div m = e
  BY <1>6, <1>7, <1>8, DivUnique
<1>10. x % m = r
  BY <1>6, <1>7, <1>8, ModUnique
<1>11. x \div Power(b)[n + 1] = q \div b
  BY <1>9, Zenon DEF e, m
<1>12. q = b * (x \div Power(b)[n + 1]) + d
  BY <1>5, <1>9, Zenon DEF m
<1>13. x % Power(b)[n + 1] = p * d + w
  BY <1>10, Zenon DEF r, m
<1>14. x \div Power(b)[n + 1] = (x \div Power(b)[n]) \div b
  BY <1>4, <1>11, Zenon
<1>15. x \div Power(b)[n] = b * (x \div Power(b)[n + 1]) + DigitAt(b, x, n)
  BY <1>3, <1>4, <1>12, Zenon
<1>16. x % Power(b)[n + 1] = Power(b)[n] * DigitAt(b, x, n) + (x % Power(b)[n])
  BY <1>3, <1>4, <1>13, Zenon DEF p
<1>17. x \div Power(b)[n] \in Nat
  BY <1>2, <1>4, Zenon
<1>18. x % Power(b)[n] \in 0 .. Power(b)[n] - 1
  BY <1>2, <1>4, Zenon DEF p
<1>19. DigitAt(b, x, n) \in 0 .. b - 1
  BY <1>3, <1>5, Zenon
<1> QED
  BY <1>14, <1>15, <1>16, <1>17, <1>18, <1>19, Zenon

\* What NumberOf makes of the digits, one after the other.
IsNumberRun(x, b, d, n) ==
  x \in [0 .. n -> Nat] /\ x[0] = 0 /\ \A k \in 0 .. n - 1 : x[k + 1] = b * x[k] + d[k + 1]

LEMMA NumberSteps ==
  ASSUME NEW b \in Nat, NEW n \in Nat, NEW d, \A k \in 1 .. n : d[k] \in Nat
  PROVE  \E x : IsNumberRun(x, b, d, n) /\ NumberOf(b, d, n) = x[n]
<1> DEFINE x[k \in 0 .. n] == IF k = 0 THEN 0 ELSE b * x[k - 1] + d[k]
           g == [y \in Nat \X Nat |-> IF y[1] \in 1 .. n THEN b * y[2] + d[y[1]] ELSE 0]
<1>1. \A v, w \in Nat : b * v + w \in Nat
  BY SMT
<1>2. NumberOf(b, d, n) = x[n]
  BY DEF NumberOf
<1>3. g \in [Nat \X Nat -> Nat] /\ 0 \in Nat
  BY <1>1
<1>4. PICK f \in [0 .. n -> Nat] : IsRun(f, 0 .. n, 0, g)
  <2> HIDE DEF g
  <2> QED
    BY <1>3, RunExists
<1>5. f = [k \in 0 .. n |-> IF k = 0 THEN 0 ELSE b * f[k - 1] + d[k]]
  <2>1. \A k \in 0 .. n : k # 0 => k \in 1 .. n /\ k \in Nat /\ k - 1 \in 0 .. n
    BY SMT
  <2>2. \A k \in 0 .. n : k # 0 => g[<<k, f[k - 1]>>] = b * f[k - 1] + d[k]
    BY <2>1
  <2> HIDE DEF g
  <2> QED
    BY <1>4, <2>2 DEF IsRun
<1>6. x = [k \in 0 .. n |-> IF k = 0 THEN 0 ELSE b * x[k - 1] + d[k]]
  BY <1>5
<1> HIDE DEF x
<1>7. x[0] = 0 /\ \A k \in 0 .. n - 1 : x[k + 1] = b * x[k] + d[k + 1]
  <2>1. 0 \in 0 .. n /\ \A k \in 0 .. n - 1 : k + 1 \in 0 .. n /\ k + 1 # 0 /\ (k + 1) - 1 = k
    BY SMT
  <2> QED
    BY <1>6, <2>1
<1>8. x \in [0 .. n -> Nat]
  <2> DEFINE P == {k \in 0 .. n : x[k] \in Nat}
  <2>1. 0 \in P
    BY <1>7, SMT
  <2>2. \A k \in 0 .. n - 1 : k \in P => k + 1 \in P
    <3>1. \A k \in 0 .. n - 1 : k + 1 \in 1 .. n /\ k + 1 \in 0 .. n
      BY SMT
    <3> QED
      BY <1>1, <1>7, <3>1
  <2> HIDE DEF P
  <2>3. \A k \in 0 .. n : k \in P
    BY <2>1, <2>2, UpTo
  <2> QED
    BY <1>6, <2>3 DEF P
<1> QED
  BY <1>2, <1>7, <1>8 DEF IsNumberRun

\* A number is that of its digits, if it has no more of them.
LEMMA NumberOfDigits ==
  ASSUME NEW b \in Nat \ {0}, NEW m \in Nat, NEW v \in Nat, v < Power(b)[m],
         NEW d, \A k \in 1 .. m : d[k] = DigitAt(b, v, m - k)
  PROVE  NumberOf(b, d, m) = v
<1> DEFINE Q(n) == v \div Power(b)[n]
<1>1. \A k \in 1 .. m : d[k] \in Nat
  <2> SUFFICES ASSUME NEW k \in 1 .. m PROVE d[k] \in Nat
    OBVIOUS
  <2>1. m - k \in Nat
    BY SMT
  <2>2. DigitAt(b, v, m - k) \in 0 .. b - 1
    BY <2>1, DigitStep
  <2>3. \A y \in 0 .. b - 1 : y \in Nat
    BY SMT
  <2> QED
    BY <2>2, <2>3
<1>2. b \in Nat
  BY SMT
<1>3. PICK x : IsNumberRun(x, b, d, m) /\ NumberOf(b, d, m) = x[m]
  BY <1>1, <1>2, NumberSteps
<1>4. Q(m) = 0
  <2> DEFINE p == Power(b)[m]
  <2>1. p \in Nat \ {0} /\ v < p
    BY PowerIs
  <2> HIDE DEF p
  <2>2. v \in 0 .. p - 1 /\ 0 \in Int
    BY <2>1, SMT
  <2>3. (p * 0 + v) \div p = 0
    BY <2>1, <2>2, DivUnique
  <2>4. p * 0 + v = v
    BY <2>1, SMT
  <2>5. v \div p = 0
    BY <2>3, <2>4
  <2> QED
    BY <2>5 DEF p
<1>5. ASSUME NEW n \in 0 .. m - 1
      PROVE  Q(m - (n + 1)) = b * Q(m - n) + d[n + 1]
  <2> DEFINE k == m - (n + 1)
  <2>1. k \in Nat /\ m - n = k + 1 /\ n + 1 \in 1 .. m
    BY SMT
  <2>2. d[n + 1] = DigitAt(b, v, k)
    BY <2>1
  <2> HIDE DEF k
  <2>3. v \div Power(b)[k] = b * (v \div Power(b)[k + 1]) + DigitAt(b, v, k)
    BY <2>1, DigitStep
  <2>4. Q(k) = b * Q(k + 1) + d[n + 1]
    BY <2>2, <2>3, Zenon
  <2> HIDE DEF Q
  <2> QED
    BY <2>1, <2>4 DEF k
<1>6. Q(0) = v
  <2>1. Power(b)[0] = 1
    BY PowerIs
  <2>2. v \div 1 = v
    BY SMT
  <2> QED
    BY <2>1, <2>2
<1> HIDE DEF Q
<1> DEFINE P == {n \in 0 .. m : x[n] = Q(m - n)}
<1>7. 0 \in P
  BY <1>3, <1>4, SMT DEF IsNumberRun
<1>8. \A n \in 0 .. m - 1 : n \in P => n + 1 \in P
  <2>1. \A n \in 0 .. m - 1 : n + 1 \in 0 .. m
    BY SMT
  <2> QED
    BY <1>3, <1>5, <2>1 DEF IsNumberRun
<1> HIDE DEF P
<1>9. \A n \in 0 .. m : n \in P
  BY <1>7, <1>8, UpTo
<1>10. m \in 0 .. m /\ m - m = 0
  BY SMT
<1>11. x[m] = Q(m - m)
  BY <1>9, <1>10 DEF P
<1>12. x[m] = v
  BY <1>6, <1>10, <1>11
<1> QED
  BY <1>3, <1>12

\* A number with m digits is below the m-th power, and its digits are those.
LEMMA DigitsOfNumber ==
  ASSUME NEW b \in Nat \ {0}, NEW m \in Nat, NEW d, \A k \in 1 .. m : d[k] \in 0 .. b - 1
  PROVE  /\ NumberOf(b, d, m) \in 0 .. Power(b)[m] - 1
         /\ \A k \in 1 .. m : DigitAt(b, NumberOf(b, d, m), m - k) = d[k]
<1>0. b \in Nat /\ \A k \in 1 .. m : d[k] \in Nat
  <2>1. \A y \in 0 .. b - 1 : y \in Nat
    BY SMT
  <2> QED
    BY <2>1, SMT
<1>1. PICK x : IsNumberRun(x, b, d, m) /\ NumberOf(b, d, m) = x[m]
  BY <1>0, NumberSteps
<1>2. x \in [0 .. m -> Nat] /\ x[0] = 0 /\ \A k \in 0 .. m - 1 : x[k + 1] = b * x[k] + d[k + 1]
  BY <1>1 DEF IsNumberRun
<1>3. \A n \in 0 .. m : n \in Nat /\ Power(b)[n] \in Nat \ {0}
  <2>1. \A n \in 0 .. m : n \in Nat
    BY SMT
  <2> QED
    BY <2>1, PowerIs
<1>4. ASSUME NEW n \in 0 .. m - 1
      PROVE  /\ n \in Nat /\ n \in 0 .. m /\ n + 1 \in 0 .. m /\ n + 1 \in 1 .. m
             /\ x[n] \in Nat /\ x[n + 1] \in Nat
             /\ d[n + 1] \in 0 .. b - 1 /\ x[n + 1] = b * x[n] + d[n + 1]
             /\ x[n + 1] \div b = x[n] /\ x[n + 1] % b = d[n + 1]
  <2>1. n \in Nat /\ n \in 0 .. m /\ n + 1 \in 0 .. m /\ n + 1 \in 1 .. m
    BY SMT
  <2>2. x[n] \in Nat /\ x[n + 1] \in Nat /\ d[n + 1] \in 0 .. b - 1
        /\ x[n + 1] = b * x[n] + d[n + 1]
    BY <1>2, <2>1
  <2> DEFINE u == x[n]
             e == d[n + 1]
  <2>3. u \in Int /\ e \in 0 .. b - 1 /\ x[n + 1] = b * u + e
    BY <2>2, SMT
  <2> HIDE DEF u, e
  <2>4. x[n + 1] \div b = u /\ x[n + 1] % b = e
    BY <2>3, DivUnique, ModUnique
  <2> QED
    BY <2>1, <2>2, <2>4 DEF u, e
<1> DEFINE P == {n \in 0 .. m : x[n] < Power(b)[n]}
<1>5. \A n \in 0 .. m : n \in P
  <2>1. 0 \in P
    <3>1. 0 \in 0 .. m /\ 0 < 1
      BY SMT
    <3> QED
      BY <1>2, <3>1, PowerIs
  <2>2. ASSUME NEW n \in 0 .. m - 1, n \in P PROVE n + 1 \in P
    <3> DEFINE p == Power(b)[n]
               q == Power(b)[n + 1]
               u == x[n]
               e == d[n + 1]
    <3>1. p \in Nat \ {0} /\ q = b * p /\ u < p /\ u \in Nat /\ e \in 0 .. b - 1
          /\ x[n + 1] = b * u + e
      BY <1>4, <2>2, PowerIs
    <3> HIDE DEF p, q, u, e
    <3>2. b * u <= b * (p - 1)
      BY <3>1, SMT
    <3>3. b * (p - 1) = b * p - b
      BY <3>1, SMT
    <3>4. x[n + 1] < q
      BY <3>1, <3>2, <3>3, SMT
    <3> QED
      BY <1>4, <3>4 DEF q
  <2> HIDE DEF P
  <2> QED
    BY <2>1, <2>2, UpTo
<1>6. m \in 0 .. m /\ x[m] \in Nat /\ x[m] < Power(b)[m] /\ Power(b)[m] \in Nat
  <2>1. m \in 0 .. m
    BY SMT
  <2> QED
    BY <1>2, <1>3, <1>5, <2>1
<1> HIDE DEF P
<1> DEFINE N == x[m]
           R == {n \in 0 .. m : N \div Power(b)[n] = x[m - n]}
<1>7. \A n \in 0 .. m : n \in R
  <2>1. 0 \in R
    <3>1. N \div 1 = N /\ m - 0 = m /\ 0 \in 0 .. m
      BY <1>6, SMT
    <3> QED
      BY <3>1, PowerIs
  <2>2. ASSUME NEW n \in 0 .. m - 1, n \in R PROVE n + 1 \in R
    <3> DEFINE k == m - (n + 1)
    <3>1. k \in 0 .. m - 1 /\ k + 1 = m - n /\ n \in Nat /\ n + 1 \in 0 .. m
      BY SMT
    <3> HIDE DEF k
    <3>2. N \div Power(b)[n] = x[k + 1]
      BY <2>2, <3>1
    <3> HIDE DEF N
    <3>3. N \in Nat
      BY <1>6 DEF N
    <3>4. N \div Power(b)[n + 1] = (N \div Power(b)[n]) \div b
      BY <3>1, <3>3, DigitStep
    <3>5. x[k + 1] \div b = x[k]
      BY <1>4, <3>1
    <3>6. N \div Power(b)[n + 1] = x[k]
      BY <3>2, <3>4, <3>5
    <3> QED
      BY <3>1, <3>6 DEF k
  <2> HIDE DEF R
  <2> QED
    BY <2>1, <2>2, UpTo
<1>8. ASSUME NEW k \in 1 .. m PROVE DigitAt(b, N, m - k) = d[k]
  <2> DEFINE n == k - 1
  <2>1. n \in 0 .. m - 1 /\ n + 1 = k /\ m - k \in 0 .. m /\ m - (m - k) = k
    BY SMT
  <2>2. N \div Power(b)[m - k] = x[k]
    BY <1>7, <2>1
  <2> HIDE DEF n
  <2>3. x[n + 1] % b = d[n + 1]
    BY <1>4, <2>1
  <2>4. x[k] % b = d[k]
    BY <2>1, <2>3
  <2> QED
    BY <2>2, <2>4 DEF DigitAt
<1>9. N \in 0 .. Power(b)[m] - 1
  BY <1>6, SMT
<1> QED
  BY <1>1, <1>8, <1>9

-----------------------------------------------------------------------------
(* Sequences of sequences                                                  *)

SX == INSTANCE SequencesExt

\* g[n] is what the first n sequences of qs are together.
IsJoin(g, qs) ==
  /\ g[0] = <<>>
  /\ \A n \in 1 .. Len(qs) : g[n] = g[n - 1] \o qs[n]

Alike(qs, rs, m) == \A n \in 1 .. m : qs[n] = rs[n]

\* Sequences that begin alike are put together alike, as far as that.
LEMMA JoinsAgree ==
  ASSUME NEW g, NEW qs, IsJoin(g, qs), NEW h, NEW rs, IsJoin(h, rs),
         NEW m \in Nat, Len(qs) \in Nat, Len(rs) \in Nat, m <= Len(qs), m <= Len(rs),
         Alike(qs, rs, m)
  PROVE  \A n \in 0 .. m : g[n] = h[n]
<1> DEFINE P == {n \in Nat : g[n] = h[n]}
<1>1. 0 \in P
  BY DEF IsJoin
<1>2. ASSUME NEW n \in 0 .. m - 1, n \in P PROVE n + 1 \in P
  <2>1. n + 1 \in 1 .. m /\ n + 1 \in 1 .. Len(qs) /\ n + 1 \in 1 .. Len(rs) /\ (n + 1) - 1 = n
        /\ n + 1 \in Nat
    BY SMT
  <2>2. g[n + 1] = g[n] \o qs[n + 1] /\ h[n + 1] = h[n] \o rs[n + 1]
    BY <2>1 DEF IsJoin
  <2>3. qs[n + 1] = rs[n + 1]
    BY <2>1 DEF Alike
  <2> QED
    BY <1>2, <2>1, <2>2, <2>3
<1>3. \A n \in 0 .. m : n \in P
  <2> HIDE DEF P
  <2> QED
    BY <1>1, <1>2, UpTo
<1> QED
  BY <1>3

LEMMA JoinExists ==
  ASSUME NEW S, NEW qs \in Seq(Seq(S))
  PROVE  \E g \in [0 .. Len(qs) -> Seq(S)] : IsJoin(g, qs)
<1> DEFINE m == Len(qs)
           step == [a \in Nat \X Seq(S) |->
                      IF a[1] \in 1 .. m THEN a[2] \o qs[a[1]] ELSE a[2]]
<1>1. m \in Nat /\ \A n \in 1 .. m : qs[n] \in Seq(S)
  BY LenProperties, ElementOfSeq
<1>2. step \in [Nat \X Seq(S) -> Seq(S)]
  <2>1. ASSUME NEW n \in Nat, NEW q \in Seq(S), n \in 1 .. m PROVE q \o qs[n] \in Seq(S)
    BY <1>1, <2>1, ConcatProperties
  <2> QED
    BY <2>1
<1>3. <<>> \in Seq(S)
  BY EmptySeq
<1>4. \A n \in 1 .. m, q \in Seq(S) : step[<<n, q>>] = q \o qs[n]
  <2>1. ASSUME NEW n \in 1 .. m, NEW q \in Seq(S) PROVE step[<<n, q>>] = q \o qs[n]
    <3>1. n \in Nat
      BY <1>1, SMT
    <3> QED
      BY <3>1
  <2> HIDE DEF step
  <2> QED
    BY <2>1
<1> HIDE DEF step
<1>5. PICK g \in [0 .. m -> Seq(S)] : IsRun(g, 0 .. m, <<>>, step)
  <2> HIDE DEF m
  <2> QED
    BY <1>1, <1>2, <1>3, RunExists
<1>6. g[0] = <<>>
  BY <1>1, <1>5, SMT DEF IsRun
<1>7. ASSUME NEW n \in 1 .. m PROVE g[n] = g[n - 1] \o qs[n]
  <2>1. n \in 0 .. m /\ n # 0 /\ n - 1 \in 0 .. m
    BY <1>1, SMT
  <2>2. g[n] = step[<<n, g[n - 1]>>]
    BY <1>5, <2>1 DEF IsRun
  <2> QED
    BY <1>4, <2>1, <2>2
<1> QED
  BY <1>6, <1>7 DEF IsJoin

\* FlattenSeq puts all of them together.
LEMMA FlattenIs ==
  ASSUME NEW S, NEW qs \in Seq(Seq(S))
  PROVE  \E g \in [0 .. Len(qs) -> Seq(S)] :
           IsJoin(g, qs) /\ SX!FlattenSeq(qs) = g[Len(qs)]
<1> DEFINE m == Len(qs)
<1>1. PICK g \in [0 .. m -> Seq(S)] : IsJoin(g, qs)
  BY JoinExists
<1>2. m \in Nat /\ \A n \in 1 .. m : qs[n] \in Seq(S)
  BY LenProperties, ElementOfSeq
<1>3. CASE m = 0
  <2>1. qs = <<>>
    BY <1>3, EmptySeq
  <2>2. SX!FlattenSeq(qs) = qs
    BY <1>3 DEF SX!FlattenSeq
  <2> QED
    BY <1>1, <1>3, <2>1, <2>2 DEF IsJoin
<1>4. CASE m # 0
  <2> DEFINE Flat(f) == f = [n \in 1 .. m |-> IF n = 1 THEN qs[n] ELSE f[n - 1] \o qs[n]]
             flat == CHOOSE f : Flat(f)
             h == [n \in 1 .. m |-> g[n]]
  <2>1. Flat(h)
    <3>1. ASSUME NEW n \in 1 .. m
          PROVE  g[n] = IF n = 1 THEN qs[n] ELSE h[n - 1] \o qs[n]
      <4>1. g[n] = g[n - 1] \o qs[n]
        BY <1>1 DEF IsJoin
      <4>2. CASE n = 1
        <5>1. g[0] = <<>> /\ n - 1 = 0
          BY <1>1, <4>2, SMT DEF IsJoin
        <5>2. <<>> \o qs[n] = qs[n]
          BY <1>2, ConcatEmptySeq
        <5> QED
          BY <4>1, <4>2, <5>1, <5>2
      <4>3. CASE n # 1
        <5>1. n - 1 \in 1 .. m
          BY <1>2, <4>3, SMT
        <5> QED
          BY <4>1, <4>3, <5>1
      <4> QED
        BY <4>2, <4>3
    <3>2. h = [n \in 1 .. m |-> IF n = 1 THEN qs[n] ELSE h[n - 1] \o qs[n]]
      BY <3>1
    <3> QED
      BY <3>2
  <2>2. Flat(flat)
    <3> HIDE DEF h, Flat
    <3> QED
      BY <2>1
  <2>3. SX!FlattenSeq(qs) = flat[m]
    BY <1>4 DEF SX!FlattenSeq
  <2> HIDE DEF flat
  <2> DEFINE k == [n \in 0 .. m |-> IF n = 0 THEN <<>> ELSE flat[n]]
  <2>4. IsJoin(k, qs)
    <3>1. k[0] = <<>>
      BY <1>2, SMT
    <3>2. ASSUME NEW n \in 1 .. m PROVE k[n] = k[n - 1] \o qs[n]
      <4>1. n \in 0 .. m /\ n # 0 /\ n - 1 \in 0 .. m
        BY <1>2, SMT
      <4>2. k[n] = flat[n]
        BY <4>1
      <4>3. flat[n] = IF n = 1 THEN qs[n] ELSE flat[n - 1] \o qs[n]
        BY <2>2
      <4>4. CASE n = 1
        <5>1. k[n - 1] = <<>>
          BY <3>1, <4>4
        <5>2. <<>> \o qs[n] = qs[n]
          BY <1>2, ConcatEmptySeq
        <5> QED
          BY <4>2, <4>3, <4>4, <5>1, <5>2
      <4>5. CASE n # 1
        <5>1. n - 1 # 0
          BY <4>5, <1>2, SMT
        <5>2. k[n - 1] = flat[n - 1]
          BY <4>1, <5>1
        <5> QED
          BY <4>2, <4>3, <4>5, <5>2
      <4> QED
        BY <4>4, <4>5
    <3> HIDE DEF k
    <3> QED
      BY <3>1, <3>2 DEF IsJoin
  <2>5. k[m] = flat[m] /\ m \in 0 .. m
    BY <1>2, <1>4, SMT
  <2> HIDE DEF k
  <2>6. g[m] = k[m]
    <3>1. Alike(qs, qs, m) /\ m <= m
      BY <1>2 DEF Alike
    <3> QED
      BY <1>1, <1>2, <2>4, <2>5, <3>1, JoinsAgree
  <2> QED
    BY <1>1, <2>3, <2>5, <2>6
<1> QED
  BY <1>3, <1>4
=============================================================================
