--------------------------- MODULE Dstulib_proofs ---------------------------
(***************************************************************************)
(* What dstulib computes: the block cipher, compressed points and the hash *)
(* with its contexts.                                                      *)
(***************************************************************************)
EXTENDS Gost89, Compress, DigestContext, Numbers_proofs, SequenceTheorems, TLAPS

(***************************************************************************)
(* The block cipher: decryption undoes encryption, and the key mask        *)
(* cancels out, for every table of substitutions, key, mask and word size. *)
(***************************************************************************)

-----------------------------------------------------------------------------
(* Arithmetic of words                                                     *)

LEMMA WordSize == W \in Nat \ {0}
  BY RotationAssumption, SMT

LEMMA ModWord ==
  ASSUME NEW x \in Int
  PROVE  x % W \in Word /\ \E m \in Int : x = W * m + (x % W)
<1>1. x \div W \in Int /\ x % W \in 0 .. W - 1 /\ x = W * (x \div W) + (x % W)
  BY WordSize, SMT
<1> QED
  BY <1>1 DEF Word

LEMMA ModOf ==
  ASSUME NEW m \in Int, NEW r \in Word
  PROVE  (W * m + r) % W = r
  BY WordSize, SMT DEF Word

\* What is taken away modulo W comes back modulo W, on top of anything.
LEMMA TakenBack ==
  ASSUME NEW x \in Word, NEW k \in Word, NEW m \in Word
  PROVE  (x + ((k - m) % W) + m) % W = (x + k) % W
<1>1. x \in Int /\ k \in Int /\ m \in Int
  BY WordSize, SMT DEF Word
<1>2. PICK p \in Int : k - m = W * p + ((k - m) % W)
  BY <1>1, ModWord, SMT
<1>3. (k - m) % W \in Word /\ (x + k) % W \in Word
  BY <1>1, ModWord, SMT
<1>4. PICK q \in Int : x + k = W * q + ((x + k) % W)
  BY <1>1, ModWord, SMT
<1> DEFINE l == (k - m) % W
           r == (x + k) % W
<1>5. l \in Int /\ r \in Int /\ k - m = W * p + l /\ x + k = W * q + r
  BY <1>2, <1>3, <1>4, WordSize, SMT DEF Word
<1>6. r \in Word
  BY <1>3
<1> HIDE DEF l, r
<1>7. x + l + m = W * (q - p) + r
  BY <1>1, <1>5, WordSize, SMT
<1>8. q - p \in Int
  BY SMT
<1>9. (x + l + m) % W = r
  BY <1>6, <1>7, <1>8, ModOf
<1> QED
  BY <1>9 DEF l, r

-----------------------------------------------------------------------------
(* A round                                                                 *)

LEMMA Rotation ==
  ASSUME NEW y \in Word
  PROVE  (y % Rest) * Shift + (y \div Rest) \in Word
<1> DEFINE lo == y % Rest
           hi == y \div Rest
<1>1. y \in Nat /\ y < Shift * Rest
  BY RotationAssumption, SMT DEF Word
<1>2. lo \in 0 .. Rest - 1 /\ hi \in Nat /\ y = Rest * hi + lo
  BY <1>1, RotationAssumption, SMT
<1> HIDE DEF lo, hi
<1>3. hi < Shift
  <2>1. ASSUME hi >= Shift  PROVE FALSE
    <3>1. Rest * hi >= Rest * Shift
      BY <1>2, <2>1, RotationAssumption, SMT
    <3> QED
      BY <1>1, <1>2, <3>1, RotationAssumption, SMT
  <2> QED
    BY <1>2, <2>1, RotationAssumption, SMT
<1>4. lo * Shift <= (Rest - 1) * Shift
  BY <1>2, RotationAssumption, SMT
<1>5. lo * Shift + hi \in Nat /\ lo * Shift + hi < Shift * Rest
  BY <1>2, <1>3, <1>4, RotationAssumption, SMT
<1> QED
  BY <1>5, RotationAssumption, SMT DEF Word, lo, hi

LEMMA RoundWord ==
  ASSUME NEW c \in Context, NEW n \in KeyIndex, NEW x \in Word
  PROVE  RoundInput(c, n, x) \in Word /\ f(c, RoundInput(c, n, x)) \in Word
<1>1. c.key[n] \in Word /\ c.mask[n] \in Word
  BY DEF Context, KeyWords
<1>2. x + c.key[n] + c.mask[n] \in Int
  BY <1>1, WordSize, SMT DEF Word
<1>3. RoundInput(c, n, x) \in Word
  BY <1>2, ModWord DEF RoundInput
<1>4. c.k[RoundInput(c, n, x)] \in Word
  BY <1>3 DEF Context
<1> QED
  BY <1>3, <1>4, Rotation DEF f

LEMMA RoundType ==
  ASSUME NEW c \in Context, NEW n \in KeyIndex, NEW b \in Halves
  PROVE  Even(c, n, b) \in Halves /\ Odd(c, n, b) \in Halves
<1>1. b.n1 \in Word /\ b.n2 \in Word
  BY DEF Halves
<1>2. f(c, RoundInput(c, n, b.n1)) \in Word /\ f(c, RoundInput(c, n, b.n2)) \in Word
  BY <1>1, RoundWord
<1> QED
  BY <1>1, <1>2, WordXorAssumption DEF Even, Odd, Halves

\* A round on swapped halves is the round of the other kind, and undoes it.
LEMMA RoundUndone ==
  ASSUME NEW c \in Context, NEW n \in KeyIndex, NEW b \in Halves
  PROVE  /\ Even(c, n, Swapped(Odd(c, n, b))) = Swapped(b)
         /\ Odd(c, n, Swapped(Even(c, n, b))) = Swapped(b)
<1>1. b.n1 \in Word /\ b.n2 \in Word
  BY DEF Halves
<1>2. f(c, RoundInput(c, n, b.n1)) \in Word /\ f(c, RoundInput(c, n, b.n2)) \in Word
  BY <1>1, RoundWord
<1> QED
  BY <1>1, <1>2, WordXorAssumption DEF Even, Odd, Swapped

-----------------------------------------------------------------------------
(* Eight rounds.  The next round taken back is that of the last one done.  *)

LEMMA UpDown ==
  ASSUME NEW c \in Context, NEW b \in Halves
  PROVE  /\ Up(c, b) \in Halves /\ Down(c, b) \in Halves
         /\ Down(c, Swapped(Up(c, b))) = Swapped(b)
         /\ Up(c, Swapped(Down(c, b))) = Swapped(b)
<1>1. 0 \in KeyIndex /\ 1 \in KeyIndex /\ 2 \in KeyIndex /\ 3 \in KeyIndex
      /\ 4 \in KeyIndex /\ 5 \in KeyIndex /\ 6 \in KeyIndex /\ 7 \in KeyIndex
  BY SMT DEF KeyIndex
<1>2. Up(c, b) \in Halves /\ Down(c, Swapped(Up(c, b))) = Swapped(b)
  <2> DEFINE b1 == Even(c, 0, b)   b2 == Odd(c, 1, b1)
             b3 == Even(c, 2, b2)  b4 == Odd(c, 3, b3)
             b5 == Even(c, 4, b4)  b6 == Odd(c, 5, b5)
             b7 == Even(c, 6, b6)  b8 == Odd(c, 7, b7)
  <2>1. b1 \in Halves  BY <1>1, RoundType
  <2>2. b2 \in Halves  BY <1>1, <2>1, RoundType
  <2>3. b3 \in Halves  BY <1>1, <2>2, RoundType
  <2>4. b4 \in Halves  BY <1>1, <2>3, RoundType
  <2>5. b5 \in Halves  BY <1>1, <2>4, RoundType
  <2>6. b6 \in Halves  BY <1>1, <2>5, RoundType
  <2>7. b7 \in Halves  BY <1>1, <2>6, RoundType
  <2>8. b8 \in Halves  BY <1>1, <2>7, RoundType
  <2>9. Up(c, b) = b8  BY DEF Up
  <2>10. /\ Even(c, 7, Swapped(b8)) = Swapped(b7)
         /\ Odd(c, 6, Swapped(b7)) = Swapped(b6)
         /\ Even(c, 5, Swapped(b6)) = Swapped(b5)
         /\ Odd(c, 4, Swapped(b5)) = Swapped(b4)
         /\ Even(c, 3, Swapped(b4)) = Swapped(b3)
         /\ Odd(c, 2, Swapped(b3)) = Swapped(b2)
         /\ Even(c, 1, Swapped(b2)) = Swapped(b1)
         /\ Odd(c, 0, Swapped(b1)) = Swapped(b)
    BY <1>1, <2>1, <2>2, <2>3, <2>4, <2>5, <2>6, <2>7, RoundUndone
  <2> HIDE DEF b1, b2, b3, b4, b5, b6, b7, b8
  <2> QED
    BY <2>8, <2>9, <2>10 DEF Down
<1>3. Down(c, b) \in Halves /\ Up(c, Swapped(Down(c, b))) = Swapped(b)
  <2> DEFINE b1 == Even(c, 7, b)   b2 == Odd(c, 6, b1)
             b3 == Even(c, 5, b2)  b4 == Odd(c, 4, b3)
             b5 == Even(c, 3, b4)  b6 == Odd(c, 2, b5)
             b7 == Even(c, 1, b6)  b8 == Odd(c, 0, b7)
  <2>1. b1 \in Halves  BY <1>1, RoundType
  <2>2. b2 \in Halves  BY <1>1, <2>1, RoundType
  <2>3. b3 \in Halves  BY <1>1, <2>2, RoundType
  <2>4. b4 \in Halves  BY <1>1, <2>3, RoundType
  <2>5. b5 \in Halves  BY <1>1, <2>4, RoundType
  <2>6. b6 \in Halves  BY <1>1, <2>5, RoundType
  <2>7. b7 \in Halves  BY <1>1, <2>6, RoundType
  <2>8. b8 \in Halves  BY <1>1, <2>7, RoundType
  <2>9. Down(c, b) = b8  BY DEF Down
  <2>10. /\ Even(c, 0, Swapped(b8)) = Swapped(b7)
         /\ Odd(c, 1, Swapped(b7)) = Swapped(b6)
         /\ Even(c, 2, Swapped(b6)) = Swapped(b5)
         /\ Odd(c, 3, Swapped(b5)) = Swapped(b4)
         /\ Even(c, 4, Swapped(b4)) = Swapped(b3)
         /\ Odd(c, 5, Swapped(b3)) = Swapped(b2)
         /\ Even(c, 6, Swapped(b2)) = Swapped(b1)
         /\ Odd(c, 7, Swapped(b1)) = Swapped(b)
    BY <1>1, <2>1, <2>2, <2>3, <2>4, <2>5, <2>6, <2>7, RoundUndone
  <2> HIDE DEF b1, b2, b3, b4, b5, b6, b7, b8
  <2> QED
    BY <2>8, <2>9, <2>10 DEF Up
<1> QED
  BY <1>2, <1>3

LEMMA SwappedTwice ==
  ASSUME NEW b \in Halves
  PROVE  Swapped(b) \in Halves /\ Swapped(Swapped(b)) = b
  BY DEF Swapped, Halves

\* Decrypting a block that has been encrypted in the same context gives it
\* back, and the other way round: the order of the key words in the unrolled
\* rounds of gostdecrypt is the reverse of that in gostcrypt.
THEOREM DecryptInverts ==
  ASSUME NEW c \in Context, NEW b \in Halves
  PROVE  Decrypt(c, Encrypt(c, b)) = b /\ Encrypt(c, Decrypt(c, b)) = b
<1>1. Decrypt(c, Encrypt(c, b)) = b
  <2> DEFINE u1 == Up(c, b)   u2 == Up(c, u1)   u3 == Up(c, u2)   e == Down(c, u3)
  <2>1. u1 \in Halves  BY UpDown
  <2>2. u2 \in Halves  BY <2>1, UpDown
  <2>3. u3 \in Halves  BY <2>2, UpDown
  <2>4. Up(c, Swapped(e)) = Swapped(u3)  BY <2>3, UpDown
  <2>5. /\ Down(c, Swapped(u3)) = Swapped(u2)
        /\ Down(c, Swapped(u2)) = Swapped(u1)
        /\ Down(c, Swapped(u1)) = Swapped(b)
    BY <2>1, <2>2, UpDown
  <2>6. Encrypt(c, b) = Swapped(e)  BY DEF Encrypt
  <2> HIDE DEF u1, u2, u3, e
  <2> QED
    BY <2>4, <2>5, <2>6, SwappedTwice DEF Decrypt
<1>2. Encrypt(c, Decrypt(c, b)) = b
  <2> DEFINE u == Up(c, b)   d1 == Down(c, u)   d2 == Down(c, d1)   d3 == Down(c, d2)
  <2>1. u \in Halves  BY UpDown
  <2>2. d1 \in Halves  BY <2>1, UpDown
  <2>3. d2 \in Halves  BY <2>2, UpDown
  <2>4. /\ Up(c, Swapped(d3)) = Swapped(d2)
        /\ Up(c, Swapped(d2)) = Swapped(d1)
        /\ Up(c, Swapped(d1)) = Swapped(u)
    BY <2>1, <2>2, <2>3, UpDown
  <2>5. Down(c, Swapped(u)) = Swapped(b)  BY UpDown
  <2>6. Decrypt(c, b) = Swapped(d3)  BY DEF Decrypt
  <2> HIDE DEF u, d1, d2, d3
  <2> QED
    BY <2>4, <2>5, <2>6, SwappedTwice DEF Encrypt
<1> QED
  BY <1>1, <1>2

-----------------------------------------------------------------------------
(* The mask                                                                *)

LEMMA KeyedContext ==
  ASSUME NEW c \in Context, NEW key \in KeyWords, NEW mask \in KeyWords
  PROVE  gost_key(c, key, mask) \in Context
<1>1. ASSUME NEW n \in KeyIndex  PROVE (key[n] - mask[n]) % W \in Word
  <2>1. key[n] \in Word /\ mask[n] \in Word
    BY DEF KeyWords
  <2>2. key[n] - mask[n] \in Int
    BY <2>1, WordSize, SMT DEF Word
  <2> QED
    BY <2>2, ModWord
<1>2. gost_key_impl(key, mask) \in KeyWords
  BY <1>1 DEF gost_key_impl, KeyWords
<1> QED
  BY <1>2 DEF gost_key, Context

\* A round adds the word of the key, whatever the mask.
LEMMA RoundOfKey ==
  ASSUME NEW c \in Context, NEW key \in KeyWords, NEW mask \in KeyWords,
         NEW n \in KeyIndex, NEW x \in Word
  PROVE  RoundInput(gost_key(c, key, mask), n, x) = (x + key[n]) % W
<1>1. key[n] \in Word /\ mask[n] \in Word
  BY DEF KeyWords
<1>2. /\ gost_key(c, key, mask).key[n] = (key[n] - mask[n]) % W
      /\ gost_key(c, key, mask).mask[n] = mask[n]
  BY DEF gost_key, gost_key_impl, Context
<1> QED
  BY <1>1, <1>2, TakenBack DEF RoundInput

\* gost_get_key returns the key that gost_key was given.
THEOREM KeyComesBack ==
  ASSUME NEW c \in Context, NEW key \in KeyWords, NEW mask \in KeyWords
  PROVE  gost_get_key(gost_key(c, key, mask)) = key
<1>1. ASSUME NEW n \in KeyIndex
      PROVE  (((key[n] - mask[n]) % W) + mask[n]) % W = key[n]
  <2>1. key[n] \in Word /\ mask[n] \in Word /\ 0 \in Word
    BY WordSize, SMT DEF KeyWords, Word
  <2>2. (0 + ((key[n] - mask[n]) % W) + mask[n]) % W = (0 + key[n]) % W
    BY <2>1, TakenBack
  <2>3. key[n] \in Int /\ mask[n] \in Int /\ (key[n] - mask[n]) % W \in Int
    BY <2>1, WordSize, SMT DEF Word
  <2>4. (W * 0 + key[n]) % W = key[n]
    BY <2>1, ModOf
  <2> QED
    BY <2>2, <2>3, <2>4, WordSize, SMT
<1>2. \A n \in KeyIndex :
        /\ gost_key(c, key, mask).key[n] = (key[n] - mask[n]) % W
        /\ gost_key(c, key, mask).mask[n] = mask[n]
  BY DEF gost_key, gost_key_impl, Context
<1> QED
  BY <1>1, <1>2 DEF gost_get_key, KeyWords

\* A key set with a mask, random or left over from a generator that failed,
\* and the same key set without one, as rbg.c has to do, encrypt alike.
THEOREM MaskCancels ==
  ASSUME NEW c \in Context, NEW key \in KeyWords, NEW mask \in KeyWords,
         NEW b \in Halves
  PROVE  Encrypt(gost_key(c, key, mask), b) = Encrypt(gost_key_nomask(c, key), b)
<1> DEFINE m == gost_key(c, key, mask)
           z == gost_key_nomask(c, key)
<1>1. NoMask \in KeyWords
  BY WordSize, SMT DEF NoMask, KeyWords, Word
<1>2. m \in Context /\ z \in Context
  BY <1>1, KeyedContext DEF gost_key_nomask
<1>3. m.k = c.k /\ z.k = c.k
  BY DEF gost_key_nomask, gost_key, Context
<1>4. \A n \in KeyIndex, x \in Word : RoundInput(m, n, x) = RoundInput(z, n, x)
  BY <1>1, RoundOfKey DEF gost_key_nomask
<1> HIDE DEF m, z
<1>5. \A n \in KeyIndex, h \in Halves : Even(m, n, h) = Even(z, n, h) /\ Odd(m, n, h) = Odd(z, n, h)
  <2>1. \A x : f(m, x) = f(z, x)
    BY <1>3 DEF f
  <2>2. ASSUME NEW n \in KeyIndex, NEW h \in Halves
        PROVE  Even(m, n, h) = Even(z, n, h) /\ Odd(m, n, h) = Odd(z, n, h)
    <3>1. h.n1 \in Word /\ h.n2 \in Word
      BY DEF Halves
    <3>2. RoundInput(m, n, h.n1) = RoundInput(z, n, h.n1)
          /\ RoundInput(m, n, h.n2) = RoundInput(z, n, h.n2)
      BY <1>4, <3>1
    <3> QED
      BY <2>1, <3>2, Zenon DEF Even, Odd
  <2> QED
    BY <2>2
<1>6. 0 \in KeyIndex /\ 1 \in KeyIndex /\ 2 \in KeyIndex /\ 3 \in KeyIndex
      /\ 4 \in KeyIndex /\ 5 \in KeyIndex /\ 6 \in KeyIndex /\ 7 \in KeyIndex
  BY SMT DEF KeyIndex
<1>7. ASSUME NEW h \in Halves  PROVE Up(m, h) = Up(z, h) /\ Down(m, h) = Down(z, h)
  <2>1. \A n \in KeyIndex, g \in Halves : Even(z, n, g) \in Halves /\ Odd(z, n, g) \in Halves
    BY <1>2, RoundType
  <2> DEFINE b1 == Even(z, 0, h)   b2 == Odd(z, 1, b1)
             b3 == Even(z, 2, b2)  b4 == Odd(z, 3, b3)
             b5 == Even(z, 4, b4)  b6 == Odd(z, 5, b5)
             b7 == Even(z, 6, b6)
             d1 == Even(z, 7, h)   d2 == Odd(z, 6, d1)
             d3 == Even(z, 5, d2)  d4 == Odd(z, 4, d3)
             d5 == Even(z, 3, d4)  d6 == Odd(z, 2, d5)
             d7 == Even(z, 1, d6)
  <2>2. /\ b1 \in Halves /\ b2 \in Halves /\ b3 \in Halves /\ b4 \in Halves
        /\ b5 \in Halves /\ b6 \in Halves /\ b7 \in Halves
    BY <1>6, <2>1
  <2>3. /\ d1 \in Halves /\ d2 \in Halves /\ d3 \in Halves /\ d4 \in Halves
        /\ d5 \in Halves /\ d6 \in Halves /\ d7 \in Halves
    BY <1>6, <2>1
  <2>4. /\ b1 = Even(m, 0, h)   /\ b2 = Odd(m, 1, b1)
        /\ b3 = Even(m, 2, b2)  /\ b4 = Odd(m, 3, b3)
        /\ b5 = Even(m, 4, b4)  /\ b6 = Odd(m, 5, b5)
        /\ b7 = Even(m, 6, b6)  /\ Odd(m, 7, b7) = Odd(z, 7, b7)
    BY <1>5, <1>6, <2>2
  <2>5. /\ d1 = Even(m, 7, h)   /\ d2 = Odd(m, 6, d1)
        /\ d3 = Even(m, 5, d2)  /\ d4 = Odd(m, 4, d3)
        /\ d5 = Even(m, 3, d4)  /\ d6 = Odd(m, 2, d5)
        /\ d7 = Even(m, 1, d6)  /\ Odd(m, 0, d7) = Odd(z, 0, d7)
    BY <1>5, <1>6, <2>3
  <2>6. Up(z, h) = Odd(z, 7, b7) /\ Down(z, h) = Odd(z, 0, d7)
    BY DEF Up, Down
  <2> HIDE DEF b1, b2, b3, b4, b5, b6, b7, d1, d2, d3, d4, d5, d6, d7
  <2> QED
    BY <2>4, <2>5, <2>6 DEF Up, Down
<1>8. \A h \in Halves : Up(z, h) \in Halves
  BY <1>2, UpDown
<1>9. Encrypt(m, b) = Encrypt(z, b)
  BY <1>7, <1>8 DEF Encrypt
<1> QED
  BY <1>9 DEF m, z

-----------------------------------------------------------------------------
(* Words by their digits                                                   *)

\* The same for the digits from the lowest one on.
LEMMA WordOfIs ==
  ASSUME NEW b \in Nat \ {0}, NEW m \in Nat, NEW d, \A n \in 0 .. m - 1 : d[n] \in 0 .. b - 1
  PROVE  /\ WordOf(b, d, m) \in 0 .. Power(b)[m] - 1
         /\ \A n \in 0 .. m - 1 : DigitAt(b, WordOf(b, d, m), n) = d[n]
<1> DEFINE e == [k \in 1 .. m |-> d[m - k]]
<1>1. \A k \in 1 .. m : m - k \in 0 .. m - 1
  BY SMT
<1>2. \A k \in 1 .. m : e[k] \in 0 .. b - 1
  BY <1>1
<1>3. \A n \in 0 .. m - 1 : m - n \in 1 .. m /\ m - (m - n) = n
  BY SMT
<1>4. \A n \in 0 .. m - 1 : e[m - n] = d[n]
  BY <1>3
<1>5. WordOf(b, d, m) = NumberOf(b, e, m)
  BY DEF WordOf
<1> HIDE DEF e
<1>6. /\ NumberOf(b, e, m) \in 0 .. Power(b)[m] - 1
      /\ \A k \in 1 .. m : DigitAt(b, NumberOf(b, e, m), m - k) = e[k]
  BY <1>2, DigitsOfNumber
<1>7. ASSUME NEW n \in 0 .. m - 1 PROVE DigitAt(b, NumberOf(b, e, m), n) = d[n]
  <2>1. m - n \in 1 .. m /\ m - (m - n) = n /\ e[m - n] = d[n]
    BY <1>3, <1>4
  <2> QED
    BY <1>6, <2>1
<1> QED
  BY <1>5, <1>6, <1>7

LEMMA WordOfDigits ==
  ASSUME NEW b \in Nat \ {0}, NEW m \in Nat, NEW x \in 0 .. Power(b)[m] - 1,
         NEW d, \A n \in 0 .. m - 1 : d[n] = DigitAt(b, x, n)
  PROVE  WordOf(b, d, m) = x
<1> DEFINE e == [k \in 1 .. m |-> d[m - k]]
<1>1. \A k \in 1 .. m : m - k \in 0 .. m - 1
  BY SMT
<1>2. \A k \in 1 .. m : e[k] = DigitAt(b, x, m - k)
  BY <1>1
<1>3. WordOf(b, d, m) = NumberOf(b, e, m)
  BY DEF WordOf
<1>4. x \in Nat /\ x < Power(b)[m]
  <2> DEFINE p == Power(b)[m]
  <2>1. p \in Nat \ {0} /\ x \in 0 .. p - 1
    BY PowerIs
  <2> HIDE DEF p
  <2>2. x \in Nat /\ x < p
    BY <2>1, SMT
  <2> QED
    BY <2>2 DEF p
<1> HIDE DEF e
<1> QED
  BY <1>2, <1>3, <1>4, NumberOfDigits


-----------------------------------------------------------------------------
(* Blocks as bytes                                                         *)

CipherBlock == [0 .. BlockSize - 1 -> 0 .. ByteSize - 1]

LEMMA WordIsPower ==
  /\ Word = 0 .. Power(ByteSize)[BytesPerWord] - 1 /\ Word = 0 .. Power(Radix)[Digits] - 1
  /\ ByteSize \in Nat \ {0} /\ BytesPerWord \in Nat /\ Radix \in Nat \ {0} /\ Digits \in Nat
  BY WordAssumption DEF Word

AreDigits(b, m, d) == \A n \in 0 .. m - 1 : d[n] \in 0 .. b - 1

\* A word of the context, by its bytes and by what is substituted.
LEMMA ByteWord ==
  ASSUME NEW d, AreDigits(ByteSize, BytesPerWord, d), NEW x, x = WordOf(ByteSize, d, BytesPerWord)
  PROVE  x \in Word /\ \A n \in 0 .. BytesPerWord - 1 : DigitAt(ByteSize, x, n) = d[n]
<1>1. x \in 0 .. Power(ByteSize)[BytesPerWord] - 1
      /\ \A n \in 0 .. BytesPerWord - 1 : DigitAt(ByteSize, x, n) = d[n]
  BY WordIsPower, WordOfIs DEF AreDigits
<1> QED
  BY <1>1, WordIsPower

LEMMA DigitWord ==
  ASSUME NEW d, AreDigits(Radix, Digits, d), NEW x, x = WordOf(Radix, d, Digits)
  PROVE  x \in Word /\ \A n \in 0 .. Digits - 1 : DigitAt(Radix, x, n) = d[n]
<1>1. x \in 0 .. Power(Radix)[Digits] - 1
      /\ \A n \in 0 .. Digits - 1 : DigitAt(Radix, x, n) = d[n]
  BY WordIsPower, WordOfIs DEF AreDigits
<1> QED
  BY <1>1, WordIsPower

\* The two words of a block.
LEMMA BytesOf ==
  /\ \A n \in 0 .. BytesPerWord - 1 : /\ n \in 0 .. BlockSize - 1 /\ n < BytesPerWord
                                      /\ 0 + n = n
                                      /\ BytesPerWord + n \in 0 .. BlockSize - 1
                                      /\ ~(BytesPerWord + n < BytesPerWord)
                                      /\ (BytesPerWord + n) - BytesPerWord = n
  /\ \A n \in 0 .. BlockSize - 1 :
       /\ n < BytesPerWord => n \in 0 .. BytesPerWord - 1
       /\ ~(n < BytesPerWord) => /\ n - BytesPerWord \in 0 .. BytesPerWord - 1
                                 /\ BytesPerWord + (n - BytesPerWord) = n
  BY WordIsPower, SMT DEF BlockSize

LEMMA LoadIs ==
  ASSUME NEW bytes \in CipherBlock
  PROVE  LoadBlock(bytes) \in Halves /\ StoreBlock(LoadBlock(bytes)) = bytes
<1> DEFINE low  == [n \in 0 .. BytesPerWord - 1 |-> bytes[0 + n]]
           high == [n \in 0 .. BytesPerWord - 1 |-> bytes[BytesPerWord + n]]
           b    == LoadBlock(bytes)
<1>1. b = [n1 |-> WordOf(ByteSize, low, BytesPerWord), n2 |-> WordOf(ByteSize, high, BytesPerWord)]
  BY DEF LoadBlock
<1>2. \A n \in 0 .. BytesPerWord - 1 :
        /\ low[n] = bytes[n] /\ high[n] = bytes[BytesPerWord + n]
        /\ low[n] \in 0 .. ByteSize - 1 /\ high[n] \in 0 .. ByteSize - 1
  BY BytesOf DEF CipherBlock
<1> HIDE DEF low, high, b
<1>3. /\ b.n1 \in Word /\ \A n \in 0 .. BytesPerWord - 1 : DigitAt(ByteSize, b.n1, n) = low[n]
      /\ b.n2 \in Word /\ \A n \in 0 .. BytesPerWord - 1 : DigitAt(ByteSize, b.n2, n) = high[n]
  <2>1. b.n1 = WordOf(ByteSize, low, BytesPerWord) /\ b.n2 = WordOf(ByteSize, high, BytesPerWord)
    BY <1>1
  <2>2. AreDigits(ByteSize, BytesPerWord, low) /\ AreDigits(ByteSize, BytesPerWord, high)
    BY <1>2 DEF AreDigits
  <2> QED
    BY ONLY <2>1, <2>2, ByteWord
<1>4. b \in Halves
  BY <1>1, <1>3 DEF Halves
<1>5. ASSUME NEW n \in 0 .. BlockSize - 1 PROVE StoreBlock(b)[n] = bytes[n]
  <2>1. CASE n < BytesPerWord
    <3>1. StoreBlock(b)[n] = DigitAt(ByteSize, b.n1, n)
      BY <2>1 DEF StoreBlock
    <3> QED
      BY <1>2, <1>3, <2>1, <3>1, BytesOf
  <2>2. CASE ~(n < BytesPerWord)
    <3>1. StoreBlock(b)[n] = DigitAt(ByteSize, b.n2, n - BytesPerWord)
      BY <2>2 DEF StoreBlock
    <3>2. n - BytesPerWord \in 0 .. BytesPerWord - 1 /\ BytesPerWord + (n - BytesPerWord) = n
      BY <2>2, BytesOf
    <3> QED
      BY <1>2, <1>3, <3>1, <3>2
  <2> QED
    BY <2>1, <2>2
<1>6. StoreBlock(b) = [n \in 0 .. BlockSize - 1 |-> StoreBlock(b)[n]]
  BY DEF StoreBlock
<1>7. bytes = [n \in 0 .. BlockSize - 1 |-> bytes[n]]
  BY DEF CipherBlock
<1>8. StoreBlock(b) = bytes
  BY <1>5, <1>6, <1>7
<1> QED
  BY <1>4, <1>8 DEF b

LEMMA StoreIs ==
  ASSUME NEW b \in Halves
  PROVE  StoreBlock(b) \in CipherBlock /\ LoadBlock(StoreBlock(b)) = b
<1> DEFINE bytes == StoreBlock(b)
           low   == [n \in 0 .. BytesPerWord - 1 |-> bytes[0 + n]]
           high  == [n \in 0 .. BytesPerWord - 1 |-> bytes[BytesPerWord + n]]
<1>1. b.n1 \in Word /\ b.n2 \in Word /\ b = [n1 |-> b.n1, n2 |-> b.n2]
  BY DEF Halves
<1>2. \A x \in Word, n \in Nat : DigitAt(ByteSize, x, n) \in 0 .. ByteSize - 1
  <2>1. \A x \in Word : x \in Nat
    BY SMT, WordSize DEF Word
  <2> QED
    BY <2>1, WordIsPower, DigitStep
<1>3. \A n \in 0 .. BytesPerWord - 1 : n \in Nat
  BY SMT
<1>4. ASSUME NEW n \in 0 .. BlockSize - 1 PROVE bytes[n] \in 0 .. ByteSize - 1
  <2>1. bytes[n] = IF n < BytesPerWord THEN DigitAt(ByteSize, b.n1, n)
                                       ELSE DigitAt(ByteSize, b.n2, n - BytesPerWord)
    BY DEF StoreBlock
  <2> HIDE DEF bytes
  <2> QED
    BY <1>1, <1>2, <1>3, <2>1, BytesOf
<1>5. bytes \in CipherBlock
  <2>1. bytes = [n \in 0 .. BlockSize - 1 |-> bytes[n]]
    BY DEF StoreBlock
  <2> HIDE DEF bytes
  <2> QED
    BY <1>4, <2>1 DEF CipherBlock
<1>6. ASSUME NEW n \in 0 .. BytesPerWord - 1
      PROVE  low[n] = DigitAt(ByteSize, b.n1, n) /\ high[n] = DigitAt(ByteSize, b.n2, n)
  <2>1. bytes[n] = DigitAt(ByteSize, b.n1, n)
    BY BytesOf DEF StoreBlock
  <2>2. bytes[BytesPerWord + n] = DigitAt(ByteSize, b.n2, n)
    <3> DEFINE k == BytesPerWord + n
    <3>1. k \in 0 .. BlockSize - 1 /\ ~(k < BytesPerWord) /\ k - BytesPerWord = n
      BY BytesOf
    <3> HIDE DEF k
    <3>2. bytes[k] = DigitAt(ByteSize, b.n2, k - BytesPerWord)
      BY <3>1 DEF StoreBlock
    <3> QED
      BY <3>1, <3>2 DEF k
  <2> HIDE DEF bytes
  <2> QED
    BY <2>1, <2>2, BytesOf
<1>7. LoadBlock(bytes) = [n1 |-> WordOf(ByteSize, low, BytesPerWord),
                          n2 |-> WordOf(ByteSize, high, BytesPerWord)]
  BY DEF LoadBlock
<1> HIDE DEF bytes, low, high
<1>8. WordOf(ByteSize, low, BytesPerWord) = b.n1 /\ WordOf(ByteSize, high, BytesPerWord) = b.n2
  BY <1>1, <1>6, WordIsPower, WordOfDigits
<1>9. LoadBlock(bytes) = b
  BY <1>1, <1>7, <1>8
<1> QED
  BY <1>5, <1>9 DEF bytes

\* What gost_enc has encrypted, block after block, gost_dec gives back, byte by
\* byte: the key-6 loader reads the container that was written.
THEOREM ContainerComesBack ==
  ASSUME NEW c \in Context, NEW clear \in Seq(CipherBlock)
  PROVE  gost_dec(c, gost_enc(c, clear)) = clear
<1>1. ASSUME NEW x \in CipherBlock
      PROVE  gostcrypt(c, x) \in CipherBlock /\ gostdecrypt(c, gostcrypt(c, x)) = x
  <2> DEFINE b == LoadBlock(x)
             e == Encrypt(c, b)
  <2>1. b \in Halves /\ StoreBlock(b) = x
    BY LoadIs
  <2>2. e \in Halves /\ Decrypt(c, e) = b
    <3>1. e \in Halves
      BY <2>1, UpDown, SwappedTwice DEF Encrypt
    <3> QED
      BY <2>1, <3>1, DecryptInverts
  <2> HIDE DEF e
  <2>3. StoreBlock(e) \in CipherBlock /\ LoadBlock(StoreBlock(e)) = e
    BY <2>2, StoreIs
  <2>4. gostcrypt(c, x) = StoreBlock(e)
    BY DEF gostcrypt, e
  <2> HIDE DEF b
  <2> QED
    BY <2>1, <2>2, <2>3, <2>4 DEF gostdecrypt
<1> DEFINE crypted == gost_enc(c, clear)
<1>2. DOMAIN clear = 1 .. Len(clear) /\ clear = [n \in DOMAIN clear |-> clear[n]]
      /\ \A n \in DOMAIN clear : clear[n] \in CipherBlock
  BY LenProperties, ElementOfSeq
<1>3. DOMAIN crypted = DOMAIN clear /\ \A n \in DOMAIN clear : crypted[n] = gostcrypt(c, clear[n])
  BY DEF gost_enc
<1> HIDE DEF crypted
<1>4. gost_dec(c, crypted) = [n \in DOMAIN clear |-> gostdecrypt(c, crypted[n])]
  BY <1>3 DEF gost_dec
<1>5. \A n \in DOMAIN clear : gostdecrypt(c, crypted[n]) = clear[n]
  BY <1>1, <1>2, <1>3
<1>6. gost_dec(c, crypted) = clear
  BY <1>2, <1>4, <1>5
<1> QED
  BY <1>6 DEF crypted


-----------------------------------------------------------------------------
(* Substitution blocks                                                     *)

PackedBlock == [0 .. PackedSize - 1 -> 0 .. Radix * Radix - 1]

LEMMA RowIs == Radix = 2 * Row /\ Row \in Nat \ {0} /\ PackedSize = Digits * Row /\ Digits \in Nat
<1>1. Radix \in Nat \ {0} /\ Radix % 2 = 0 /\ Digits \in Nat
  BY WordAssumption
<1> QED
  BY <1>1, SMT DEF Row, PackedSize

\* The place of two digits in a packed block.
LEMMA PlaceIs ==
  ASSUME NEW n \in 0 .. Digits - 1, NEW m \in 0 .. Row - 1, NEW k, k = n * Row + m
  PROVE  k \in 0 .. PackedSize - 1 /\ k \div Row = n /\ k % Row = m
<1> DEFINE r == Row
           s == Digits
<1>1. r \in Nat \ {0} /\ PackedSize = s * r /\ s \in Nat
  BY RowIs
<1>2. n \in 0 .. s - 1 /\ m \in 0 .. r - 1 /\ k = n * r + m
  OBVIOUS
<1> HIDE DEF r, s
<1>3. n * r <= (s - 1) * r
  BY <1>1, <1>2, SMT
<1>4. (s - 1) * r = s * r - r
  BY <1>1, <1>2, SMT
<1>5. n * r \in Nat /\ n * r = r * n /\ n \in Int
  BY <1>1, <1>2, SMT
<1> DEFINE t == n * r
           size == s * r
<1>6. t \in Nat /\ t <= size - r /\ size \in Nat
  <2>1. s * r \in Nat
    BY <1>1, SMT
  <2> QED
    BY <1>3, <1>4, <1>5, <2>1
<1> HIDE DEF t, size
<1>7. t + m \in 0 .. size - 1
  BY <1>1, <1>2, <1>6, SMT
<1>8. k \in 0 .. PackedSize - 1
  BY <1>1, <1>2, <1>7 DEF t, size
<1>9. k \div r = n /\ k % r = m
  <2>1. k = r * n + m
    BY <1>2, <1>5
  <2> QED
    BY <1>1, <1>2, <1>5, <2>1, DivUnique, ModUnique
<1> QED
  BY <1>8, <1>9 DEF r

\* The two digits of a byte.
LEMMA PairIs ==
  ASSUME NEW b \in 0 .. Radix * Radix - 1
  PROVE  /\ b \div Radix \in Digit /\ b % Radix \in Digit
         /\ Radix * (b \div Radix) + (b % Radix) = b
<1> DEFINE q == b \div Radix
           e == b % Radix
<1>1. Radix \in Nat \ {0}
  BY WordAssumption
<1>2. Radix * Radix \in Nat
  BY <1>1, SMT
<1>3. b \in Nat /\ b \in Int /\ b < Radix * Radix
  <2> DEFINE s == Radix * Radix
  <2>1. s \in Nat /\ b \in 0 .. s - 1
    BY <1>2
  <2> HIDE DEF s
  <2>2. b \in Nat /\ b < s
    BY <2>1, SMT
  <2> QED
    BY <2>2, SMT DEF s
<1>4. q \in Nat /\ e \in 0 .. Radix - 1 /\ b = Radix * q + e
  BY <1>1, <1>3, DivMod, DivNat
<1> HIDE DEF q, e
<1>5. q < Radix
  <2>1. ASSUME q >= Radix PROVE FALSE
    <3>1. Radix * q >= Radix * Radix
      BY <1>1, <1>4, <2>1, SMT
    <3> DEFINE s == Radix * Radix
               t == Radix * q
    <3>2. t >= s /\ b = t + e /\ b < s /\ t \in Int /\ s \in Int
      BY <1>1, <1>2, <1>3, <1>4, <3>1, SMT
    <3> HIDE DEF s, t
    <3> QED
      BY <1>4, <3>2, SMT
  <2> QED
    BY <1>1, <1>4, <2>1, SMT
<1>6. q \in 0 .. Radix - 1
  BY <1>1, <1>4, <1>5, SMT
<1> QED
  BY <1>4, <1>6 DEF q, e, Digit

\* A block that is packed comes out of unpack_sbox as digits, and pack_sbox packs
\* them as they were.
LEMMA PackedAgain ==
  ASSUME NEW packed \in PackedBlock
  PROVE  unpack_sbox(packed) \in SubstBlock /\ pack_sbox(unpack_sbox(packed)) = packed
<1> DEFINE u == unpack_sbox(packed)
           at(n, v) == LET b == packed[n * Row + v \div 2]
                       IN  IF v % 2 = 0 THEN b \div Radix ELSE b % Radix
<1>1. u = [n \in 0 .. Digits - 1 |-> [v \in Digit |-> at(n, v)]]
  BY DEF unpack_sbox
<1>2. \A v \in Digit : v \div 2 \in 0 .. Row - 1
  <2> SUFFICES ASSUME NEW v \in 0 .. Radix - 1 PROVE v \div 2 \in 0 .. Row - 1
    BY DEF Digit
  <2>1. Radix = 2 * Row /\ Row \in Nat
    BY RowIs
  <2> QED
    BY <2>1, SMT
<1>3. \A n \in 0 .. Digits - 1, m \in 0 .. Row - 1 :
        /\ n * Row + m \in 0 .. PackedSize - 1
        /\ packed[n * Row + m] \in 0 .. Radix * Radix - 1
  BY PlaceIs DEF PackedBlock
<1>4. ASSUME NEW n \in 0 .. Digits - 1, NEW v \in Digit PROVE at(n, v) \in Digit
  <2> DEFINE b == packed[n * Row + v \div 2]
  <2>1. b \in 0 .. Radix * Radix - 1
    BY <1>2, <1>3
  <2>2. b \div Radix \in Digit /\ b % Radix \in Digit
    BY <2>1, PairIs
  <2> QED
    BY <2>2
<1>5. u \in SubstBlock
  <2> HIDE DEF at
  <2> QED
    BY <1>1, <1>4 DEF SubstBlock
<1> HIDE DEF u
<1>6. ASSUME NEW k \in 0 .. PackedSize - 1
      PROVE  LET row == u[k \div Row]
                 v   == 2 * (k % Row)
             IN  Radix * row[v] + row[v + 1] = packed[k]
  <2> DEFINE n == k \div Row
             m == k % Row
             v == 2 * m
             w == v + 1
             b == packed[k]
  <2>1. n \in Nat /\ m \in 0 .. Row - 1 /\ k = n * Row + m /\ n \in 0 .. Digits - 1
    <3> DEFINE r == Row
               s == Digits
               size == PackedSize
    <3>1. r \in Nat \ {0} /\ size = s * r /\ s \in Nat /\ k \in 0 .. size - 1
      BY RowIs
    <3>2. size \in Nat
      BY <3>1, SMT
    <3> HIDE DEF size
    <3>3. k \in Nat /\ k \in Int /\ k < size
      BY <3>1, <3>2, SMT
    <3>4. n \in Nat /\ m \in 0 .. r - 1 /\ k = r * n + m
      BY <3>1, <3>3, DivMod, DivNat
    <3> HIDE DEF n, m, r, s
    <3>5. n < s
      <4>1. ASSUME n >= s PROVE FALSE
        <5>1. r * n >= r * s /\ s * r = r * s
          BY <3>1, <3>4, <4>1, SMT
        <5> QED
          BY <3>1, <3>3, <3>4, <5>1, SMT
      <4> QED
        BY <3>1, <3>4, <4>1, SMT
    <3>6. n \in 0 .. s - 1 /\ r * n = n * r
      BY <3>1, <3>4, <3>5, SMT
    <3> QED
      BY <3>4, <3>6 DEF r, s
  <2>2. b \in 0 .. Radix * Radix - 1
    BY DEF PackedBlock
  <2> HIDE DEF n, m, b
  <2>3. /\ v \in Digit /\ w \in Digit
        /\ v \div 2 = m /\ v % 2 = 0 /\ w \div 2 = m /\ w % 2 = 1
    <3>1. Radix = 2 * Row /\ Row \in Nat \ {0} /\ m \in 0 .. Row - 1
      BY <2>1, RowIs
    <3>2. v \in 0 .. Radix - 1 /\ w \in 0 .. Radix - 1 /\ m \in Int
      BY <3>1, SMT
    <3>3. v \div 2 = m /\ v % 2 = 0 /\ w \div 2 = m /\ w % 2 = 1
      BY <3>2, SMT
    <3> QED
      BY <3>2, <3>3 DEF Digit
  <2> HIDE DEF v, w
  <2>4. at(n, v) = b \div Radix /\ at(n, w) = b % Radix
    BY <2>1, <2>3 DEF b
  <2>5. u[n][v] = at(n, v) /\ u[n][w] = at(n, w)
    <3> HIDE DEF at
    <3> QED
      BY <1>1, <2>1, <2>3
  <2>6. Radix * u[n][v] + u[n][w] = b
    BY <2>2, <2>4, <2>5, PairIs
  <2> QED
    BY <2>6 DEF n, m, v, w, b
<1>7. packed = [k \in 0 .. PackedSize - 1 |-> packed[k]]
  BY DEF PackedBlock
<1>8. pack_sbox(u) = packed
  BY <1>6, <1>7 DEF pack_sbox
<1> QED
  BY <1>5, <1>8 DEF u


\* The powers below the size of a word.
LEMMA PowerGrows ==
  ASSUME NEW b \in Nat \ {0}, NEW m \in Nat, NEW n \in 0 .. m
  PROVE  Power(b)[n] <= Power(b)[m]
<1> DEFINE d == m - n
           P == {k \in 0 .. d : Power(b)[n] <= Power(b)[n + k]}
<1>1. d \in Nat /\ n \in Nat /\ n + d = m /\ n + 0 = n
  BY SMT
<1> HIDE DEF d
<1>2. 0 \in P
  <2>1. Power(b)[n] \in Nat /\ 0 \in 0 .. d
    BY <1>1, PowerIs, SMT
  <2>2. Power(b)[n] <= Power(b)[n]
    BY <2>1, SMT
  <2> QED
    BY <1>1, <2>1, <2>2
<1>3. ASSUME NEW k \in 0 .. d - 1, k \in P PROVE k + 1 \in P
  <2>1. n + k \in Nat /\ n + (k + 1) = (n + k) + 1 /\ k + 1 \in 0 .. d
    BY <1>1, SMT
  <2> DEFINE p == Power(b)[n]
             q == Power(b)[n + k]
             r == Power(b)[n + (k + 1)]
  <2>2. p \in Nat /\ q \in Nat \ {0} /\ r = b * q /\ p <= q
    BY <1>1, <1>3, <2>1, PowerIs
  <2> HIDE DEF p, q, r
  <2>3. p <= r
    BY <2>2, SMT
  <2> QED
    BY <2>1, <2>3 DEF p, r
<1> HIDE DEF P
<1>4. \A k \in 0 .. d : k \in P
  BY <1>1, <1>2, <1>3, UpTo
<1>5. d \in 0 .. d
  BY <1>1, SMT
<1> QED
  BY <1>1, <1>4, <1>5 DEF P

\* The word with the digit v at n and no other.
LEMMA DigitIs ==
  ASSUME NEW n \in 0 .. Digits - 1, NEW v \in Digit
  PROVE  v * Power(Radix)[n] \in Word /\ DigitOf(v * Power(Radix)[n], n) = v
<1> DEFINE p == Power(Radix)[n]
           q == Power(Radix)[n + 1]
<1>1. Radix \in Nat \ {0} /\ Digits \in Nat /\ W = Power(Radix)[Digits]
  BY WordAssumption
<1>2. n \in Nat /\ n + 1 \in 0 .. Digits /\ v \in 0 .. Radix - 1
  BY <1>1, SMT DEF Digit
<1>3. p \in Nat \ {0} /\ q = Radix * p /\ q <= W /\ W \in Nat
  BY <1>1, <1>2, PowerIs, PowerGrows
<1> HIDE DEF p, q
<1>4. v * p <= (Radix - 1) * p /\ (Radix - 1) * p = Radix * p - p /\ v * p = p * v /\ v * p \in Nat
  BY <1>1, <1>2, <1>3, SMT
<1> DEFINE x == v * p
           r == Radix * p
<1>5. x \in Nat /\ x <= r - p /\ r <= W /\ r \in Nat
  BY <1>1, <1>3, <1>4, SMT
<1> HIDE DEF x, r
<1>6. x \in Word
  BY <1>3, <1>5, SMT DEF Word
<1>7. x \div p = v
  <2>1. x = p * v + 0 /\ 0 \in 0 .. p - 1 /\ v \in Int
    BY <1>2, <1>3, <1>4, SMT DEF x
  <2> QED
    BY <1>3, <2>1, DivUnique
<1>8. v % Radix = v
  BY <1>1, <1>2, SMT
<1> QED
  BY <1>6, <1>7, <1>8 DEF DigitOf, DigitAt, p, x

\* The tables of a context have a word for every word, and its digits are those
\* that the block gives to the digits of the word.
LEMMA TableIs ==
  ASSUME NEW sbox \in SubstBlock
  PROVE  /\ kboxinit(sbox) \in [Word -> Word]
         /\ \A x \in Word, n \in 0 .. Digits - 1 :
              DigitOf(kboxinit(sbox)[x], n) = sbox[n][DigitOf(x, n)]
<1>1. ASSUME NEW x \in Word
      PROVE  /\ kboxinit(sbox)[x] \in Word
             /\ \A n \in 0 .. Digits - 1 : DigitOf(kboxinit(sbox)[x], n) = sbox[n][DigitOf(x, n)]
  <2> DEFINE d == [n \in 0 .. Digits - 1 |-> sbox[n][DigitOf(x, n)]]
  <2>1. x \in Nat /\ \A n \in 0 .. Digits - 1 : n \in Nat
    BY WordSize, SMT DEF Word
  <2>2. \A n \in 0 .. Digits - 1 : DigitOf(x, n) \in Digit
    BY <2>1, WordIsPower, DigitStep DEF DigitOf, Digit
  <2>3. \A n \in 0 .. Digits - 1 : d[n] = sbox[n][DigitOf(x, n)] /\ d[n] \in 0 .. Radix - 1
    BY <2>2 DEF SubstBlock, Digit
  <2>4. kboxinit(sbox)[x] = WordOf(Radix, d, Digits)
    BY DEF kboxinit
  <2> HIDE DEF d
  <2>5. AreDigits(Radix, Digits, d)
    BY <2>3 DEF AreDigits
  <2> DEFINE y == kboxinit(sbox)[x]
  <2>6. y = WordOf(Radix, d, Digits)
    BY <2>4
  <2> HIDE DEF y
  <2>7. y \in Word /\ \A n \in 0 .. Digits - 1 : DigitAt(Radix, y, n) = d[n]
    BY ONLY <2>5, <2>6, DigitWord
  <2> QED
    BY <2>3, <2>7 DEF DigitOf, y
<1>2. kboxinit(sbox) = [x \in Word |-> kboxinit(sbox)[x]]
  BY DEF kboxinit
<1> QED
  BY <1>1, <1>2

LEMMA BoxIs ==
  ASSUME NEW sbox \in SubstBlock
  PROVE  dstu_get_sbox(kboxinit(sbox)) = sbox
<1> DEFINE k == kboxinit(sbox)
<1>1. ASSUME NEW n \in 0 .. Digits - 1, NEW v \in Digit
      PROVE  DigitOf(k[v * Power(Radix)[n]], n) = sbox[n][v]
  <2> HIDE DEF k
  <2>1. v * Power(Radix)[n] \in Word /\ DigitOf(v * Power(Radix)[n], n) = v
    BY DigitIs
  <2> QED
    BY <2>1, TableIs DEF k
<1>2. sbox = [n \in 0 .. Digits - 1 |-> [v \in Digit |-> sbox[n][v]]]
  BY DEF SubstBlock
<1> HIDE DEF k
<1>3. dstu_get_sbox(k) = [n \in 0 .. Digits - 1 |-> [v \in Digit |-> sbox[n][v]]]
  BY <1>1 DEF dstu_get_sbox
<1> QED
  BY <1>2, <1>3 DEF k

\* Whatever a context holds, gost_init and gost_key make it one that the theorems
\* about encryption speak of.
LEMMA InitGivesContext ==
  ASSUME NEW c, c = [key |-> c.key, mask |-> c.mask, k |-> c.k],
         NEW sbox \in SubstBlock, NEW key \in KeyWords, NEW mask \in KeyWords
  PROVE  gost_key(gost_init(c, sbox), key, mask) \in Context
<1>1. kboxinit(sbox) \in [Word -> Word]
  BY TableIs
<1>2. gost_key_impl(key, mask) \in KeyWords
  <2>1. \A n \in KeyIndex : (key[n] - mask[n]) % W \in Word
    <3>1. \A n \in KeyIndex : key[n] \in Word /\ mask[n] \in Word
      BY DEF KeyWords
    <3>2. \A a, b \in Word : (a - b) % W \in Word
      BY WordSize, SMT DEF Word
    <3> QED
      BY <3>1, <3>2
  <2> QED
    BY <2>1 DEF gost_key_impl, KeyWords
<1> DEFINE k    == kboxinit(sbox)
           impl == gost_key_impl(key, mask)
<1>3. gost_key(gost_init(c, sbox), key, mask)
        = [[c EXCEPT !.k = k] EXCEPT !.mask = mask, !.key = impl]
  BY DEF gost_key, gost_init
<1> HIDE DEF k, impl
<1>4. gost_key(gost_init(c, sbox), key, mask) = [key |-> impl, mask |-> mask, k |-> k]
  BY <1>3
<1> QED
  BY <1>1, <1>2, <1>4 DEF Context, k, impl

\* The substitution block that is published in the ASN.1 parameters of a cipher
\* is the one that the context was given, although it has been unpacked,
\* expanded into tables, collected from them and packed again (unpack_sbox,
\* kboxinit, dstu_get_sbox and pack_sbox).
THEOREM SboxComesBack ==
  ASSUME NEW packed \in PackedBlock
  PROVE  pack_sbox(dstu_get_sbox(kboxinit(unpack_sbox(packed)))) = packed
BY PackedAgain, BoxIs

(***************************************************************************)
(* Compressed points: what is written of a point is read as the same       *)
(* point, over every binary field of odd degree, and which points are the  *)
(* exceptions.                                                             *)
(***************************************************************************)

-----------------------------------------------------------------------------
(* The field                                                               *)

LEMMA Constants01 == 0 \in Field /\ 1 \in Field
  BY DegreeAssumption DEF Field

LEMMA AddSwap ==
  ASSUME NEW a \in Field, NEW b \in Field, NEW c \in Field, NEW d \in Field
  PROVE  Add(Add(a, b), Add(c, d)) = Add(Add(a, c), Add(b, d))
<1>1. Add(a, b) \in Field /\ Add(c, d) \in Field /\ Add(b, d) \in Field /\ Add(b, c) \in Field
      /\ Add(a, c) \in Field
  BY GroupAssumption
<1>2. Add(Add(a, b), Add(c, d)) = Add(Add(Add(a, b), c), d)
  BY <1>1, RingAssumption
<1>3. Add(Add(a, b), c) = Add(a, Add(b, c))
  BY RingAssumption
<1>4. Add(b, c) = Add(c, b)
  BY GroupAssumption
<1>5. Add(a, Add(c, b)) = Add(Add(a, c), b)
  BY RingAssumption
<1>6. Add(Add(Add(a, c), b), d) = Add(Add(a, c), Add(b, d))
  BY <1>1, RingAssumption
<1> QED
  BY <1>2, <1>3, <1>4, <1>5, <1>6

LEMMA MulSwap ==
  ASSUME NEW a \in Field, NEW b \in Field, NEW c \in Field, NEW d \in Field
  PROVE  Mul(Mul(a, b), Mul(c, d)) = Mul(Mul(a, c), Mul(b, d))
<1>1. Mul(a, b) \in Field /\ Mul(c, d) \in Field /\ Mul(b, d) \in Field /\ Mul(b, c) \in Field
      /\ Mul(a, c) \in Field
  BY GroupAssumption
<1>2. Mul(Mul(a, b), Mul(c, d)) = Mul(Mul(Mul(a, b), c), d)
  BY <1>1, RingAssumption
<1>3. Mul(Mul(a, b), c) = Mul(a, Mul(b, c))
  BY RingAssumption
<1>4. Mul(b, c) = Mul(c, b)
  BY GroupAssumption
<1>5. Mul(a, Mul(c, b)) = Mul(Mul(a, c), b)
  BY RingAssumption
<1>6. Mul(Mul(Mul(a, c), b), d) = Mul(Mul(a, c), Mul(b, d))
  BY <1>1, RingAssumption
<1> QED
  BY <1>2, <1>3, <1>4, <1>5, <1>6

\* What is added twice is gone.
LEMMA AddTwice ==
  ASSUME NEW a \in Field, NEW b \in Field
  PROVE  Add(a, Add(a, b)) = b
<1>1. Add(a, Add(a, b)) = Add(Add(a, a), b)
  BY RingAssumption
<1>2. Add(a, a) = 0 /\ Add(0, b) = Add(b, 0) /\ Add(b, 0) = b
  BY GroupAssumption, Constants01
<1> QED
  BY <1>1, <1>2

LEMMA NoZeroDivisors ==
  ASSUME NEW u \in Field, NEW v \in Field, Mul(u, v) = 0, u # 0
  PROVE  v = 0
<1> DEFINE i == Inverse2m(u)
<1>1. i \in Field /\ Mul(u, i) = 1
  BY InverseAssumption
<1> HIDE DEF i
<1>2. Mul(i, Mul(u, v)) = Mul(Mul(i, u), v)
  BY <1>1, RingAssumption
<1>3. Mul(i, u) = 1 /\ Mul(1, v) = Mul(v, 1) /\ Mul(v, 1) = v /\ Mul(i, 0) = 0
  BY <1>1, GroupAssumption, Constants01
<1> QED
  BY <1>2, <1>3

\* The equation z^2 + z = u has two solutions.
LEMMA TwoSolutions ==
  ASSUME NEW u \in Field, NEW z \in Field, NEW w \in Field, Solves(z, u), Solves(w, u)
  PROVE  w = z \/ w = Add(z, 1)
<1> DEFINE t == Add(z, w)
<1>1. t \in Field /\ Sq(z) \in Field /\ Sq(w) \in Field /\ Mul(z, w) \in Field /\ Sq(t) \in Field
  BY GroupAssumption DEF Sq
<1>2. Sq(t) = Add(Sq(z), Sq(w))
  <2>1. Mul(t, t) = Add(Mul(t, z), Mul(t, w))
    BY <1>1, RingAssumption
  <2>2. Mul(t, z) = Add(Mul(z, z), Mul(z, w))
    BY <1>1, GroupAssumption, RingAssumption
  <2>3. Mul(t, w) = Add(Mul(z, w), Mul(w, w))
    <3>1. Mul(t, w) = Mul(w, t) /\ Mul(w, z) = Mul(z, w)
      BY <1>1, GroupAssumption
    <3>2. Mul(w, t) = Add(Mul(w, z), Mul(w, w))
      BY RingAssumption
    <3> QED
      BY <3>1, <3>2
  <2>4. Add(Add(Mul(z, z), Mul(z, w)), Add(Mul(z, w), Mul(w, w)))
          = Add(Mul(z, z), Add(Mul(z, w), Add(Mul(z, w), Mul(w, w))))
    BY <1>1, GroupAssumption, RingAssumption DEF Sq
  <2>5. Add(Mul(z, w), Add(Mul(z, w), Mul(w, w))) = Mul(w, w)
    BY <1>1, AddTwice DEF Sq
  <2> QED
    BY <2>1, <2>2, <2>3, <2>4, <2>5 DEF Sq
<1> HIDE DEF t
<1>3. Add(Sq(t), t) = 0
  <2>1. Add(Sq(t), t) = Add(Add(Sq(z), z), Add(Sq(w), w))
    BY <1>1, <1>2, AddSwap DEF t
  <2> QED
    BY <2>1, GroupAssumption DEF Solves
<1>4. Mul(t, Add(t, 1)) = 0 /\ Add(t, 1) \in Field
  BY <1>1, <1>3, GroupAssumption, RingAssumption, Constants01 DEF Sq
<1>5. t = 0 \/ Add(t, 1) = 0
  BY <1>1, <1>4, NoZeroDivisors
<1>6. t = 0 \/ t = 1
  <2>1. Add(1, Add(1, t)) = t /\ Add(1, t) = Add(t, 1) /\ Add(1, 0) = 1
    BY <1>1, AddTwice, GroupAssumption, Constants01
  <2> QED
    BY <1>5, <2>1
<1>7. w = Add(z, t)
  BY AddTwice DEF t
<1> QED
  BY <1>6, <1>7, GroupAssumption

-----------------------------------------------------------------------------
(* The lowest bit                                                          *)

LEMMA LowestBit ==
  ASSUME NEW u \in Field, NEW k \in {0, 1}
  PROVE  /\ ClearBit(u) \in Field /\ WithBit(u, k) \in Field
         /\ WithBit(u, 1) = Add(ClearBit(u), 1) /\ WithBit(u, 0) = ClearBit(u)
         /\ u = WithBit(u, 0) \/ u = WithBit(u, 1)
         /\ ClearBit(WithBit(u, k)) = ClearBit(u) /\ WithBit(u, k) % 2 = k
<1>1. u \in Nat /\ u % 2 \in {0, 1}
  BY DegreeAssumption, SMT DEF Field
<1>2. ClearBit(u) \in Field
  <2>1. CASE u % 2 = 0
    BY <1>1, <2>1 DEF ClearBit
  <2>2. CASE u % 2 = 1
    <3>1. Add(u, 1) \in Field /\ Add(u, 1) = u - 1
      BY <2>2, GroupAssumption, Constants01
    <3> QED
      BY <2>2, <3>1 DEF ClearBit
  <2> QED
    BY <1>1, <2>1, <2>2
<1>3. ClearBit(u) \in Nat /\ ClearBit(u) % 2 = 0
  BY <1>1, SMT DEF ClearBit
<1>4. Add(ClearBit(u), 1) = ClearBit(u) + 1 /\ Add(ClearBit(u), 1) \in Field
  BY <1>2, <1>3, GroupAssumption, Constants01
<1>5. WithBit(u, k) \in Field
  BY <1>2, <1>3, <1>4 DEF WithBit
<1>6. ClearBit(WithBit(u, k)) = ClearBit(u) /\ WithBit(u, k) % 2 = k
  BY <1>3, SMT DEF WithBit, ClearBit
<1> QED
  BY <1>1, <1>2, <1>3, <1>4, <1>5, <1>6, SMT DEF WithBit, ClearBit

\* The x that is read has the trace a, and there is one with those bits.
LEMMA RestoredIs ==
  ASSUME NEW a \in {0, 1}, NEW c \in Field
  PROVE  /\ RestoredX(a, c) \in Field /\ Trace(RestoredX(a, c)) = a
         /\ \A x \in Field : Trace(x) = a /\ ClearBit(x) = ClearBit(c) => RestoredX(a, c) = x
<1> DEFINE x0 == ClearBit(c)
<1>1. x0 \in Field /\ ClearBit(x0) = x0
  BY LowestBit DEF WithBit
<1>2. x0 = WithBit(x0, 0) /\ Add(x0, 1) = WithBit(x0, 1) /\ Add(x0, 1) \in Field
  BY <1>1, LowestBit, GroupAssumption, Constants01
<1>3. Trace(x0) \in {0, 1} /\ Trace(Add(x0, 1)) = 1 - Trace(x0)
  BY <1>1, TraceAssumption
<1>4. RestoredX(a, c) = IF Trace(x0) = a THEN x0 ELSE Add(x0, 1)
  BY <1>2 DEF RestoredX
<1>5. ASSUME NEW x \in Field, ClearBit(x) = x0
      PROVE  x = x0 \/ x = Add(x0, 1)
  BY <1>5, LowestBit DEF WithBit
<1> HIDE DEF x0
<1>6. RestoredX(a, c) \in Field /\ Trace(RestoredX(a, c)) = a
  BY <1>1, <1>2, <1>3, <1>4
<1>7. ASSUME NEW x \in Field, Trace(x) = a, ClearBit(x) = ClearBit(c)
      PROVE  RestoredX(a, c) = x
  BY <1>3, <1>4, <1>5, <1>7 DEF x0
<1> QED
  BY <1>6, <1>7

-----------------------------------------------------------------------------
(* The curve                                                               *)

\* The inverse of a square is the square of the inverse.
LEMMA SquareOfInverse ==
  ASSUME NEW x \in Field \ {0}
  PROVE  Sq(x) \in Field \ {0} /\ Inverse2m(Sq(x)) = Sq(Inverse2m(x))
<1> DEFINE i == Inverse2m(x)
           q == Inverse2m(Sq(x))
<1>1. i \in Field /\ Mul(x, i) = 1 /\ Sq(x) \in Field /\ Sq(i) \in Field
  BY InverseAssumption, GroupAssumption DEF Sq
<1>2. Sq(x) # 0
  BY NoZeroDivisors DEF Sq
<1>3. q \in Field /\ Mul(Sq(x), q) = 1
  BY <1>1, <1>2, InverseAssumption
<1> HIDE DEF i, q
<1>4. Mul(Sq(x), Sq(i)) = 1
  <2>1. Mul(Mul(x, x), Mul(i, i)) = Mul(Mul(x, i), Mul(x, i))
    BY <1>1, MulSwap
  <2> QED
    BY <1>1, <2>1, GroupAssumption, Constants01 DEF Sq
<1>5. Mul(q, Mul(Sq(x), Sq(i))) = Mul(Mul(q, Sq(x)), Sq(i))
  BY <1>1, <1>3, RingAssumption
<1>6. Mul(q, 1) = q /\ Mul(q, Sq(x)) = 1 /\ Mul(1, Sq(i)) = Mul(Sq(i), 1) /\ Mul(Sq(i), 1) = Sq(i)
  BY <1>1, <1>3, GroupAssumption, Constants01
<1>7. q = Sq(i)
  BY <1>4, <1>5, <1>6
<1> QED
  BY <1>1, <1>2, <1>7 DEF i, q

\* y / x is a solution of the equation that is solved for y.
LEMMA SlopeSolves ==
  ASSUME NEW a \in {0, 1}, NEW b \in Field, NEW x \in Field \ {0}, NEW y \in Field,
         OnCurve(a, b, x, y)
  PROVE  /\ Slope(x, y) \in Field /\ Quadratic(a, b, x) \in Field
         /\ Solves(Slope(x, y), Quadratic(a, b, x))
         /\ Mul(Slope(x, y), x) = y
<1> DEFINE i    == Inverse2m(x)
           z    == Slope(x, y)
           cube == Mul(Sq(x), x)
<1>1. i \in Field /\ Mul(x, i) = 1 /\ Sq(x) \in Field /\ Sq(i) \in Field /\ Sq(y) \in Field
      /\ cube \in Field /\ Mul(x, y) \in Field
  BY InverseAssumption, GroupAssumption DEF Sq
<1>2. z = Mul(y, i) /\ z \in Field
  BY <1>1, GroupAssumption DEF Slope
<1>3. Quadratic(a, b, x) = Mul(Add(Sq(y), Mul(x, y)), Sq(i))
  <2>1. (IF a = 1 THEN Add(cube, Sq(x)) ELSE cube) = Add(cube, Mul(a, Sq(x)))
    <3>1. Mul(1, Sq(x)) = Mul(Sq(x), 1) /\ Mul(Sq(x), 1) = Sq(x)
      BY <1>1, GroupAssumption, Constants01
    <3>2. Mul(0, Sq(x)) = Mul(Sq(x), 0) /\ Mul(Sq(x), 0) = 0 /\ Add(cube, 0) = cube
      BY <1>1, GroupAssumption, Constants01
    <3> QED
      BY <3>1, <3>2
  <2>2. Inverse2m(Sq(x)) = Sq(i)
    BY SquareOfInverse
  <2> QED
    BY <2>1, <2>2 DEF Quadratic, OnCurve
<1> HIDE DEF i, z, cube
<1>4. Add(Sq(y), Mul(x, y)) \in Field /\ Mul(Sq(i), Sq(y)) \in Field
      /\ Mul(Sq(i), Mul(x, y)) \in Field
  BY <1>1, GroupAssumption
<1>5. Quadratic(a, b, x) \in Field
  BY <1>1, <1>3, <1>4, GroupAssumption
<1>6. Mul(Add(Sq(y), Mul(x, y)), Sq(i)) = Add(Mul(Sq(i), Sq(y)), Mul(Sq(i), Mul(x, y)))
  <2>1. Mul(Add(Sq(y), Mul(x, y)), Sq(i)) = Mul(Sq(i), Add(Sq(y), Mul(x, y)))
    BY <1>1, <1>4, GroupAssumption
  <2> QED
    BY <1>1, <2>1, RingAssumption
<1>7. Mul(Sq(i), Sq(y)) = Sq(z)
  <2>1. Mul(Mul(i, i), Mul(y, y)) = Mul(Mul(i, y), Mul(i, y)) /\ Mul(i, y) = Mul(y, i)
    BY <1>1, MulSwap, GroupAssumption
  <2> QED
    BY <1>2, <2>1 DEF Sq
<1>8. Mul(Sq(i), Mul(x, y)) = z
  <2>1. Mul(Mul(i, i), Mul(x, y)) = Mul(Mul(i, x), Mul(i, y))
    BY <1>1, MulSwap
  <2>2. Mul(i, x) = 1 /\ Mul(i, y) = z /\ Mul(1, z) = Mul(z, 1) /\ Mul(z, 1) = z
    BY <1>1, <1>2, GroupAssumption, Constants01
  <2> QED
    BY <2>1, <2>2 DEF Sq
<1>9. Mul(z, x) = y
  <2>1. Mul(Mul(y, i), x) = Mul(y, Mul(i, x))
    BY <1>1, RingAssumption
  <2>2. Mul(i, x) = 1 /\ Mul(y, 1) = y
    BY <1>1, GroupAssumption, Constants01
  <2> QED
    BY <1>2, <2>1, <2>2
<1> QED
  BY <1>2, <1>3, <1>5, <1>6, <1>7, <1>8, <1>9 DEF Solves, z

\* The bit k tells y / x from the other solution.
LEMMA RestoredYIs ==
  ASSUME NEW a \in {0, 1}, NEW b \in Field, NEW x \in Field \ {0}, NEW y \in Field,
         OnCurve(a, b, x, y)
  PROVE  RestoredY(a, b, x, Trace(Slope(x, y))) = y
<1> DEFINE u == Quadratic(a, b, x)
           z == Slope(x, y)
           s == Solve(u)
<1>1. z \in Field /\ u \in Field /\ Solves(z, u) /\ Mul(z, x) = y
  BY SlopeSolves
<1>2. s \in Field /\ Solves(s, u)
  BY <1>1, SolveAssumption
<1>3. s = z \/ s = Add(z, 1)
  BY <1>1, <1>2, TwoSolutions
<1>4. Trace(z) \in {0, 1} /\ Trace(Add(z, 1)) = 1 - Trace(z)
  BY <1>1, TraceAssumption
<1>5. Add(Add(z, 1), 1) = z
  <2>1. Add(Add(z, 1), 1) = Add(z, Add(1, 1)) /\ Add(1, 1) = 0 /\ Add(z, 0) = z
    BY <1>1, GroupAssumption, RingAssumption, Constants01
  <2> QED
    BY <2>1
<1>6. RestoredY(a, b, x, Trace(z)) = Mul(IF Trace(s) = Trace(z) THEN s ELSE Add(s, 1), x)
  BY DEF RestoredY
<1> HIDE DEF z, u, s
<1>7. (IF Trace(s) = Trace(z) THEN s ELSE Add(s, 1)) = z
  BY <1>3, <1>4, <1>5
<1> QED
  BY <1>1, <1>6, <1>7 DEF z

LEMMA SlopeOfOne ==
  ASSUME NEW y \in Field
  PROVE  Slope(1, y) = y
<1>1. Mul(1, Inverse2m(1)) = 1 /\ Inverse2m(1) \in Field
  BY InverseAssumption, Constants01
<1>2. Mul(1, Inverse2m(1)) = Mul(Inverse2m(1), 1) /\ Mul(Inverse2m(1), 1) = Inverse2m(1)
  BY <1>1, GroupAssumption, Constants01
<1> QED
  BY <1>1, <1>2, GroupAssumption DEF Slope

-----------------------------------------------------------------------------
(* Theorems                                                                *)

\* A writable point of the curve is written by dstu_point_compress and read as
\* itself by dstu_point_expand, over every binary field of odd degree.
THEOREM PointsComeBack ==
  \A a \in {0, 1}, b, x, y \in Field : ComesBack(a, b, x, y)
<1> SUFFICES ASSUME NEW a \in {0, 1}, NEW b \in Field, NEW x \in Field, NEW y \in Field,
                    OnCurve(a, b, x, y), Writable(a, x, y)
             PROVE  \E c \in Field : /\ dstu_point_compress(x, y) = <<c>>
                                    /\ dstu_point_expand(a, b, c) = <<x, y>>
  BY DEF ComesBack, None
<1>1. CASE x = 0
  <2>1. Sq(y) = b
    <3>1. Sq(x) = 0 /\ Sq(y) \in Field
      BY <1>1, GroupAssumption DEF Sq
    <3>2. Mul(x, y) = Mul(y, x) /\ Mul(y, x) = 0 /\ Mul(a, 0) = 0 /\ Mul(Sq(x), x) = 0
      BY <1>1, <3>1, GroupAssumption, Constants01
    <3>3. Add(Sq(y), 0) = Sq(y) /\ Add(0, 0) = 0 /\ Add(0, b) = Add(b, 0) /\ Add(b, 0) = b
      BY <3>1, GroupAssumption, Constants01
    <3> QED
      BY <3>1, <3>2, <3>3 DEF OnCurve
  <2>2. Root(b) = y
    BY <2>1, RootAssumption
  <2> QED
    BY <1>1, <2>2, Constants01 DEF dstu_point_compress, dstu_point_expand
<1>2. CASE x # 0
  <2> DEFINE k == Trace(Slope(x, y))
             c == WithBit(x, k)
  <2>1. Slope(x, y) \in Field /\ Quadratic(a, b, x) \in Field
        /\ Solves(Slope(x, y), Quadratic(a, b, x))
    BY <1>2, SlopeSolves
  <2>2. /\ k \in {0, 1} /\ c = WithBit(x, k)
        /\ dstu_point_compress(x, y) = IF c = 0 THEN None ELSE <<c>>
    BY <1>2, <2>1, TraceAssumption DEF dstu_point_compress
  <2> HIDE DEF k, c
  <2>3. c \in Field /\ c % 2 = k /\ ClearBit(c) = ClearBit(x)
    BY <2>2, LowestBit
  <2>4. c # 0
    <3>1. SUFFICES ASSUME c = 0 PROVE FALSE
      OBVIOUS
    <3>2. k = 0 /\ ClearBit(x) = 0
      BY <2>2, <2>3, <3>1, LowestBit DEF WithBit
    <3>3. x = 1
      BY <1>2, <3>2, LowestBit DEF WithBit
    <3>4. Slope(x, y) = y
      BY <3>3, SlopeOfOne
    <3> QED
      BY <1>2, <3>2, <3>3, <3>4 DEF Writable, Vanishes, k
  <2>5. RestoredX(a, c) = x
    BY <1>2, <2>3, RestoredIs DEF Writable
  <2>6. RestoredY(a, b, x, c % 2) = y
    BY <1>2, <2>3, RestoredYIs DEF k
  <2>7. \E z \in Field : Solves(z, Quadratic(a, b, x))
    BY <2>1
  <2>8. dstu_point_expand(a, b, c) = <<x, y>>
    BY <1>2, <2>4, <2>5, <2>6, <2>7 DEF dstu_point_expand
  <2> QED
    BY <2>2, <2>3, <2>4, <2>8
<1> QED
  BY <1>1, <1>2

\* No other point of the curve is: dstu_point_compress refuses one whose x it would
\* write as 0, and what it writes of an x whose trace is not a is never read as x.
THEOREM OthersAreLost ==
  \A a \in {0, 1}, b, x, y \in Field : OthersDoNot(a, b, x, y)
<1> SUFFICES ASSUME NEW a \in {0, 1}, NEW b \in Field, NEW x \in Field, NEW y \in Field,
                    OnCurve(a, b, x, y), ~Writable(a, x, y)
             PROVE  IF Vanishes(x, y) THEN dstu_point_compress(x, y) = None
                    ELSE \E c \in Field : /\ dstu_point_compress(x, y) = <<c>>
                                         /\ dstu_point_expand(a, b, c) # <<x, y>>
  BY DEF OthersDoNot, None
<1> DEFINE k == Trace(Slope(x, y))
           c == WithBit(x, k)
           p == dstu_point_expand(a, b, c)
<1>1. x # 0 /\ (Vanishes(x, y) \/ Trace(x) # a)
  BY DEF Writable
<1>2. /\ Slope(x, y) \in Field /\ k \in {0, 1} /\ c = WithBit(x, k) /\ c \in Field
      /\ dstu_point_compress(x, y) = IF c = 0 THEN None ELSE <<c>>
  BY <1>1, SlopeSolves, TraceAssumption, LowestBit DEF dstu_point_compress
<1>3. CASE Vanishes(x, y)
  <2>1. x = 1 /\ k = 0
    BY <1>3, SlopeOfOne DEF Vanishes
  <2>2. WithBit(1, 0) = 0
    BY DEF WithBit, ClearBit
  <2> QED
    BY <1>2, <1>3, <2>1, <2>2
<1>4. CASE ~Vanishes(x, y)
  <2>1. c # 0
    <3>1. SUFFICES ASSUME c = 0 PROVE FALSE
      OBVIOUS
    <3> HIDE DEF k, c
    <3>2. k = 0 /\ ClearBit(x) = 0
      BY <1>2, <3>1, LowestBit DEF WithBit
    <3>3. x = 1
      BY <1>1, <3>2, LowestBit DEF WithBit
    <3>4. Slope(x, y) = y
      BY <3>3, SlopeOfOne
    <3> QED
      BY <1>4, <3>2, <3>3, <3>4 DEF Vanishes, k
  <2>2. p = None \/ p = <<RestoredX(a, c), RestoredY(a, b, RestoredX(a, c), c % 2)>>
    BY <2>1 DEF dstu_point_expand
  <2>3. Trace(RestoredX(a, c)) = a /\ Trace(x) # a
    BY <1>1, <1>2, <1>4, RestoredIs
  <2>4. None # <<x, y>>
    BY DEF None
  <2>5. p # <<x, y>>
    BY <2>2, <2>3, <2>4
  <2> QED
    BY <1>2, <1>4, <2>1, <2>5
<1> QED
  BY <1>3, <1>4

(***************************************************************************)
(* The hash and its contexts, for any contexts, boxes, compression         *)
(* function, block size and pieces: a digest is that of the message,       *)
(* however the message was cut.                                            *)
(***************************************************************************)

-----------------------------------------------------------------------------
(* The sum of blocks                                                       *)

LEMMA BytesInBlock ==
  ASSUME NEW n \in Nat
  PROVE  Bytes(n) \in Block
<1> SUFFICES ASSUME NEW i \in 1 .. BS PROVE DigitAt(B, n, i - 1) \in Byte
  BY DEF Bytes, Block
<1>1. i - 1 \in Nat /\ B \in Nat \ {0}
  BY SizeAssumption, SMT
<1> QED
  BY <1>1, DigitStep DEF Byte

LEMMA SameBlock ==
  ASSUME NEW v \in Block, NEW w \in Block, \A i \in 1 .. BS : v[i] = w[i]
  PROVE  v = w
<1>1. v = [i \in 1 .. BS |-> v[i]]
  BY DEF Block
<1>2. w = [i \in 1 .. BS |-> w[i]]
  BY DEF Block
<1> QED
  BY <1>1, <1>2

\* The carries of add_blocks.
IsCarry(c, l, r) ==
  /\ c \in [0 .. BS -> Nat] /\ c[0] = 0
  /\ \A k \in 0 .. BS - 1 : c[k + 1] = (l[k + 1] + r[k + 1] + c[k]) \div B

LEMMA CarryExists ==
  ASSUME NEW l \in Block, NEW r \in Block
  PROVE  \E c : /\ IsCarry(c, l, r)
                /\ AddBlocks(l, r) = [i \in 1 .. BS |-> (l[i] + r[i] + c[i - 1]) % B]
<1> DEFINE c[i \in 0 .. BS] == IF i = 0 THEN 0 ELSE (l[i] + r[i] + c[i - 1]) \div B
           g == [y \in Nat \X Nat |-> IF y[1] \in 1 .. BS THEN (l[y[1]] + r[y[1]] + y[2]) \div B ELSE 0]
<1>1. BS \in Nat /\ B \in Nat \ {0}
  BY SizeAssumption
<1>2. \A i \in 1 .. BS : l[i] \in Nat /\ r[i] \in Nat
  BY SizeAssumption, SMT DEF Block, Byte
<1>3. AddBlocks(l, r) = [i \in 1 .. BS |-> (l[i] + r[i] + c[i - 1]) % B]
  BY DEF AddBlocks
<1>4. \A u, v, w \in Nat : (u + v + w) \div B \in Nat
  BY <1>1, SMT
<1>5. g \in [Nat \X Nat -> Nat] /\ 0 \in Nat
  BY <1>2, <1>4
<1>6. PICK run \in [0 .. BS -> Nat] : IsRun(run, 0 .. BS, 0, g)
  <2> HIDE DEF g
  <2> QED
    BY <1>1, <1>5, RunExists
<1>7. run = [i \in 0 .. BS |-> IF i = 0 THEN 0 ELSE (l[i] + r[i] + run[i - 1]) \div B]
  <2>1. \A k \in 0 .. BS : k # 0 => k \in 1 .. BS /\ k \in Nat /\ k - 1 \in 0 .. BS
    BY <1>1, SMT
  <2>2. \A k \in 0 .. BS : k # 0 => g[<<k, run[k - 1]>>] = (l[k] + r[k] + run[k - 1]) \div B
    BY <2>1
  <2> HIDE DEF g
  <2> QED
    BY <1>6, <2>2 DEF IsRun
<1>8. c = [i \in 0 .. BS |-> IF i = 0 THEN 0 ELSE (l[i] + r[i] + c[i - 1]) \div B]
  BY <1>7
<1> HIDE DEF c
<1>9. c[0] = 0 /\ \A k \in 0 .. BS - 1 : c[k + 1] = (l[k + 1] + r[k + 1] + c[k]) \div B
  <2>1. 0 \in 0 .. BS /\ \A k \in 0 .. BS - 1 : k + 1 \in 0 .. BS /\ k + 1 # 0 /\ (k + 1) - 1 = k
    BY <1>1, SMT
  <2> QED
    BY <1>8, <2>1
<1>10. c \in [0 .. BS -> Nat]
  <2> DEFINE P == {k \in 0 .. BS : c[k] \in Nat}
  <2>1. 0 \in P
    BY <1>1, <1>9, SMT
  <2>2. \A k \in 0 .. BS - 1 : k \in P => k + 1 \in P
    <3> SUFFICES ASSUME NEW k \in 0 .. BS - 1, c[k] \in Nat PROVE k + 1 \in P
      OBVIOUS
    <3> DEFINE w == l[k + 1] + r[k + 1] + c[k]
    <3>1. k + 1 \in 1 .. BS /\ k + 1 \in 0 .. BS
      BY <1>1, SMT
    <3>2. l[k + 1] \in Nat /\ r[k + 1] \in Nat
      BY <1>2, <3>1
    <3>3. w \in Nat
      BY <3>2, SMT
    <3>4. c[k + 1] = w \div B
      BY <1>9
    <3> HIDE DEF w
    <3>5. w \div B \in Nat
      BY <1>1, <3>3, DivNat
    <3> QED
      BY <3>1, <3>4, <3>5
  <2> HIDE DEF P
  <2>3. \A k \in 0 .. BS : k \in P
    BY <1>1, <2>1, <2>2, UpTo
  <2> QED
    BY <1>8, <2>3 DEF P
<1> QED
  BY <1>3, <1>9, <1>10 DEF IsCarry

\* One digit of a sum: e and x are what is above it, w is what it is made of.
DigitOfSum(b, e, u, x, v, c) ==
  LET t == (b * e + u) + (b * x + v) + c
      w == u + v + c
  IN  t \div b = e + x + (w \div b) /\ t % b = w % b

LEMMA SumStep ==
  ASSUME NEW b \in Nat \ {0}, NEW e \in Nat, NEW x \in Nat,
         NEW u \in Nat, NEW v \in Nat, NEW c \in Nat
  PROVE  DigitOfSum(b, e, u, x, v, c)
<1> DEFINE t == (b * e + u) + (b * x + v) + c
           w == u + v + c
           a == w \div b
           r == w % b
           m == e + x + a
<1>1. w \in Nat /\ w \in Int
  BY SMT
<1> HIDE DEF w
<1>2. a \in Nat
  BY <1>1, DivNat
<1>3. r \in 0 .. b - 1 /\ w = b * a + r
  BY <1>1, DivMod
<1> HIDE DEF a, r
<1>4. t = b * (e + x + a) + r
  <2>1. t = b * e + b * x + w
    BY SMT DEF w
  <2>2. b * (e + x + a) = b * e + b * x + b * a
    BY <1>2, SMT
  <2> HIDE DEF t
  <2>3. b * e \in Nat /\ b * x \in Nat /\ b * a \in Nat /\ r \in Nat
    BY <1>2, <1>3, SMT
  <2> QED
    BY <1>3, <2>1, <2>2, <2>3, SMT
<1>5. m \in Int
  BY <1>2, SMT
<1>6. t = b * m + r
  BY <1>4
<1> HIDE DEF m, t
<1>7. t \div b = m
  BY <1>3, <1>5, <1>6, DivUnique
<1>8. t % b = r
  BY <1>3, <1>5, <1>6, ModUnique
<1> QED
  BY <1>7, <1>8, Zenon DEF DigitOfSum, t, m, a, r, w

\* add_blocks adds the number of a block, as far as BS bytes hold it.
LEMMA AddNumber ==
  ASSUME NEW s \in Nat, NEW r \in Block
  PROVE  Number(r) \in Nat /\ AddBlocks(Bytes(s), r) = Bytes(s + Number(r))
<1> DEFINE l == Bytes(s)
           d == [i \in 1 .. BS |-> r[BS - i + 1]]
           p == Power(B)
<1>1. BS \in Nat /\ B \in Nat \ {0} /\ B \in Nat
  BY SizeAssumption
<1>2. \A i \in 1 .. BS : r[i] \in Nat
  BY SizeAssumption, SMT DEF Block, Byte
<1>3. \A i \in 1 .. BS : BS - i + 1 \in 1 .. BS
  BY <1>1, SMT
<1>4. \A i \in 1 .. BS : d[i] \in Nat
  BY <1>2, <1>3
<1>5. \A k \in 0 .. BS - 1 : d[BS - k] = r[k + 1]
  <2>1. \A k \in 0 .. BS - 1 : BS - k \in 1 .. BS /\ BS - (BS - k) + 1 = k + 1
    BY <1>1, SMT
  <2> QED
    BY <2>1
<1>6. l \in Block
  BY BytesInBlock
<1>7. Number(r) = NumberOf(B, d, BS)
  BY DEF Number
<1>8. \A k \in 0 .. BS - 1 : l[k + 1] = DigitAt(B, s, k)
  <2>1. \A k \in 0 .. BS - 1 : k + 1 \in 1 .. BS /\ (k + 1) - 1 = k
    BY <1>1, SMT
  <2> QED
    BY <2>1 DEF Bytes
<1> HIDE DEF d, l
<1>9. PICK x : IsNumberRun(x, B, d, BS) /\ NumberOf(B, d, BS) = x[BS]
  BY <1>1, <1>4, NumberSteps
<1>10. PICK c : /\ IsCarry(c, l, r)
                /\ AddBlocks(l, r) = [i \in 1 .. BS |-> (l[i] + r[i] + c[i - 1]) % B]
  BY <1>6, CarryExists
<1>11. \A k \in 0 .. BS : x[k] \in Nat /\ c[k] \in Nat
  BY <1>9, <1>10 DEF IsNumberRun, IsCarry
<1> DEFINE t == s + x[BS]
           w(k) == l[k + 1] + r[k + 1] + c[k]
           Sum(k) == t \div p[k] = (s \div p[k]) + x[BS - k] + c[k]
<1>12. t \in Nat
  <2>1. BS \in 0 .. BS
    BY <1>1, SMT
  <2>2. x[BS] \in Nat
    BY <1>11, <2>1
  <2> QED
    BY <2>2, SMT
<1>13. ASSUME NEW k \in 0 .. BS - 1, Sum(k)
       PROVE  Sum(k + 1) /\ DigitAt(B, t, k) = w(k) % B
  <2> DEFINE e == s \div p[k + 1]
             u == l[k + 1]
             v == r[k + 1]
             y == x[BS - (k + 1)]
             z == c[k]
  <2>1. k \in Nat /\ k + 1 \in 1 .. BS /\ k \in 0 .. BS /\ BS - (k + 1) \in 0 .. BS - 1
        /\ BS - (k + 1) \in 0 .. BS /\ (BS - (k + 1)) + 1 = BS - k /\ k + 1 \in Nat
    BY <1>1, SMT
  <2>2. s \div p[k] = B * e + u /\ e \in Nat
    <3>1. s \div p[k] = B * (s \div p[k + 1]) + DigitAt(B, s, k)
      BY <1>1, <2>1, DigitStep
    <3>2. s \div p[k + 1] \in Nat
      BY <1>1, <2>1, DigitStep
    <3> QED
      BY <1>8, <3>1, <3>2
  <2>3. x[BS - k] = B * y + v
    <3>1. x[(BS - (k + 1)) + 1] = B * x[BS - (k + 1)] + d[(BS - (k + 1)) + 1]
      BY <1>9, <2>1 DEF IsNumberRun
    <3> QED
      BY <1>5, <2>1, <3>1
  <2>4. u \in Nat
    BY <1>6, <2>1, SizeAssumption, SMT DEF Block, Byte
  <2>5. v \in Nat /\ y \in Nat /\ z \in Nat
    BY <1>2, <1>11, <2>1
  <2>6. w(k) = u + v + z /\ c[k + 1] = w(k) \div B
    BY <1>10 DEF IsCarry
  <2>7. t \div p[k] = (B * e + u) + (B * y + v) + z
    BY <1>13, <2>2, <2>3
  <2>8. t \div p[k + 1] = (t \div p[k]) \div B /\ DigitAt(B, t, k) = (t \div p[k]) % B
    <3> HIDE DEF t
    <3>1. t \div p[k + 1] = (t \div p[k]) \div B
      BY <1>1, <1>12, <2>1, DigitStep
    <3> QED
      BY <3>1 DEF DigitAt
  <2> HIDE DEF e, u, v, y, z, w, t
  <2>9. DigitOfSum(B, e, u, y, v, z)
    BY <1>1, <2>2, <2>4, <2>5, SumStep
  <2>10. /\ ((B * e + u) + (B * y + v) + z) \div B = e + y + ((u + v + z) \div B)
        /\ ((B * e + u) + (B * y + v) + z) % B = (u + v + z) % B
    BY <2>9 DEF DigitOfSum
  <2>11. t \div p[k + 1] = e + y + c[k + 1]
    BY <2>6, <2>7, <2>8, <2>10, Zenon
  <2>12. DigitAt(B, t, k) = w(k) % B
    BY <2>6, <2>7, <2>8, <2>10, Zenon
  <2> QED
    BY <2>11, <2>12, Zenon DEF e, y
<1>14. \A k \in 0 .. BS : Sum(k)
  <2> DEFINE P == {k \in 0 .. BS : Sum(k)}
  <2>1. Sum(0)
    <3>1. p[0] = 1 /\ c[0] = 0 /\ BS - 0 = BS
      BY <1>1, <1>10, PowerIs, SMT DEF IsCarry
    <3> HIDE DEF t
    <3>2. t \div 1 = t /\ s \div 1 = s
      BY <1>12, SMT
    <3>3. t = s + x[BS] + 0
      BY <1>12, SMT DEF t
    <3> QED
      BY <3>1, <3>2, <3>3
  <2>2. 0 \in P
    BY <1>1, <2>1, SMT
  <2>3. \A k \in 0 .. BS - 1 : k \in P => k + 1 \in P
    <3>1. \A k \in 0 .. BS - 1 : k + 1 \in 0 .. BS
      BY <1>1, SMT
    <3> HIDE DEF Sum
    <3> QED
      BY <1>13, <3>1
  <2> HIDE DEF P
  <2>4. \A k \in 0 .. BS : k \in P
    BY <1>1, <2>2, <2>3, UpTo
  <2> QED
    BY <2>4 DEF P
<1>15. \A i \in 1 .. BS : (l[i] + r[i] + c[i - 1]) % B = DigitAt(B, t, i - 1)
  <2> SUFFICES ASSUME NEW i \in 1 .. BS
               PROVE  (l[i] + r[i] + c[i - 1]) % B = DigitAt(B, t, i - 1)
    OBVIOUS
  <2> DEFINE k == i - 1
  <2>1. k \in 0 .. BS - 1 /\ k \in 0 .. BS /\ i = k + 1
    BY <1>1, SMT
  <2> HIDE DEF k, Sum
  <2>2. DigitAt(B, t, k) = w(k) % B
    BY <1>13, <1>14, <2>1
  <2> QED
    BY <2>1, <2>2, Zenon DEF k
<1>16. AddBlocks(l, r) = Bytes(t)
  BY <1>10, <1>15 DEF Bytes
<1>17. Number(r) = x[BS] /\ BS \in 0 .. BS
  BY <1>1, <1>7, <1>9, SMT
<1> QED
  BY <1>11, <1>16, <1>17 DEF l

-----------------------------------------------------------------------------
(* Hashing block after block                                               *)

\* run has H after each of the blocks g, from h0 on.
IsHashRun(run, D, h0, b, g) ==
  run = [k \in D |-> IF k = 0 THEN h0 ELSE HashStep(b, run[k - 1], g[k])]

LEMMA FiniteHashRun ==
  ASSUME NEW h0, NEW b, NEW g, NEW n \in Nat
  PROVE  \E run : IsHashRun(run, 0 .. n, h0, b, g)
<1> DEFINE P == {i \in Nat : \E run : IsHashRun(run, 0 .. i, h0, b, g)}
<1>1. 0 \in P
  <2> DEFINE run == [k \in 0 .. 0 |-> h0]
  <2>1. \A k \in 0 .. 0 : k = 0
    BY SMT
  <2>2. run = [k \in 0 .. 0 |-> IF k = 0 THEN h0 ELSE HashStep(b, run[k - 1], g[k])]
    BY <2>1
  <2> QED
    BY <2>2 DEF IsHashRun
<1>2. ASSUME NEW i \in Nat, i \in P PROVE i + 1 \in P
  <2>1. PICK run : IsHashRun(run, 0 .. i, h0, b, g)
    BY <1>2
  <2> DEFINE h == [k \in 0 .. i + 1 |-> IF k = i + 1 THEN HashStep(b, run[i], g[i + 1]) ELSE run[k]]
  <2>2. /\ i + 1 \in Nat /\ (i + 1) - 1 = i /\ i \in 0 .. i /\ i + 1 # 0
        /\ \A k \in 0 .. i + 1 : k # i + 1 => k \in 0 .. i
        /\ \A k \in 0 .. i : k # 0 => k - 1 \in 0 .. i /\ k - 1 # i + 1 /\ k - 1 \in 0 .. i + 1
        /\ i \in 0 .. i + 1 /\ i # i + 1
    BY SMT
  <2>3. ASSUME NEW k \in 0 .. i + 1
        PROVE  h[k] = IF k = 0 THEN h0 ELSE HashStep(b, h[k - 1], g[k])
    <3>1. CASE k = i + 1
      <4>1. h[k] = HashStep(b, run[i], g[i + 1]) /\ h[i] = run[i]
        BY <2>2, <3>1
      <4> HIDE DEF h
      <4> QED
        BY <2>2, <3>1, <4>1
    <3>2. CASE k # i + 1
      <4>1. k \in 0 .. i /\ h[k] = run[k]
        BY <2>2, <3>2
      <4>2. run[k] = IF k = 0 THEN h0 ELSE HashStep(b, run[k - 1], g[k])
        BY <2>1, <4>1 DEF IsHashRun
      <4>3. k # 0 => h[k - 1] = run[k - 1]
        BY <2>2, <4>1
      <4> HIDE DEF h
      <4> QED
        BY <4>1, <4>2, <4>3
    <3> QED
      BY <3>1, <3>2
  <2>4. h = [k \in 0 .. i + 1 |-> h[k]]
    OBVIOUS
  <2> HIDE DEF h
  <2>5. IsHashRun(h, 0 .. i + 1, h0, b, g)
    BY <2>3, <2>4 DEF IsHashRun
  <2> QED
    BY <2>2, <2>5
<1>3. n \in P
  <2> HIDE DEF P
  <2>1. \A k \in Nat : k \in P
    BY <1>1, <1>2, AllNat
  <2> QED
    BY <2>1
<1> QED
  BY <1>3

LEMMA HashRunsAgree ==
  ASSUME NEW h0, NEW b, NEW g, NEW n \in Nat, NEW m \in 0 .. n,
         NEW run, IsHashRun(run, 0 .. n, h0, b, g), NEW h, IsHashRun(h, 0 .. m, h0, b, g)
  PROVE  \A k \in 0 .. m : run[k] = h[k]
<1> DEFINE P == {k \in 0 .. m : run[k] = h[k]}
<1>1. 0 \in 0 .. m /\ 0 \in 0 .. n /\ m \in Nat /\ \A k \in 0 .. m : k \in 0 .. n
  BY SMT
<1>2. 0 \in P
  <2>1. run[0] = h0
    BY <1>1 DEF IsHashRun
  <2>2. h[0] = h0
    BY <1>1 DEF IsHashRun
  <2> QED
    BY <1>1, <2>1, <2>2
<1>3. ASSUME NEW k \in 0 .. m - 1, k \in P PROVE k + 1 \in P
  <2>1. k + 1 \in 0 .. m /\ k + 1 \in 0 .. n /\ (k + 1) - 1 = k /\ k + 1 # 0
    BY SMT
  <2>2. run[k + 1] = HashStep(b, run[k], g[k + 1])
    BY <2>1 DEF IsHashRun
  <2>3. h[k + 1] = HashStep(b, h[k], g[k + 1])
    BY <2>1 DEF IsHashRun
  <2> QED
    BY <1>3, <2>1, <2>2, <2>3
<1>4. \A k \in 0 .. m : k \in P
  <2> HIDE DEF P
  <2> QED
    BY <1>1, <1>2, <1>3, UpTo
<1> QED
  BY <1>4

LEMMA HashRunExists ==
  ASSUME NEW h0, NEW b, NEW g
  PROVE  \E run : IsHashRun(run, Nat, h0, b, g)
<1> DEFINE F == [n \in Nat |-> CHOOSE run : IsHashRun(run, 0 .. n, h0, b, g)]
           run == [n \in Nat |-> F[n][n]]
<1>1. ASSUME NEW n \in Nat PROVE IsHashRun(F[n], 0 .. n, h0, b, g)
  <2>1. \E h : IsHashRun(h, 0 .. n, h0, b, g)
    BY FiniteHashRun
  <2>2. F[n] = CHOOSE h : IsHashRun(h, 0 .. n, h0, b, g)
    OBVIOUS
  <2> HIDE DEF F
  <2> QED
    BY <2>1, <2>2
<1>2. ASSUME NEW k \in Nat
      PROVE  run[k] = IF k = 0 THEN h0 ELSE HashStep(b, run[k - 1], g[k])
  <2>1. k \in 0 .. k
    BY SMT
  <2> DEFINE a == F[k]
  <2>2. IsHashRun(a, 0 .. k, h0, b, g)
    BY <1>1
  <2>3. a[k] = IF k = 0 THEN h0 ELSE HashStep(b, a[k - 1], g[k])
    <3> HIDE DEF a
    <3> QED
      BY <2>1, <2>2 DEF IsHashRun
  <2>4. run[k] = a[k]
    OBVIOUS
  <2>5. CASE k = 0
    <3> HIDE DEF run, a
    <3> QED
      BY <2>3, <2>4, <2>5
  <2>6. CASE k # 0
    <3> DEFINE m == k - 1
               h == F[m]
    <3>1. m \in Nat /\ m \in 0 .. k /\ m \in 0 .. m
      BY <2>6, SMT
    <3>2. IsHashRun(h, 0 .. m, h0, b, g) /\ run[m] = h[m]
      BY <1>1, <3>1
    <3> HIDE DEF a, h, m, run
    <3>3. \A j \in 0 .. m : a[j] = h[j]
      BY <2>2, <3>1, <3>2, HashRunsAgree
    <3>4. a[m] = h[m]
      BY <3>1, <3>3
    <3> QED
      BY <2>3, <2>4, <2>6, <3>2, <3>4 DEF m
  <2> QED
    BY <2>5, <2>6
<1>3. run = [k \in Nat |-> run[k]]
  OBVIOUS
<1> HIDE DEF run
<1> QED
  BY <1>2, <1>3 DEF IsHashRun

LEMMA HashRunSteps ==
  ASSUME NEW h0, NEW b, NEW g, NEW run, IsHashRun(run, Nat, h0, b, g)
  PROVE  run[0] = h0 /\ \A k \in Nat : run[k + 1] = HashStep(b, run[k], g[k + 1])
<1>1. run[0] = h0
  BY DEF IsHashRun
<1>2. ASSUME NEW k \in Nat PROVE run[k + 1] = HashStep(b, run[k], g[k + 1])
  <2>1. k + 1 \in Nat /\ k + 1 # 0 /\ (k + 1) - 1 = k
    BY SMT
  <2> QED
    BY <2>1 DEF IsHashRun
<1> QED
  BY <1>1, <1>2

\* H of the blocks of a message.
LEMMA HAfterSteps ==
  ASSUME NEW b, NEW m
  PROVE  /\ HAfter(b, m, 0) = ZeroH
         /\ \A k \in Nat : HAfter(b, m, k + 1) = HashStep(b, HAfter(b, m, k), NthBlock(m, k + 1))
<1> DEFINE h[k \in Nat] == IF k = 0 THEN ZeroH ELSE HashStep(b, h[k - 1], NthBlock(m, k))
           g == [k \in Nat |-> NthBlock(m, k)]
<1>1. \A n : HAfter(b, m, n) = h[n]
  BY DEF HAfter
<1>2. \A k \in Nat : g[k] = NthBlock(m, k)
  OBVIOUS
<1> HIDE DEF g
<1>3. PICK run : IsHashRun(run, Nat, ZeroH, b, g)
  BY HashRunExists
<1>4. run = [k \in Nat |-> IF k = 0 THEN ZeroH ELSE HashStep(b, run[k - 1], NthBlock(m, k))]
  BY <1>2, <1>3 DEF IsHashRun
<1>5. h = [k \in Nat |-> IF k = 0 THEN ZeroH ELSE HashStep(b, h[k - 1], NthBlock(m, k))]
  BY <1>4
<1> HIDE DEF h
<1>6. IsHashRun(h, Nat, ZeroH, b, g)
  BY <1>2, <1>5 DEF IsHashRun
<1>7. h[0] = ZeroH /\ \A k \in Nat : h[k + 1] = HashStep(b, h[k], g[k + 1])
  BY <1>6, HashRunSteps
<1>8. \A k \in Nat : k + 1 \in Nat
  BY SMT
<1> QED
  BY <1>1, <1>2, <1>7, <1>8

\* Every block of a message holds bytes, or zeros behind its end.
LEMMA NthBlockIs ==
  ASSUME NEW m \in Seq(Byte), NEW k \in Nat
  PROVE  /\ NthBlock(m, k + 1) \in Block
         /\ \A i \in 1 .. BS :
              NthBlock(m, k + 1)[i] = IF k * BS + i <= Len(m) THEN m[k * BS + i] ELSE 0
<1>1. \A i \in 1 .. BS : ((k + 1) - 1) * BS + i = k * BS + i /\ k * BS + i \in Nat \ {0}
  BY SizeAssumption, SMT
<1>2. \A i \in 1 .. BS :
        NthBlock(m, k + 1)[i] = IF k * BS + i <= Len(m) THEN m[k * BS + i] ELSE 0
  BY <1>1 DEF NthBlock
<1>3. ASSUME NEW i \in 1 .. BS PROVE NthBlock(m, k + 1)[i] \in Byte
  <2> DEFINE p == k * BS + i
  <2>1. p \in Nat \ {0} /\ 0 \in Byte
    BY <1>1, SizeAssumption, SMT DEF Byte
  <2>2. NthBlock(m, k + 1)[i] = IF p <= Len(m) THEN m[p] ELSE 0
    BY <1>2
  <2> HIDE DEF p
  <2>3. p <= Len(m) => p \in 1 .. Len(m)
    BY <2>1, SMT
  <2> QED
    BY <2>1, <2>2, <2>3
<1>4. NthBlock(m, k + 1) = [i \in 1 .. BS |-> NthBlock(m, k + 1)[i]]
  BY DEF NthBlock
<1> QED
  BY <1>2, <1>3, <1>4 DEF Block

\* The sum of the blocks of a message.
LEMMA TotalSteps ==
  ASSUME NEW m \in Seq(Byte)
  PROVE  /\ Total(m, 0) = 0
         /\ \A k \in Nat : /\ Total(m, k) \in Nat
                           /\ Total(m, k + 1) = Total(m, k) + Number(NthBlock(m, k + 1))
<1> DEFINE s[k \in Nat] == IF k = 0 THEN 0 ELSE s[k - 1] + Number(NthBlock(m, k))
           v == [k \in Nat |-> IF k = 0 THEN 0 ELSE Number(NthBlock(m, k))]
           g == [y \in Nat \X Nat |-> y[2] + v[y[1]]]
<1>1. \A n : Total(m, n) = s[n]
  BY DEF Total
<1>2. v \in [Nat -> Nat]
  <2> SUFFICES ASSUME NEW k \in Nat, k # 0 PROVE Number(NthBlock(m, k)) \in Nat
    OBVIOUS
  <2> DEFINE j == k - 1
  <2>1. j \in Nat /\ j + 1 = k
    BY SMT
  <2> HIDE DEF j
  <2>2. NthBlock(m, j + 1) \in Block /\ 0 \in Nat
    BY <2>1, NthBlockIs
  <2> QED
    BY <2>1, <2>2, AddNumber
<1>3. \A k \in Nat : k # 0 => v[k] = Number(NthBlock(m, k))
  OBVIOUS
<1> HIDE DEF v
<1>4. g \in [Nat \X Nat -> Nat] /\ 0 \in Nat
  <2>1. \A i, j \in Nat : i + j \in Nat
    BY SMT
  <2> QED
    BY <1>2, <2>1
<1>5. PICK run \in [Nat -> Nat] : IsRun(run, Nat, 0, g)
  <2> HIDE DEF g
  <2> QED
    BY <1>4, NatRunExists
<1>6. run = [k \in Nat |-> IF k = 0 THEN 0 ELSE run[k - 1] + Number(NthBlock(m, k))]
  <2>1. \A k \in Nat : k # 0 => k - 1 \in Nat
    BY SMT
  <2>2. \A k \in Nat : k # 0 => g[<<k, run[k - 1]>>] = run[k - 1] + v[k]
    BY <2>1
  <2> HIDE DEF g
  <2> QED
    BY <1>3, <1>5, <2>2 DEF IsRun
<1>7. s = [k \in Nat |-> IF k = 0 THEN 0 ELSE s[k - 1] + Number(NthBlock(m, k))]
  BY <1>6
<1> HIDE DEF s
<1>8. s[0] = 0 /\ \A k \in Nat : s[k + 1] = s[k] + v[k + 1]
  <2>1. s[0] = 0
    <3>1. 0 \in Nat
      BY SMT
    <3> QED
      BY <1>7, <3>1, Zenon
  <2>2. ASSUME NEW k \in Nat PROVE s[k + 1] = s[k] + v[k + 1]
    <3> DEFINE j == k + 1
    <3>1. j \in Nat /\ j # 0 /\ j - 1 = k
      BY SMT
    <3> HIDE DEF j
    <3>2. s[j] = s[j - 1] + Number(NthBlock(m, j))
      BY <1>7, <3>1, Zenon
    <3>3. s[j] = s[k] + v[j]
      BY <1>3, <3>1, <3>2, Zenon
    <3> QED
      BY <3>3 DEF j
  <2> QED
    BY <2>1, <2>2
<1>9. \A k \in Nat : s[k] \in Nat
  <2> DEFINE P == {k \in Nat : s[k] \in Nat}
  <2>1. 0 \in P
    BY <1>8
  <2>2. \A k \in Nat : k \in P => k + 1 \in P
    <3>1. \A i, j \in Nat : i + j \in Nat
      BY SMT
    <3>2. \A k \in Nat : k + 1 \in Nat
      BY SMT
    <3> QED
      BY <1>2, <1>8, <3>1, <3>2
  <2> HIDE DEF P
  <2>3. \A k \in Nat : k \in P
    BY <2>1, <2>2, AllNat
  <2> QED
    BY <2>3 DEF P
<1>10. \A k \in Nat : k + 1 \in Nat /\ k + 1 # 0
  BY SMT
<1>11. \A k \in Nat : v[k + 1] = Number(NthBlock(m, k + 1))
  BY <1>3, <1>10
<1> QED
  BY <1>1, <1>8, <1>9, <1>11

LEMMA SumSteps ==
  ASSUME NEW m \in Seq(Byte)
  PROVE  /\ SumOf(m, 0) = ZeroBlock
         /\ \A k \in Nat : /\ SumOf(m, k) \in Block
                           /\ SumOf(m, k + 1) = AddBlocks(SumOf(m, k), NthBlock(m, k + 1))
<1>1. SumOf(m, 0) = ZeroBlock
  <2>1. Total(m, 0) = 0
    BY TotalSteps
  <2>2. ASSUME NEW i \in 1 .. BS PROVE DigitAt(B, 0, i - 1) = 0
    <3> DEFINE p == Power(B)[i - 1]
    <3>1. i - 1 \in Nat /\ B \in Nat \ {0}
      BY SizeAssumption, SMT
    <3>2. p \in Nat \ {0}
      BY <3>1, PowerIs
    <3> HIDE DEF p
    <3>3. 0 \div p = 0
      <4>1. 0 \in Int /\ 0 \in 0 .. p - 1 /\ p * 0 + 0 = 0
        BY <3>2, SMT
      <4> QED
        BY <3>2, <4>1, DivUnique
    <3>4. 0 % B = 0
      <4>1. 0 \in Int /\ 0 \in 0 .. B - 1 /\ B * 0 + 0 = 0
        BY <3>1, SMT
      <4> QED
        BY <3>1, <4>1, ModUnique
    <3> QED
      BY <3>3, <3>4, Zenon DEF DigitAt, p
  <2> QED
    BY <2>1, <2>2 DEF SumOf, Bytes, ZeroBlock
<1>2. ASSUME NEW k \in Nat
      PROVE  /\ SumOf(m, k) \in Block
             /\ SumOf(m, k + 1) = AddBlocks(SumOf(m, k), NthBlock(m, k + 1))
  <2> DEFINE r == NthBlock(m, k + 1)
             t == Total(m, k)
  <2>1. t \in Nat /\ Total(m, k + 1) = t + Number(r)
    BY TotalSteps
  <2>2. r \in Block
    BY NthBlockIs
  <2> HIDE DEF r, t
  <2>3. AddBlocks(Bytes(t), r) = Bytes(t + Number(r)) /\ Bytes(t) \in Block
    BY <2>1, <2>2, AddNumber, BytesInBlock
  <2> QED
    BY <2>1, <2>3 DEF SumOf, r, t
<1> QED
  BY <1>1, <1>2

\* What the first n blocks make of H and S does not depend on the rest.
LEMMA SameBlocks ==
  ASSUME NEW b, NEW m \in Seq(Byte), NEW q \in Seq(Byte), NEW n \in Nat,
         \A k \in 0 .. n - 1 : NthBlock(q, k + 1) = NthBlock(m, k + 1)
  PROVE  HAfter(b, q, n) = HAfter(b, m, n) /\ SumOf(q, n) = SumOf(m, n)
<1> DEFINE P == {k \in 0 .. n : HAfter(b, q, k) = HAfter(b, m, k) /\ SumOf(q, k) = SumOf(m, k)}
<1>1. 0 \in P
  <2>1. 0 \in 0 .. n
    BY SMT
  <2> QED
    BY <2>1, HAfterSteps, SumSteps
<1>2. ASSUME NEW k \in 0 .. n - 1, k \in P PROVE k + 1 \in P
  <2>1. k \in Nat /\ k + 1 \in 0 .. n
    BY SMT
  <2>2. HAfter(b, q, k + 1) = HashStep(b, HAfter(b, q, k), NthBlock(q, k + 1))
    BY <2>1, HAfterSteps
  <2>3. HAfter(b, m, k + 1) = HashStep(b, HAfter(b, m, k), NthBlock(m, k + 1))
    BY <2>1, HAfterSteps
  <2>4. SumOf(q, k + 1) = AddBlocks(SumOf(q, k), NthBlock(q, k + 1))
    BY <2>1, SumSteps
  <2>5. SumOf(m, k + 1) = AddBlocks(SumOf(m, k), NthBlock(m, k + 1))
    BY <2>1, SumSteps
  <2> QED
    BY <1>2, <2>1, <2>2, <2>3, <2>4, <2>5
<1>3. \A k \in 0 .. n : k \in P
  <2> HIDE DEF P
  <2> QED
    BY <1>1, <1>2, UpTo
<1>4. n \in 0 .. n
  BY SMT
<1> QED
  BY <1>3, <1>4

LEMMA PrefixBlocks ==
  ASSUME NEW b, NEW m \in Seq(Byte), NEW q \in Seq(Byte), NEW n \in Nat, n * BS <= Len(m)
  PROVE  HAfter(b, m \o q, n) = HAfter(b, m, n) /\ SumOf(m \o q, n) = SumOf(m, n)
<1>1. m \o q \in Seq(Byte) /\ Len(m \o q) = Len(m) + Len(q) /\ Len(m) \in Nat /\ Len(q) \in Nat
  BY ConcatProperties
<1>2. ASSUME NEW k \in 0 .. n - 1
      PROVE  NthBlock(m \o q, k + 1) = NthBlock(m, k + 1)
  <2>1. k \in Nat /\ BS \in Nat
    BY SizeAssumption, SMT
  <2>2. k * BS + BS <= Len(m) /\ k * BS \in Nat
    <3>1. (k + 1) * BS <= n * BS
      BY <2>1, SMT
    <3>2. (k + 1) * BS = k * BS + BS /\ k * BS \in Nat /\ n * BS \in Nat
      BY <2>1, SMT
    <3> QED
      BY <1>1, <2>1, <3>1, <3>2, SMT
  <2> DEFINE u == k * BS
  <2>3. u \in Nat /\ u + BS <= Len(m)
    BY <2>2
  <2>4. /\ \A i \in 1 .. BS : NthBlock(m \o q, k + 1)[i] = IF u + i <= Len(m \o q) THEN (m \o q)[u + i] ELSE 0
        /\ \A i \in 1 .. BS : NthBlock(m, k + 1)[i] = IF u + i <= Len(m) THEN m[u + i] ELSE 0
    BY <1>1, <2>1, NthBlockIs
  <2> HIDE DEF u
  <2>5. ASSUME NEW i \in 1 .. BS
        PROVE  NthBlock(m \o q, k + 1)[i] = NthBlock(m, k + 1)[i]
    <3>1. u + i <= Len(m) /\ u + i <= Len(m \o q) /\ u + i \in 1 .. Len(m)
      BY <1>1, <2>1, <2>3, SMT
    <3>2. (m \o q)[u + i] = m[u + i]
      BY <3>1
    <3> QED
      BY <2>4, <3>1, <3>2
  <2>6. NthBlock(m \o q, k + 1) \in Block /\ NthBlock(m, k + 1) \in Block
    BY <1>1, <2>1, NthBlockIs
  <2> QED
    BY <2>5, <2>6, SameBlock
<1> QED
  BY <1>1, <1>2, SameBlocks

-----------------------------------------------------------------------------
(* Contexts that are fed                                                   *)

HashCtx(len, left, h, s, r) == [len |-> len, left |-> left, H |-> h, S |-> s, remainder |-> r]

\* x has taken m in: n blocks are hashed, which gave h, and r holds the rest.
Holds(x, m, n, h) ==
  \E left \in 0 .. BS - 1, r \in Block :
    /\ x = HashCtx(n * BS, left, h, SumOf(m, n), r)
    /\ Len(m) = n * BS + left
    /\ \A i \in 1 .. left : r[i] = m[n * BS + i]

\* y has taken in mq, that begins with m; H, if it was that of m before, is
\* that of mq now.
Follows(b, m, n, h, y, mq) ==
  \E k, h2 : /\ k \in Nat /\ k >= n /\ Holds(y, mq, k, h2)
             /\ h = HAfter(b, m, n) => h2 = HAfter(b, mq, k)

LEMMA AbsorbIs ==
  ASSUME NEW b, NEW len, NEW left, NEW h, NEW s, NEW r, NEW block
  PROVE  Absorb(b, HashCtx(len, left, h, s, r), block)
           = HashCtx(len + BS, left, HashStep(b, h, block), AddBlocks(s, block), r)
<1> DEFINE x == HashCtx(len, left, h, s, r)
           h2 == HashStep(b, h, block)
           s2 == AddBlocks(s, block)
           len2 == len + BS
<1>1. x = [len |-> len, left |-> left, H |-> h, S |-> s, remainder |-> r]
  BY DEF HashCtx
<1>2. Absorb(b, x, block) = [x EXCEPT !.H = HashStep(b, x.H, block), !.S = AddBlocks(x.S, block), !.len = x.len + BS]
  BY DEF Absorb
<1> HIDE DEF x
<1>3. x.H = h /\ x.S = s /\ x.len = len
  BY <1>1
<1>4. Absorb(b, x, block) = [x EXCEPT !.H = h2, !.S = s2, !.len = len2]
  BY <1>2, <1>3
<1> HIDE DEF h2, s2, len2
<1>5. Absorb(b, x, block) = [len |-> len2, left |-> left, H |-> h2, S |-> s2, remainder |-> r]
  BY <1>1, <1>4
<1> QED
  BY <1>5 DEF HashCtx, x, h2, s2, len2

WithBuffer(x, r, n) == [x EXCEPT !.remainder = r, !.left = n]

LEMMA WithBufferIs ==
  ASSUME NEW len, NEW left, NEW h, NEW s, NEW r, NEW z, NEW r2
  PROVE  WithBuffer(HashCtx(len, left, h, s, r), r2, z) = HashCtx(len, z, h, s, r2)
<1> DEFINE x == HashCtx(len, left, h, s, r)
<1>1. x = [len |-> len, left |-> left, H |-> h, S |-> s, remainder |-> r]
  BY DEF HashCtx
<1> HIDE DEF x
<1>2. [x EXCEPT !.remainder = r2, !.left = z] = [len |-> len, left |-> z, H |-> h, S |-> s, remainder |-> r2]
  <2> DEFINE v == [x EXCEPT !.remainder = r2]
  <2>1. [x EXCEPT !.remainder = r2, !.left = z] = [v EXCEPT !.left = z]
    OBVIOUS
  <2>2. v = [len |-> len, left |-> left, H |-> h, S |-> s, remainder |-> r2]
    BY <1>1
  <2> HIDE DEF v
  <2> QED
    BY <2>1, <2>2
<1> QED
  BY <1>2 DEF HashCtx, WithBuffer, x

LEMMA SliceIs ==
  ASSUME NEW q \in Seq(Byte), NEW p \in Nat \ {0}, NEW n \in Nat, p + n - 1 <= Len(q)
  PROVE  /\ Slice(q, p, n) \in Seq(Byte) /\ Len(Slice(q, p, n)) = n
         /\ Slice(q, p, n) \in [1 .. n -> Byte]
         /\ \A i \in 1 .. n : Slice(q, p, n)[i] = q[p + i - 1]
<1> DEFINE e == p + n - 1
<1>1. p \in Int /\ e \in Int /\ Len(q) \in Nat /\ (IF p <= e THEN e - p + 1 ELSE 0) = n /\ e - p + 1 = n
  BY SMT
<1>2. \A i \in p .. e : q[i] \in Byte
  <2>1. \A i \in p .. e : i \in 1 .. Len(q)
    BY <1>1, SMT
  <2> QED
    BY <2>1
<1> HIDE DEF e
<1>3. /\ SubSeq(q, p, e) \in Seq(Byte)
      /\ Len(SubSeq(q, p, e)) = IF p <= e THEN e - p + 1 ELSE 0
      /\ \A i \in 1 .. e - p + 1 : SubSeq(q, p, e)[i] = q[p + i - 1]
  BY <1>1, <1>2, SubSeqProperties
<1>4. Slice(q, p, n) = SubSeq(q, p, e)
  BY DEF Slice, e
<1>5. SubSeq(q, p, e) \in [1 .. Len(SubSeq(q, p, e)) -> Byte]
  BY <1>3, LenProperties
<1> QED
  BY <1>1, <1>3, <1>4, <1>5

\* A full block of what is fed is one of the message.
LEMMA FedBlock ==
  ASSUME NEW m \in Seq(Byte), NEW q \in Seq(Byte), NEW n \in Nat, NEW k \in Nat,
         Len(m) = n * BS, k * BS + BS <= Len(q)
  PROVE  Slice(q, k * BS + 1, BS) = NthBlock(m \o q, (n + k) + 1)
<1> DEFINE u == k * BS
           v == n * BS
           a == Slice(q, u + 1, BS)
           c == NthBlock(m \o q, (n + k) + 1)
           l == Len(q)
           t == m \o q
           z == (n + k) * BS
<1>1. BS \in Nat \ {0} /\ n + k \in Nat
  BY SizeAssumption, SMT
<1>2. u \in Nat /\ v \in Nat /\ z = v + u
  BY <1>1, SMT
<1>3. t \in Seq(Byte) /\ Len(t) = v + l /\ l \in Nat /\ u + BS <= l
  <2>1. t \in Seq(Byte) /\ Len(t) = Len(m) + Len(q)
    BY ConcatProperties
  <2> HIDE DEF t
  <2> QED
    BY <2>1
<1>4. \A i \in 1 .. v + l : t[i] = IF i <= v THEN m[i] ELSE q[i - v]
  OBVIOUS
<1>5. c \in Block /\ \A i \in 1 .. BS : c[i] = IF z + i <= Len(t) THEN t[z + i] ELSE 0
  BY <1>1, <1>3, NthBlockIs
<1> HIDE DEF u, v, l, t, c, z
<1>6. u + 1 \in Nat \ {0} /\ (u + 1) + BS - 1 <= l
  BY <1>1, <1>2, <1>3, SMT
<1>7. a \in [1 .. BS -> Byte] /\ \A i \in 1 .. BS : a[i] = q[(u + 1) + i - 1]
  <2>1. BS \in Nat
    BY <1>1
  <2> QED
    BY <1>6, <2>1, SliceIs DEF l
<1> HIDE DEF a
<1>8. a \in Block
  BY <1>7 DEF Block
<1>9. ASSUME NEW i \in 1 .. BS PROVE a[i] = c[i]
  <2>1. /\ (u + 1) + i - 1 = u + i /\ z + i \in 1 .. v + l /\ z + i <= v + l
        /\ ~(z + i <= v) /\ (z + i) - v = u + i
    BY <1>1, <1>2, <1>3, SMT
  <2>2. a[i] = q[u + i]
    BY <1>7, <2>1
  <2>3. t[z + i] = q[u + i]
    BY <1>4, <2>1
  <2> QED
    BY <1>3, <1>5, <2>1, <2>2, <2>3
<1> QED
  BY <1>5, <1>8, <1>9, SameBlock DEF a, c, u, t

\* The loop of hash_block over full blocks.
IsRest(y, b, x, q, n) ==
  y = [k \in 0 .. n |-> IF k = 0 THEN x ELSE Absorb(b, y[k - 1], Slice(q, (k - 1) * BS + 1, BS))]

\* w are the contexts and run the values of H when the first l blocks of q
\* follow m, which is n blocks.
IsLoop(w, run, b, m, n, q, l, h, r) ==
  /\ IsRest(w, b, HashCtx(n * BS, 0, h, SumOf(m, n), r), q, l)
  /\ \A k \in 0 .. l : w[k] = HashCtx((n + k) * BS, 0, run[k], SumOf(m \o q, n + k), r)
  /\ h = HAfter(b, m, n) => run[l] = HAfter(b, m \o q, n + l)

LEMMA FullBlocks ==
  ASSUME NEW m \in Seq(Byte), NEW q \in Seq(Byte), NEW n \in Nat, Len(m) = n * BS,
         NEW b, NEW h, NEW r, NEW l \in Nat, l * BS <= Len(q)
  PROVE  \E run, w : IsLoop(w, run, b, m, n, q, l, h, r)
<1> DEFINE t == m \o q
           x == HashCtx(n * BS, 0, h, SumOf(m, n), r)
           g == [k \in Nat |-> Slice(q, (k - 1) * BS + 1, BS)]
           C(k, a) == HashCtx((n + k) * BS, 0, a, SumOf(t, n + k), r)
<1>1. t \in Seq(Byte) /\ BS \in Nat \ {0}
  BY ConcatProperties, SizeAssumption
<1>2. SumOf(t, n) = SumOf(m, n) /\ HAfter(b, t, n) = HAfter(b, m, n)
  <2>1. n * BS <= Len(m)
    BY <1>1, SMT
  <2> QED
    BY <2>1, PrefixBlocks
<1>3. ASSUME NEW k \in 0 .. l - 1
      PROVE  g[k + 1] = NthBlock(t, (n + k) + 1)
  <2>1. k \in Nat /\ k + 1 \in Nat /\ (k + 1) - 1 = k
    BY SMT
  <2>2. k * BS + BS <= Len(q)
    <3>1. (k + 1) * BS <= l * BS
      BY <1>1, SMT
    <3>2. (k + 1) * BS = k * BS + BS /\ k * BS \in Nat /\ l * BS \in Nat /\ Len(q) \in Nat
      BY <1>1, <2>1, SMT
    <3> QED
      BY <1>1, <3>1, <3>2, SMT
  <2>3. g[k + 1] = Slice(q, k * BS + 1, BS)
    BY <2>1
  <2>4. Slice(q, k * BS + 1, BS) = NthBlock(t, (n + k) + 1)
    BY <2>1, <2>2, FedBlock
  <2> QED
    BY <2>3, <2>4
<1>4. \A k \in Nat : g[k] = Slice(q, (k - 1) * BS + 1, BS)
  OBVIOUS
<1> HIDE DEF g, t
<1>5. PICK run : IsHashRun(run, Nat, h, b, g)
  BY HashRunExists
<1>6. run[0] = h /\ \A k \in Nat : run[k + 1] = HashStep(b, run[k], g[k + 1])
  BY <1>5, HashRunSteps
<1> DEFINE w == [k \in 0 .. l |-> C(k, run[k])]
<1>7. C(0, run[0]) = x
  <2>1. n + 0 = n
    BY SMT
  <2> QED
    BY <1>2, <1>6, <2>1
<1>8. ASSUME NEW k \in 0 .. l - 1
      PROVE  C(k + 1, run[k + 1]) = Absorb(b, C(k, run[k]), g[k + 1])
  <2>1. k \in Nat /\ n + k \in Nat /\ n + (k + 1) = (n + k) + 1
    BY SMT
  <2>2. ((n + k) + 1) * BS = (n + k) * BS + BS
    BY <1>1, <2>1, SMT
  <2>3. SumOf(t, (n + k) + 1) = AddBlocks(SumOf(t, n + k), NthBlock(t, (n + k) + 1))
    BY <1>1, <2>1, SumSteps
  <2>4. run[k + 1] = HashStep(b, run[k], g[k + 1])
    BY <1>6, <2>1
  <2>5. Absorb(b, C(k, run[k]), g[k + 1])
          = HashCtx((n + k) * BS + BS, 0, HashStep(b, run[k], g[k + 1]), AddBlocks(SumOf(t, n + k), g[k + 1]), r)
    BY AbsorbIs
  <2> QED
    BY <1>3, <2>1, <2>2, <2>3, <2>4, <2>5
<1>9. \A k \in 0 .. l : w[k] = C(k, run[k])
  OBVIOUS
<1>10. w = [k \in 0 .. l |-> w[k]]
  OBVIOUS
<1> HIDE DEF w, C, x
<1>11. ASSUME NEW k \in 0 .. l
       PROVE  w[k] = IF k = 0 THEN x ELSE Absorb(b, w[k - 1], Slice(q, (k - 1) * BS + 1, BS))
  <2>1. CASE k = 0
    BY <1>7, <1>9, <2>1
  <2>2. CASE k # 0
    <3> DEFINE j == k - 1
    <3>1. j \in 0 .. l - 1 /\ j + 1 = k /\ j \in 0 .. l /\ k \in Nat
      BY <2>2, SMT
    <3>2. g[k] = Slice(q, j * BS + 1, BS)
      BY <1>4, <3>1
    <3> HIDE DEF j
    <3>3. C(j + 1, run[j + 1]) = Absorb(b, C(j, run[j]), g[j + 1])
      BY <1>8, <3>1
    <3>4. w[k] = Absorb(b, w[j], g[k])
      BY <1>9, <3>1, <3>3
    <3> QED
      BY <2>2, <3>2, <3>4 DEF j
  <2> QED
    BY <2>1, <2>2
<1>12. IsRest(w, b, x, q, l)
  BY <1>10, <1>11 DEF IsRest
<1>13. ASSUME h = HAfter(b, m, n) PROVE run[l] = HAfter(b, t, n + l)
  <2> DEFINE P == {k \in 0 .. l : run[k] = HAfter(b, t, n + k)}
  <2>1. 0 \in P
    <3>1. 0 \in 0 .. l /\ n + 0 = n
      BY SMT
    <3> QED
      BY <1>2, <1>6, <1>13, <3>1
  <2>2. ASSUME NEW k \in 0 .. l - 1, k \in P PROVE k + 1 \in P
    <3>1. k \in Nat /\ n + k \in Nat /\ n + (k + 1) = (n + k) + 1 /\ k + 1 \in 0 .. l
      BY SMT
    <3>2. HAfter(b, t, (n + k) + 1) = HashStep(b, HAfter(b, t, n + k), NthBlock(t, (n + k) + 1))
      BY <3>1, HAfterSteps
    <3>3. run[k + 1] = HashStep(b, run[k], g[k + 1])
      BY <1>6, <3>1
    <3> QED
      BY <1>3, <2>2, <3>1, <3>2, <3>3
  <2>3. \A k \in 0 .. l : k \in P
    <3> HIDE DEF P
    <3> QED
      BY <2>1, <2>2, UpTo
  <2>4. l \in 0 .. l
    BY SMT
  <2> QED
    BY <2>3, <2>4
<1>14. \A k \in 0 .. l : w[k] = HashCtx((n + k) * BS, 0, run[k], SumOf(t, n + k), r)
  BY <1>9 DEF C
<1> QED
  BY <1>12, <1>13, <1>14 DEF IsLoop, x, t

\* Two loops over the same blocks go the same way.
LEMMA RestUnique ==
  ASSUME NEW b, NEW x, NEW q, NEW n \in Nat,
         NEW y, IsRest(y, b, x, q, n), NEW w, IsRest(w, b, x, q, n)
  PROVE  y[n] = w[n]
<1> DEFINE P == {k \in 0 .. n : y[k] = w[k]}
           a == [k \in Nat |-> Slice(q, (k - 1) * BS + 1, BS)]
<1>1. /\ \A k \in 0 .. n : y[k] = IF k = 0 THEN x ELSE Absorb(b, y[k - 1], a[k])
      /\ \A k \in 0 .. n : w[k] = IF k = 0 THEN x ELSE Absorb(b, w[k - 1], a[k])
  <2>1. \A k \in 0 .. n : k \in Nat
    BY SMT
  <2>2. \A k \in 0 .. n : a[k] = Slice(q, (k - 1) * BS + 1, BS)
    BY <2>1
  <2> HIDE DEF a
  <2>3. \A k \in 0 .. n : y[k] = IF k = 0 THEN x ELSE Absorb(b, y[k - 1], a[k])
    BY <2>2 DEF IsRest
  <2>4. \A k \in 0 .. n : w[k] = IF k = 0 THEN x ELSE Absorb(b, w[k - 1], a[k])
    BY <2>2 DEF IsRest
  <2> QED
    BY <2>3, <2>4
<1> HIDE DEF a
<1>2. 0 \in P
  <2>1. 0 \in 0 .. n
    BY SMT
  <2> QED
    BY <1>1, <2>1
<1>3. ASSUME NEW k \in 0 .. n - 1, k \in P PROVE k + 1 \in P
  <2>1. k + 1 \in 0 .. n /\ k + 1 # 0 /\ (k + 1) - 1 = k
    BY SMT
  <2>2. y[k + 1] = Absorb(b, y[k], a[k + 1])
    BY <1>1, <2>1
  <2>3. w[k + 1] = Absorb(b, w[k], a[k + 1])
    BY <1>1, <2>1
  <2> QED
    BY <1>3, <2>1, <2>2, <2>3
<1>4. \A k \in 0 .. n : k \in P
  <2> HIDE DEF P
  <2> QED
    BY <1>2, <1>3, UpTo
<1>5. n \in 0 .. n
  BY SMT
<1> QED
  BY <1>4, <1>5

\* What HashRest is, in terms of its loop.
WithRest(y, w, q, n) ==
  LET rest == Slice(q, n * BS + 1, Len(q) % BS)
  IN  y = IF rest = <<>> THEN w[n]
          ELSE WithBuffer(w[n], Copied(w[n].remainder, 0, rest), Len(rest))

LEMMA RestIs ==
  ASSUME NEW b, NEW x, NEW q, NEW n \in Nat, n = Len(q) \div BS, NEW w, IsRest(w, b, x, q, n)
  PROVE  WithRest(HashRest(b, x, q), w, q, n)
<1> DEFINE rest == Slice(q, n * BS + 1, Len(q) % BS)
           y[k \in 0 .. n] == IF k = 0 THEN x ELSE Absorb(b, y[k - 1], Slice(q, (k - 1) * BS + 1, BS))
<1>1. HashRest(b, x, q) =
        IF rest = <<>> THEN y[n]
        ELSE [y[n] EXCEPT !.remainder = Copied(y[n].remainder, 0, rest), !.left = Len(rest)]
  BY DEF HashRest
<1>2. w = [k \in 0 .. n |-> IF k = 0 THEN x ELSE Absorb(b, w[k - 1], Slice(q, (k - 1) * BS + 1, BS))]
  BY DEF IsRest
<1>3. y = [k \in 0 .. n |-> IF k = 0 THEN x ELSE Absorb(b, y[k - 1], Slice(q, (k - 1) * BS + 1, BS))]
  BY <1>2
<1> HIDE DEF y
<1>4. IsRest(y, b, x, q, n)
  BY <1>3 DEF IsRest
<1>5. y[n] = w[n]
  BY <1>4, RestUnique
<1> QED
  BY <1>1, <1>5 DEF WithRest, WithBuffer

LEMMA CopiedIs ==
  ASSUME NEW block \in Block, NEW at \in Nat, NEW q \in Seq(Byte)
  PROVE  /\ Copied(block, at, q) \in Block
         /\ \A i \in 1 .. BS : Copied(block, at, q)[i]
                                 = IF i > at /\ i <= at + Len(q) THEN q[i - at] ELSE block[i]
<1>1. ASSUME NEW i \in 1 .. BS, i > at, i <= at + Len(q) PROVE q[i - at] \in Byte
  <2>1. Len(q) \in Nat /\ \A j \in 1 .. Len(q) : q[j] \in Byte
    OBVIOUS
  <2>2. i - at \in 1 .. Len(q)
    BY <1>1, <2>1, SMT
  <2> QED
    BY <2>1, <2>2
<1>2. \A i \in 1 .. BS : block[i] \in Byte
  BY DEF Block
<1> QED
  BY <1>1, <1>2 DEF Copied, Block

\* What is behind m in m followed by q.
LEMMA Behind ==
  ASSUME NEW m \in Seq(Byte), NEW q \in Seq(Byte), NEW j \in 1 .. Len(q)
  PROVE  (m \o q)[Len(m) + j] = q[j]
<1>1. Len(m) \in Nat /\ Len(q) \in Nat
  OBVIOUS
<1>2. /\ Len(m) + j \in 1 .. Len(m) + Len(q)
      /\ ~(Len(m) + j <= Len(m)) /\ (Len(m) + j) - Len(m) = j
  BY <1>1, SMT
<1>3. \A i \in 1 .. Len(m) + Len(q) : (m \o q)[i] = IF i <= Len(m) THEN m[i] ELSE q[i - Len(m)]
  BY ConcatProperties
<1> QED
  BY <1>2, <1>3

LEMMA FeedRest ==
  ASSUME NEW m \in Seq(Byte), NEW q \in Seq(Byte), NEW n \in Nat, Len(m) = n * BS,
         NEW b, NEW h, NEW r \in Block
  PROVE  Follows(b, m, n, h, HashRest(b, HashCtx(n * BS, 0, h, SumOf(m, n), r), q), m \o q)
<1> DEFINE l == Len(q) \div BS
           z == Len(q) % BS
           u == l * BS
           x == HashCtx(n * BS, 0, h, SumOf(m, n), r)
           t == m \o q
           v == (n + l) * BS
           rest == Slice(q, u + 1, z)
           y == HashRest(b, x, q)
<1>1. BS \in Nat \ {0} /\ BS \in Nat /\ Len(q) \in Nat /\ Len(q) \in Int /\ Len(m) \in Nat
  BY SizeAssumption, LenProperties, SMT
<1>2. l \in Nat /\ z \in 0 .. BS - 1 /\ Len(q) = u + z
  <2>1. l \in Nat
    BY <1>1, DivNat
  <2>2. z \in 0 .. BS - 1 /\ Len(q) = BS * l + z
    BY <1>1, DivMod
  <2> HIDE DEF l, z
  <2>3. BS * l = l * BS
    BY <1>1, <2>1, SMT
  <2> QED
    BY <2>1, <2>2, <2>3
<1>3. t \in Seq(Byte) /\ Len(t) = Len(m) + Len(q)
  BY ConcatProperties
<1>4. l = Len(q) \div BS
  OBVIOUS
<1> HIDE DEF l
<1>5. u \in Nat /\ v = Len(m) + u /\ n + l \in Nat /\ n + l >= n
  BY <1>1, <1>2, SMT
<1>6. l * BS <= Len(q)
  <2> HIDE DEF z
  <2> QED
    BY <1>1, <1>2, <1>5, SMT
<1>7. PICK run, w : IsLoop(w, run, b, m, n, q, l, h, r)
  BY <1>2, <1>6, FullBlocks
<1>14. IsRest(w, b, x, q, l)
  BY <1>7 DEF IsLoop
<1>15. /\ \A k \in 0 .. l : w[k] = HashCtx((n + k) * BS, 0, run[k], SumOf(t, n + k), r)
       /\ h = HAfter(b, m, n) => run[l] = HAfter(b, t, n + l)
  BY <1>7 DEF IsLoop
<1>16. WithRest(HashRest(b, x, q), w, q, l)
  <2> HIDE DEF x
  <2> QED
    BY <1>2, <1>4, <1>14, RestIs
<1>8. y = IF rest = <<>> THEN w[l]
          ELSE WithBuffer(w[l], Copied(w[l].remainder, 0, rest), Len(rest))
  BY <1>16 DEF WithRest
<1>9. w[l] = HashCtx(v, 0, run[l], SumOf(t, n + l), r)
  <2>1. l \in 0 .. l
    BY <1>2, SMT
  <2> QED
    BY <1>15, <2>1
<1> HIDE DEF z, y, x, t, u, v
<1>10. /\ rest \in Seq(Byte) /\ Len(rest) = z
       /\ \A i \in 1 .. z : rest[i] = q[(u + 1) + i - 1]
  <2>1. u + 1 \in Nat \ {0} /\ z \in Nat /\ (u + 1) + z - 1 <= Len(q)
    BY <1>1, <1>2, <1>5, SMT
  <2> QED
    BY <2>1, SliceIs
<1> HIDE DEF rest
<1>11. \A i \in 1 .. z : rest[i] = t[v + i]
  <2> SUFFICES ASSUME NEW i \in 1 .. z PROVE rest[i] = t[v + i]
    OBVIOUS
  <2>1. (u + 1) + i - 1 = u + i /\ u + i \in 1 .. Len(q) /\ v + i = Len(m) + (u + i)
    BY <1>1, <1>2, <1>5, SMT
  <2>2. t[Len(m) + (u + i)] = q[u + i]
    BY <2>1, Behind DEF t
  <2> QED
    BY <1>10, <2>1, <2>2
<1>12. Len(t) = v + z
  BY <1>1, <1>2, <1>3, <1>5, SMT
<1>13. Holds(y, t, n + l, run[l])
  <2>1. CASE z = 0
    <3>1. rest = <<>>
      BY <1>10, <2>1
    <3>2. y = HashCtx(v, 0, run[l], SumOf(t, n + l), r)
      BY <1>8, <1>9, <3>1
    <3>3. 0 \in 0 .. BS - 1 /\ Len(t) = v + 0 /\ \A i \in 1 .. 0 : FALSE
      BY <1>1, <1>12, <2>1, SMT
    <3> QED
      BY <3>2, <3>3 DEF Holds, v
  <2>2. CASE z # 0
    <3> DEFINE r2 == Copied(r, 0, rest)
               s == SumOf(t, n + l)
               h2 == run[l]
    <3>1. rest # <<>>
      BY <1>10, <2>2
    <3>2. y = HashCtx(v, z, h2, s, r2)
      <4>1. w[l].remainder = r
        BY <1>9 DEF HashCtx
      <4>2. y = WithBuffer(w[l], r2, z)
        BY <1>8, <1>10, <3>1, <4>1
      <4> HIDE DEF r2, s, h2
      <4>3. WithBuffer(HashCtx(v, 0, h2, s, r), r2, z) = HashCtx(v, z, h2, s, r2)
        BY WithBufferIs
      <4> QED
        BY <1>9, <4>2, <4>3 DEF s, h2
    <3>3. r2 \in Block
      BY <1>10, CopiedIs
    <3>4. \A i \in 1 .. z : r2[i] = t[v + i]
      <4> SUFFICES ASSUME NEW i \in 1 .. z PROVE r2[i] = t[v + i]
        OBVIOUS
      <4>1. i \in 1 .. BS /\ i > 0 /\ i <= 0 + z /\ i - 0 = i /\ 0 \in Nat
        BY <1>1, <1>2, SMT
      <4>2. r2[i] = IF i > 0 /\ i <= 0 + Len(rest) THEN rest[i - 0] ELSE r[i]
        BY <1>10, <4>1, CopiedIs
      <4> HIDE DEF r2
      <4> QED
        BY <1>10, <1>11, <4>1, <4>2
    <3> HIDE DEF r2
    <3> QED
      BY <1>2, <1>12, <3>2, <3>3, <3>4 DEF Holds, v
  <2> QED
    BY <2>1, <2>2
<1> QED
  BY <1>5, <1>15, <1>13 DEF Follows, y, t, x

\* The n bytes of the buffer r are those of m from u on.
IsBuffer(r, m, u, n) == r \in Block /\ \A i \in 1 .. n : r[i] = m[u + i]

\* The buffer holds what is behind the hashed blocks, when a has been copied.
LEMMA BufferHolds ==
  ASSUME NEW m \in Seq(Byte), NEW a \in Seq(Byte), NEW u \in Nat, NEW left \in 0 .. BS - 1,
         NEW r, Len(m) = u + left, IsBuffer(r, m, u, left), left + Len(a) <= BS
  PROVE  IsBuffer(Copied(r, left, a), m \o a, u, left + Len(a))
<1> DEFINE c == Copied(r, left, a)
           t == m \o a
<1>1. BS \in Nat \ {0} /\ left \in Nat /\ Len(a) \in Nat
  BY SizeAssumption, LenProperties, SMT
<1>6. r \in Block /\ \A i \in 1 .. left : r[i] = m[u + i]
  BY DEF IsBuffer
<1>2. c \in Block
  BY <1>1, <1>6, CopiedIs
<1>3. \A i \in 1 .. BS : c[i] = IF i > left /\ i <= left + Len(a) THEN a[i - left] ELSE r[i]
  BY <1>1, <1>6, CopiedIs
<1>4. \A i \in 1 .. Len(m) + Len(a) : t[i] = IF i <= Len(m) THEN m[i] ELSE a[i - Len(m)]
  BY ConcatProperties
<1> HIDE DEF c, t
<1>5. ASSUME NEW i \in 1 .. left + Len(a)
      PROVE  c[i] = t[u + i]
  <2>1. /\ i \in 1 .. BS /\ u + i \in 1 .. Len(m) + Len(a) /\ (u + i) - Len(m) = i - left
        /\ i > left <=> ~(u + i <= Len(m)) /\ i <= left + Len(a)
    BY <1>1, SMT
  <2>2. t[u + i] = IF u + i <= Len(m) THEN m[u + i] ELSE a[(u + i) - Len(m)]
    BY <1>4, <2>1
  <2>3. CASE i > left
    <3>1. c[i] = a[i - left]
      BY <1>3, <2>1, <2>3
    <3>2. t[u + i] = a[i - left]
      BY <2>1, <2>2, <2>3
    <3> QED
      BY <3>1, <3>2
  <2>4. CASE ~(i > left)
    <3>1. c[i] = r[i]
      BY <1>3, <2>1, <2>4
    <3>2. t[u + i] = m[u + i]
      BY <1>1, <2>1, <2>2, <2>4, SMT
    <3>3. i \in 1 .. left
      BY <1>1, <2>4, SMT
    <3> QED
      BY <1>6, <3>1, <3>2, <3>3
  <2> QED
    BY <2>3, <2>4
<1> QED
  BY <1>2, <1>5 DEF IsBuffer, c, t

\* A buffer that has become full is the next block.
LEMMA FullBuffer ==
  ASSUME NEW m \in Seq(Byte), NEW n \in Nat, Len(m) = (n + 1) * BS, NEW r \in Block,
         \A i \in 1 .. BS : r[i] = m[n * BS + i]
  PROVE  r = NthBlock(m, n + 1)
<1> DEFINE c == NthBlock(m, n + 1)
           u == n * BS
<1>1. u \in Nat /\ Len(m) = u + BS /\ BS \in Nat
  BY SizeAssumption, SMT
<1>2. c \in Block /\ \A i \in 1 .. BS : c[i] = IF u + i <= Len(m) THEN m[u + i] ELSE 0
  BY NthBlockIs
<1>3. \A i \in 1 .. BS : r[i] = m[u + i]
  OBVIOUS
<1> HIDE DEF c, u
<1>4. \A i \in 1 .. BS : u + i <= Len(m)
  BY <1>1, SMT
<1>5. \A i \in 1 .. BS : r[i] = c[i]
  BY <1>2, <1>3, <1>4
<1> QED
  BY <1>2, <1>5, SameBlock DEF c

\* hash_block, in terms of what the buffer becomes.
Filled(b, len, left, h, s, a, add, q) ==
  IF left + add < BS THEN HashCtx(len, left + add, h, s, a)
  ELSE HashRest(b, HashCtx(len + BS, 0, HashStep(b, h, a), AddBlocks(s, a), a),
                Slice(q, add + 1, Len(q) - add))

LEMMA HashBlockIs ==
  ASSUME NEW b, NEW len, NEW left, NEW h, NEW s, NEW r, NEW q, NEW x, NEW a, NEW add,
         x = HashCtx(len, left, h, s, r), left # 0,
         add = IF BS - left > Len(q) THEN Len(q) ELSE BS - left, a = Copied(r, left, Slice(q, 1, add))
  PROVE  HashBlock(b, x, q) = Filled(b, len, left, h, s, a, add, q)
<1> DEFINE filled == WithBuffer(x, a, left + add)
           y == Absorb(b, filled, filled.remainder)
           z == [y EXCEPT !.left = 0]
           l2 == left + add
<1>1. x.left = left /\ x.remainder = r
  BY DEF HashCtx
<1>2. HashBlock(b, x, q) =
        IF filled.left < BS THEN filled ELSE HashRest(b, z, Slice(q, add + 1, Len(q) - add))
  BY <1>1 DEF HashBlock, WithBuffer
<1>3. filled = HashCtx(len, l2, h, s, a)
  BY WithBufferIs
<1> HIDE DEF filled, l2
<1>4. filled.left = l2 /\ filled.remainder = a
  BY <1>3 DEF HashCtx
<1>5. y = HashCtx(len + BS, l2, HashStep(b, h, a), AddBlocks(s, a), a)
  BY <1>3, <1>4, AbsorbIs
<1>6. z = HashCtx(len + BS, 0, HashStep(b, h, a), AddBlocks(s, a), a)
  <2> DEFINE h2 == HashStep(b, h, a)
             s2 == AddBlocks(s, a)
             len2 == len + BS
  <2>1. y = HashCtx(len2, l2, h2, s2, a)
    BY <1>5
  <2> HIDE DEF h2, s2, len2, y
  <2>2. z = HashCtx(len2, 0, h2, s2, a)
    BY <2>1 DEF HashCtx
  <2> QED
    BY <2>2 DEF h2, s2, len2
<1> HIDE DEF z
<1> QED
  BY <1>2, <1>3, <1>4, <1>6 DEF l2, Filled

\* Bytes given in three parts are the same bytes however they are grouped.
LEMMA ThreeParts ==
  ASSUME NEW m \in Seq(Byte), NEW p \in Seq(Byte), NEW q \in Seq(Byte)
  PROVE  (m \o p) \o q = m \o (p \o q)
BY ConcatAssociative

\* Whatever the pieces, hash_block makes of a context that holds m the one
\* that holds m and q.
LEMMA FeedBlock ==
  ASSUME NEW m \in Seq(Byte), NEW q \in Seq(Byte), NEW n \in Nat,
         NEW b, NEW h, NEW x, Holds(x, m, n, h)
  PROVE  Follows(b, m, n, h, HashBlock(b, x, q), m \o q)
<1> DEFINE t == m \o q
           u == n * BS
           s == SumOf(m, n)
           y == HashBlock(b, x, q)
<1>1. PICK left \in 0 .. BS - 1, r \in Block :
        /\ x = HashCtx(u, left, h, s, r) /\ Len(m) = u + left
        /\ \A i \in 1 .. left : r[i] = m[u + i]
  BY DEF Holds
<1>2. BS \in Nat \ {0} /\ BS \in Nat /\ u \in Nat /\ left \in Nat
  BY SizeAssumption, SMT
<1>3. Len(q) \in Nat /\ Len(m) \in Nat
  BY LenProperties
<1>4. t \in Seq(Byte) /\ Len(t) = Len(m) + Len(q)
  BY ConcatProperties
<1>5. SumOf(t, n) = s /\ HAfter(b, t, n) = HAfter(b, m, n)
  <2>1. n * BS <= Len(m)
    <3> HIDE DEF u
    <3>1. u <= Len(m)
      BY <1>1, <1>2, SMT
    <3> QED
      BY <3>1 DEF u
  <2> QED
    BY <2>1, PrefixBlocks
<1>6. CASE left = 0
  <2>1. y = HashRest(b, x, q)
    <3>1. x.left = 0
      BY <1>1, <1>6 DEF HashCtx
    <3> QED
      BY <3>1 DEF HashBlock
  <2>2. Len(m) = n * BS /\ x = HashCtx(n * BS, 0, h, SumOf(m, n), r)
    BY <1>1, <1>2, <1>6, SMT
  <2> HIDE DEF y
  <2>3. Follows(b, m, n, h, HashRest(b, HashCtx(n * BS, 0, h, SumOf(m, n), r), q), m \o q)
    BY <2>2, FeedRest
  <2> QED
    BY <2>1, <2>2, <2>3 DEF y
<1>7. CASE left # 0
  <2> DEFINE add == IF BS - left > Len(q) THEN Len(q) ELSE BS - left
             p == Slice(q, 1, add)
             a == Copied(r, left, p)
             t1 == m \o p
             q2 == Slice(q, add + 1, Len(q) - add)
  <2>1. /\ add \in Nat /\ add <= Len(q) /\ left + add <= BS
        /\ left + add < BS => add = Len(q)
        /\ ~(left + add < BS) => left + add = BS
    BY <1>2, <1>3, SMT
  <2>2. y = IF left + add < BS THEN HashCtx(u, left + add, h, s, a)
            ELSE HashRest(b, HashCtx(u + BS, 0, HashStep(b, h, a), AddBlocks(s, a), a), q2)
    <3> DEFINE c == add
    <3> HIDE DEF y, u, s
    <3>1. c = IF BS - left > Len(q) THEN Len(q) ELSE BS - left
      OBVIOUS
    <3>2. a = Copied(r, left, Slice(q, 1, c))
      OBVIOUS
    <3> HIDE DEF add, a
    <3>3. HashBlock(b, x, q) = Filled(b, u, left, h, s, a, c, q)
      BY <1>1, <1>7, <3>1, <3>2, HashBlockIs
    <3> QED
      BY <3>3 DEF y, Filled
  <2> HIDE DEF add
  <2>3. p \in Seq(Byte) /\ Len(p) = add
    <3>1. 1 \in Nat \ {0} /\ 1 + add - 1 <= Len(q)
      BY <1>3, <2>1, SMT
    <3> QED
      BY <2>1, <3>1, SliceIs
  <2>4. p \o q2 = q
    <3>1. 1 \in 1 .. Len(q) + 1 /\ add \in 1 - 1 .. Len(q) /\ Len(q) \in add .. Len(q)
          /\ 1 + add - 1 = add /\ (add + 1) + (Len(q) - add) - 1 = Len(q)
      BY <1>3, <2>1, SMT
    <3>2. SubSeq(q, 1, add) \o SubSeq(q, add + 1, Len(q)) = SubSeq(q, 1, Len(q))
      BY <3>1, ConcatAdjacentSubSeq
    <3>3. SubSeq(q, 1, Len(q)) = q
      BY SubSeqFull
    <3> QED
      BY <3>1, <3>2, <3>3 DEF Slice
  <2>5. q2 \in Seq(Byte)
    <3>1. add + 1 \in Nat \ {0} /\ Len(q) - add \in Nat /\ (add + 1) + (Len(q) - add) - 1 <= Len(q)
      BY <1>3, <2>1, SMT
    <3> QED
      BY <3>1, SliceIs
  <2> HIDE DEF p, q2
  <2>6. t1 \in Seq(Byte) /\ Len(t1) = Len(m) + add /\ t1 \o q2 = t
    <3>1. t1 \in Seq(Byte) /\ Len(t1) = Len(m) + Len(p)
      BY <2>3, ConcatProperties
    <3>2. (m \o p) \o q2 = m \o (p \o q2)
      BY <2>3, <2>5, ThreeParts
    <3> QED
      BY <2>3, <2>4, <3>1, <3>2
  <2>7. a \in Block /\ \A i \in 1 .. left + add : a[i] = t1[u + i]
    <3> HIDE DEF u
    <3>1. left + Len(p) <= BS
      BY <2>1, <2>3
    <3>2. IsBuffer(r, m, u, left)
      BY <1>1 DEF IsBuffer
    <3>3. IsBuffer(Copied(r, left, p), m \o p, u, left + Len(p))
      BY <1>1, <1>2, <2>3, <3>1, <3>2, BufferHolds
    <3> QED
      BY <2>3, <3>3 DEF IsBuffer
  <2> HIDE DEF a, t, t1, y, s
  <2>8. CASE left + add < BS
    <3>1. y = HashCtx(u, left + add, h, SumOf(t, n), a)
      BY <1>5, <2>2, <2>8
    <3>2. t1 = t
      <4>1. add = Len(q)
        BY <2>1, <2>8
      <4>2. p = SubSeq(q, 1, Len(q))
        <5>1. 1 + add - 1 = Len(q)
          BY <1>3, <4>1, SMT
        <5> QED
          BY <5>1 DEF p, Slice
      <4>3. p = q
        BY <4>2, SubSeqFull
      <4> QED
        BY <4>3 DEF t, t1
    <3>3. left + add \in 0 .. BS - 1 /\ Len(t) = u + (left + add)
      BY <1>1, <1>2, <1>3, <2>1, <2>6, <2>8, <3>2, SMT
    <3>4. Holds(y, t, n, h)
      BY <2>7, <3>1, <3>2, <3>3 DEF Holds
    <3>5. n >= n
      BY SMT
    <3> QED
      BY <1>5, <3>4, <3>5 DEF Follows, y, t
  <2>9. CASE ~(left + add < BS)
    <3> DEFINE h1 == HashStep(b, h, a)
               v == (n + 1) * BS
    <3>1. left + add = BS /\ n + 1 \in Nat
      BY <2>1, <2>9, SMT
    <3>2. v = u + BS
      BY <1>2, SMT
    <3>3. Len(t1) = v
      <4>1. Len(m) = u + left /\ Len(t1) = Len(m) + add
        BY <1>1, <2>6
      <4> HIDE DEF u, v, add
      <4> QED
        BY <1>2, <2>1, <3>1, <3>2, <4>1, SMT
    <3>4. a = NthBlock(t1, n + 1)
      <4>1. \A i \in 1 .. BS : a[i] = t1[n * BS + i]
        BY <2>7, <3>1
      <4> QED
        BY <2>6, <2>7, <3>3, <4>1, FullBuffer
    <3>5. SumOf(t1, n) = s /\ HAfter(b, t1, n) = HAfter(b, m, n)
      <4>1. n * BS <= Len(m)
        <5> HIDE DEF u
        <5>1. u <= Len(m)
          BY <1>1, <1>2, SMT
        <5> QED
          BY <5>1 DEF u
      <4> QED
        BY <2>3, <4>1, PrefixBlocks DEF t1, s
    <3>6. SumOf(t1, n + 1) = AddBlocks(s, a)
      BY <2>6, <3>4, <3>5, SumSteps
    <3>7. h = HAfter(b, m, n) => h1 = HAfter(b, t1, n + 1)
      BY <2>6, <3>4, <3>5, HAfterSteps
    <3>8. y = HashRest(b, HashCtx(v, 0, h1, SumOf(t1, n + 1), a), q2)
      BY <2>2, <2>9, <3>2, <3>6
    <3> HIDE DEF h1
    <3>9. Follows(b, t1, n + 1, h1, HashRest(b, HashCtx((n + 1) * BS, 0, h1, SumOf(t1, n + 1), a), q2), t1 \o q2)
      BY <2>5, <2>6, <2>7, <3>1, <3>3, FeedRest
    <3>10. Follows(b, t1, n + 1, h1, y, t)
      BY <2>6, <3>8, <3>9
    <3>11. PICK k, h2 : /\ k \in Nat /\ k >= n + 1 /\ Holds(y, t, k, h2)
                        /\ h1 = HAfter(b, t1, n + 1) => h2 = HAfter(b, t, k)
      BY <3>10 DEF Follows
    <3>12. k >= n
      BY <3>11, SMT
    <3> QED
      BY <3>7, <3>11, <3>12 DEF Follows, y, t
  <2> QED
    BY <2>8, <2>9
<1> QED
  BY <1>6, <1>7

LEMMA BlocksOf ==
  ASSUME NEW l, NEW n \in Nat, NEW left \in 0 .. BS - 1, l = n * BS + left
  PROVE  /\ l \div BS = n /\ l % BS = left
         /\ (l + BS - 1) \div BS = IF left = 0 THEN n ELSE n + 1
<1>1. BS \in Nat \ {0} /\ n \in Int /\ left \in Int /\ l = BS * n + left
  BY SizeAssumption, SMT
<1>2. l \div BS = n /\ l % BS = left
  BY <1>1, DivUnique, ModUnique
<1>3. CASE left = 0
  <2>1. BS - 1 \in 0 .. BS - 1
    BY <1>1, SMT
  <2>2. (BS * n + (BS - 1)) \div BS = n
    BY <1>1, <2>1, DivUnique
  <2>3. l + BS - 1 = BS * n + (BS - 1)
    <3> DEFINE u == BS * n
    <3>1. u \in Int
      BY <1>1, SMT
    <3> HIDE DEF u
    <3>2. (u + left) + BS - 1 = u + (BS - 1)
      BY <1>1, <1>3, <3>1, SMT
    <3> QED
      BY <1>1, <3>2 DEF u
  <2> QED
    BY <1>2, <1>3, <2>2, <2>3
<1>4. CASE left # 0
  <2>1. left - 1 \in 0 .. BS - 1 /\ n + 1 \in Int
    BY <1>1, <1>4, SMT
  <2>2. (BS * (n + 1) + (left - 1)) \div BS = n + 1
    BY <1>1, <2>1, DivUnique
  <2>3. l + BS - 1 = BS * (n + 1) + (left - 1)
    <3>1. BS * (n + 1) = BS * n + BS
      BY <1>1, SMT
    <3> DEFINE u == BS * n
    <3>2. u \in Int
      BY <1>1, SMT
    <3> HIDE DEF u
    <3>3. (u + left) + BS - 1 = (u + BS) + (left - 1)
      BY <1>1, <3>2, SMT
    <3> QED
      BY <1>1, <3>1, <3>3 DEF u
  <2> QED
    BY <1>2, <1>4, <2>2, <2>3
<1> QED
  BY <1>3, <1>4

\* finish_hash gives the hash of the message.
LEMMA FinishIs ==
  ASSUME NEW m \in Seq(Byte), NEW n \in Nat, NEW b, NEW x, Holds(x, m, n, HAfter(b, m, n))
  PROVE  FinishHash(b, x) = Hash(b, m)
<1> DEFINE h == HAfter(b, m, n)
           s == SumOf(m, n)
           u == n * BS
           l == Len(m)
           padded == [i \in 1 .. BS |-> IF i <= x.left THEN x.remainder[i] ELSE 0]
           y == IF x.left = 0 THEN x ELSE Absorb(b, x, padded)
           len == x.len + x.left
           e == (l + BS - 1) \div BS
           Last(hh, ss) == HashStep(b, HashStep(b, hh, LengthBlock(l)), ss)
<1>1. PICK left \in 0 .. BS - 1, r \in Block :
        /\ x = HashCtx(u, left, h, s, r) /\ l = u + left
        /\ \A i \in 1 .. left : r[i] = m[u + i]
  BY DEF Holds
<1>2. BS \in Nat \ {0} /\ BS \in Nat /\ u \in Nat /\ left \in Nat /\ l \in Nat
  BY SizeAssumption, LenProperties, SMT
<1>3. x.left = left /\ x.remainder = r /\ x.len = u /\ x.H = h /\ x.S = s
  BY <1>1 DEF HashCtx
<1>4. len = l
  BY <1>1, <1>3
<1>5. m = <<>> <=> l = 0
  BY EmptySeq, SMT
<1>6. FinishHash(b, x) = Last(IF l = 0 THEN HashStep(b, y.H, ZeroBlock) ELSE y.H, y.S)
  BY <1>4 DEF FinishHash
<1>7. Hash(b, m) = Last(IF m = <<>> THEN HashStep(b, ZeroH, ZeroBlock) ELSE HAfter(b, m, e), SumOf(m, e))
  BY DEF Hash
<1>8. e = IF left = 0 THEN n ELSE n + 1
  <2> HIDE DEF l
  <2> QED
    BY <1>1, BlocksOf
<1> HIDE DEF e, len, Last
<1>9. CASE left = 0
  <2>1. y.H = h /\ y.S = s /\ e = n
    BY <1>3, <1>8, <1>9
  <2>2. l = 0 => h = ZeroH
    <3> HIDE DEF h
    <3>1. l = 0 => n = 0
      <4>1. l = 0 => n * BS = 0
        BY <1>1, <1>9, <1>2, SMT
      <4>2. n # 0 => n * BS >= BS
        BY <1>2, SMT
      <4> QED
        BY <1>2, <4>1, <4>2, SMT
    <3> QED
      BY <3>1, HAfterSteps DEF h
  <2> HIDE DEF y, l
  <2> QED
    BY <1>5, <1>6, <1>7, <2>1, <2>2
<1>10. CASE left # 0
  <2> DEFINE c == NthBlock(m, n + 1)
  <2>1. padded = c
    <3>1. c \in Block /\ \A i \in 1 .. BS : c[i] = IF u + i <= Len(m) THEN m[u + i] ELSE 0
      BY NthBlockIs
    <3>2. \A i \in 1 .. BS : (i <= left => i \in 1 .. left) /\ (i <= left <=> u + i <= l)
      <4> HIDE DEF u, l
      <4> QED
        BY <1>1, <1>2, SMT
    <3> HIDE DEF c, u
    <3>3. \A i \in 1 .. BS : (IF i <= left THEN r[i] ELSE 0) = c[i]
      BY <1>1, <3>1, <3>2
    <3>4. c = [i \in 1 .. BS |-> c[i]]
      BY <3>1 DEF Block
    <3>5. padded = [i \in 1 .. BS |-> IF i <= left THEN r[i] ELSE 0]
      BY <1>3
    <3> HIDE DEF padded
    <3> QED
      BY <3>3, <3>4, <3>5
  <2>2. y = HashCtx(u + BS, left, HashStep(b, h, c), AddBlocks(s, c), r)
    <3>1. y = Absorb(b, x, c)
      BY <1>3, <1>10, <2>1
    <3> HIDE DEF y, c, h, s, u
    <3>2. Absorb(b, HashCtx(u, left, h, s, r), c) = HashCtx(u + BS, left, HashStep(b, h, c), AddBlocks(s, c), r)
      BY AbsorbIs
    <3> QED
      BY <1>1, <3>1, <3>2
  <2>3. y.H = HAfter(b, m, n + 1) /\ y.S = SumOf(m, n + 1)
    <3>1. HAfter(b, m, n + 1) = HashStep(b, h, c)
      BY HAfterSteps
    <3>2. SumOf(m, n + 1) = AddBlocks(s, c)
      BY SumSteps
    <3> HIDE DEF y, c, h, s
    <3> QED
      BY <2>2, <3>1, <3>2 DEF HashCtx
  <2>4. l # 0
    <3> HIDE DEF u, l
    <3> QED
      BY <1>1, <1>2, <1>10, SMT
  <2> HIDE DEF y, l
  <2> QED
    BY <1>5, <1>6, <1>7, <1>8, <1>10, <2>3, <2>4
<1> QED
  BY <1>9, <1>10

-----------------------------------------------------------------------------
(* The cipher that a context uses                                          *)

PointerType ==
  /\ cipher \in [Ctx -> Ctx \cup {NullCtx}] /\ cctx \in [Ctx -> Box \cup {ZeroBox}]
  /\ phase \in [Ctx -> {"none", "open", "final"}]

PointerInv == PointerType /\ OwnCipher

LEMMA NextPointer ==
  ASSUME PointerInv, [Next]_vars
  PROVE  PointerInv'
<1> USE ContextAssumption DEF PointerInv, PointerType, OwnCipher
<1>1. ASSUME NEW c \in Ctx, NEW b \in Box, dstu_md_init(c, b) PROVE PointerInv'
  BY <1>1 DEF dstu_md_init
<1>2. ASSUME NEW c \in Ctx, NEW b \in Box, dstu_md_ctrl(c, b) PROVE PointerInv'
  BY <1>2 DEF dstu_md_ctrl
<1>3. ASSUME NEW c \in Ctx, NEW q \in Pieces, dstu_md_update(c, q) PROVE PointerInv'
  BY <1>3 DEF dstu_md_update
<1>4. ASSUME NEW c \in Ctx, dstu_md_final(c) PROVE PointerInv'
  BY <1>4 DEF dstu_md_final, Wiped
<1>5. ASSUME NEW c \in Ctx, NEW d \in Ctx, dstu_md_copy(c, d) PROVE PointerInv'
  <2>1. CASE phase[d] = "open"
    BY <1>5, <2>1 DEF dstu_md_copy
  <2>2. CASE phase[d] # "open"
    BY <1>5, <2>2 DEF dstu_md_copy
  <2> QED
    BY <2>1, <2>2
<1>6. ASSUME NEW c \in Ctx, dstu_md_cleanup(c) PROVE PointerInv'
  BY <1>6 DEF dstu_md_cleanup, Wiped
<1>7. CASE UNCHANGED vars
  BY <1>7 DEF vars
<1> QED
  BY <1>1, <1>2, <1>3, <1>4, <1>5, <1>6, <1>7 DEF Next, InitPlain, InitWithKey

\* dstu_md_copy, dstu_md_init and dstu_md_cleanup keep every hash context on
\* the cipher context next to it.
THEOREM CipherCorrect == Spec => []OwnCipher
<1>1. Init => PointerInv
  BY DEF Init, PointerInv, PointerType, OwnCipher
<1>2. PointerInv /\ [Next]_vars => PointerInv'
  BY NextPointer
<1>3. PointerInv => OwnCipher
  BY DEF PointerInv
<1> QED
  BY <1>1, <1>2, <1>3, PTL DEF Spec

-----------------------------------------------------------------------------
(* What the contexts hold                                                  *)

DataType ==
  /\ dctx = [c \in Ctx |-> dctx[c]] /\ msg = [c \in Ctx |-> msg[c]]
  /\ box = [c \in Ctx |-> box[c]]

\* The data d of a context after the message m, hashed with the box k; b is
\* the one single box of the message, or Mixed when a block had been hashed
\* before the box was replaced.
Fed(d, m, k, b) ==
  /\ m \in Seq(Byte)
  /\ \E n, h : /\ n \in Nat /\ Holds(d, m, n, h)
               /\ b # Mixed => b = k /\ h = HAfter(b, m, n)
               /\ b = Mixed => n # 0

DataInv ==
  /\ PointerInv /\ DataType
  /\ \A c \in Ctx : phase[c] = "open" => Fed(dctx[c], msg[c], cctx[c], box[c])

LEMMA FedEmpty ==
  ASSUME NEW b \in Box
  PROVE  Fed(EmptyCtx, <<>>, b, b)
<1>1. Len(<<>>) = 0 /\ <<>> \in Seq(Byte)
  OBVIOUS
<1>2. /\ 0 \in Nat /\ 0 * BS = 0 /\ 0 \in 0 .. BS - 1 /\ 0 = 0 * BS + 0
      /\ \A i \in 1 .. 0 : FALSE
  BY SizeAssumption, SMT
<1>3. SumOf(<<>>, 0) = ZeroBlock /\ HAfter(b, <<>>, 0) = ZeroH
  BY <1>1, SumSteps, HAfterSteps
<1>4. ZeroBlock \in Block
  BY SizeAssumption, SMT DEF ZeroBlock, Block, Byte
<1>5. EmptyCtx = HashCtx(0 * BS, 0, ZeroH, SumOf(<<>>, 0), ZeroBlock)
  BY <1>2, <1>3 DEF EmptyCtx, HashCtx
<1>6. Holds(EmptyCtx, <<>>, 0, ZeroH)
  BY <1>1, <1>2, <1>4, <1>5 DEF Holds
<1>7. b # Mixed
  BY ContextAssumption
<1> QED
  BY <1>1, <1>2, <1>3, <1>6, <1>7 DEF Fed

LEMMA FedMore ==
  ASSUME NEW d, NEW m, NEW k, NEW b, Fed(d, m, k, b), NEW q \in Seq(Byte)
  PROVE  Fed(HashBlock(k, d, q), m \o q, k, b)
<1>1. m \in Seq(Byte)
  BY DEF Fed
<1>2. PICK n, h : /\ n \in Nat /\ Holds(d, m, n, h)
                  /\ b # Mixed => b = k /\ h = HAfter(b, m, n)
                  /\ b = Mixed => n # 0
  BY DEF Fed
<1>3. Follows(k, m, n, h, HashBlock(k, d, q), m \o q)
  BY <1>1, <1>2, FeedBlock
<1>4. PICK n2, h2 : /\ n2 \in Nat /\ n2 >= n /\ Holds(HashBlock(k, d, q), m \o q, n2, h2)
                    /\ h = HAfter(k, m, n) => h2 = HAfter(k, m \o q, n2)
  BY <1>3 DEF Follows
<1>5. n # 0 => n2 # 0
  BY <1>2, <1>4, SMT
<1>6. m \o q \in Seq(Byte)
  BY <1>1, ConcatProperties
<1> QED
  BY <1>2, <1>4, <1>5, <1>6 DEF Fed

\* Replacing the box, as dstu_md_ctrl does.
LEMMA FedBox ==
  ASSUME NEW d, NEW m, NEW k, NEW b, Fed(d, m, k, b), NEW k2 \in Box
  PROVE  Fed(d, m, k2, IF d.len = 0 THEN k2 ELSE IF k2 = b THEN b ELSE Mixed)
<1>1. m \in Seq(Byte) /\ k2 # Mixed
  BY ContextAssumption DEF Fed
<1>2. PICK n, h : /\ n \in Nat /\ Holds(d, m, n, h)
                  /\ b # Mixed => b = k /\ h = HAfter(b, m, n)
                  /\ b = Mixed => n # 0
  BY DEF Fed
<1>3. d.len = n * BS
  BY <1>2 DEF Holds, HashCtx
<1>4. d.len = 0 <=> n = 0
  <2>1. n # 0 => n * BS # 0
    BY <1>2, SizeAssumption, SMT
  <2>2. n = 0 => n * BS = 0
    BY SizeAssumption, SMT
  <2> QED
    BY <1>3, <2>1, <2>2
<1>5. CASE d.len = 0
  <2>1. n = 0 /\ h = HAfter(k2, m, n)
    BY <1>2, <1>4, <1>5, HAfterSteps
  <2> QED
    BY <1>1, <1>2, <1>5, <2>1 DEF Fed
<1>6. CASE d.len # 0 /\ k2 = b
  BY <1>1, <1>2, <1>6 DEF Fed
<1>7. CASE d.len # 0 /\ k2 # b
  <2>1. n # 0
    BY <1>4, <1>7
  <2> QED
    BY <1>1, <1>2, <1>7, <2>1 DEF Fed
<1> QED
  BY <1>5, <1>6, <1>7

LEMMA NextData ==
  ASSUME DataInv, [Next]_vars
  PROVE  DataInv'
<1>1. PointerInv'
  BY NextPointer DEF DataInv
<1>2. /\ \A c \in Ctx : phase[c] = "open" => Fed(dctx[c], msg[c], cctx[c], box[c])
      /\ \A c \in Ctx : phase[c] = "open" => cipher[c] = c
      /\ DataType /\ PointerType
  BY DEF DataInv, PointerInv, OwnCipher
<1> DEFINE Good == DataType' /\ \A c \in Ctx : phase'[c] = "open" => Fed(dctx'[c], msg'[c], cctx'[c], box'[c])
<1> USE <1>2 DEF DataType, PointerType
<1>3. ASSUME NEW c \in Ctx, NEW b \in Box, dstu_md_init(c, b) PROVE Good
  BY <1>3, FedEmpty DEF dstu_md_init
<1>4. ASSUME NEW c \in Ctx, NEW b \in Box, dstu_md_ctrl(c, b) PROVE Good
  <2>1. DataType'
    BY <1>4 DEF dstu_md_ctrl
  <2>2. ASSUME NEW d \in Ctx, phase'[d] = "open", d # c
        PROVE  Fed(dctx'[d], msg'[d], cctx'[d], box'[d])
    BY <1>4, <2>2 DEF dstu_md_ctrl
  <2>3. ASSUME phase'[c] = "open"
        PROVE  Fed(dctx'[c], msg'[c], cctx'[c], box'[c])
    <3>1. /\ phase[c] = "open" /\ dctx'[c] = dctx[c] /\ msg'[c] = msg[c] /\ cctx'[c] = b
      BY <1>4, <2>3 DEF dstu_md_ctrl
    <3>2. box'[c] = IF dctx[c].len = 0 THEN b ELSE IF b = box[c] THEN box[c] ELSE Mixed
      BY <1>4, <3>1 DEF dstu_md_ctrl
    <3>3. Fed(dctx[c], msg[c], cctx[c], box[c])
      BY <3>1
    <3> QED
      BY <3>1, <3>2, <3>3, FedBox
  <2> QED
    BY <2>1, <2>2, <2>3
<1>5. ASSUME NEW c \in Ctx, NEW q \in Pieces, dstu_md_update(c, q) PROVE Good
  <2>1. DataType'
    BY <1>5 DEF dstu_md_update
  <2>2. ASSUME NEW d \in Ctx, phase'[d] = "open", d # c
        PROVE  Fed(dctx'[d], msg'[d], cctx'[d], box'[d])
    BY <1>5, <2>2 DEF dstu_md_update
  <2>3. Fed(dctx'[c], msg'[c], cctx'[c], box'[c])
    <3>1. /\ phase[c] = "open" /\ dctx'[c] = HashBlock(cctx[cipher[c]], dctx[c], q)
          /\ msg'[c] = msg[c] \o q /\ cctx'[c] = cctx[c] /\ box'[c] = box[c]
      BY <1>5 DEF dstu_md_update
    <3>2. cipher[c] = c /\ Fed(dctx[c], msg[c], cctx[c], box[c])
      BY <3>1
    <3>3. q \in Seq(Byte)
      BY ContextAssumption
    <3> QED
      BY <3>1, <3>2, <3>3, FedMore
  <2> QED
    BY <2>1, <2>2, <2>3
<1>6. ASSUME NEW c \in Ctx, dstu_md_final(c) PROVE Good
  BY <1>6 DEF dstu_md_final, Wiped
<1>7. ASSUME NEW c \in Ctx, NEW d \in Ctx, dstu_md_copy(c, d) PROVE Good
  <2>1. DataType'
    BY <1>7 DEF dstu_md_copy
  <2>2. ASSUME NEW e \in Ctx, phase'[e] = "open", e # c
        PROVE  Fed(dctx'[e], msg'[e], cctx'[e], box'[e])
    BY <1>7, <2>2 DEF dstu_md_copy
  <2>3. ASSUME phase'[c] = "open"
        PROVE  Fed(dctx'[c], msg'[c], cctx'[c], box'[c])
    <3>1. /\ phase[d] = "open" /\ dctx'[c] = dctx[d] /\ msg'[c] = msg[d]
          /\ cctx'[c] = cctx[d] /\ box'[c] = box[d]
      BY <1>7, <2>3 DEF dstu_md_copy
    <3> QED
      BY <3>1
  <2> QED
    BY <2>1, <2>2, <2>3
<1>8. ASSUME NEW c \in Ctx, dstu_md_cleanup(c) PROVE Good
  BY <1>8 DEF dstu_md_cleanup, Wiped
<1>9. ASSUME UNCHANGED vars PROVE Good
  BY <1>9 DEF vars
<1> HIDE DEF Good
<1>10. ASSUME Next PROVE Good
  <2>1. ASSUME NEW c \in Ctx, InitPlain(c) \/ \E b \in Box : InitWithKey(c, b) PROVE Good
    BY <1>3, <2>1, ContextAssumption DEF InitPlain, InitWithKey
  <2> QED
    BY <1>4, <1>5, <1>6, <1>7, <1>8, <1>10, <2>1 DEF Next
<1>11. Good
  BY <1>9, <1>10
<1>12. DataType' /\ (\A c \in Ctx : phase[c] = "open" => Fed(dctx[c], msg[c], cctx[c], box[c]))'
  BY <1>11 DEF Good, Fed, Holds
<1> QED
  BY <1>1, <1>12 DEF DataInv

LEMMA InitData == Init => DataInv
  BY DEF Init, DataInv, DataType, PointerInv, PointerType, OwnCipher

LEMMA DataIsOfMessage == DataInv => StateIsOfMessage
<1> SUFFICES ASSUME DataInv, NEW c \in Ctx, phase[c] = "open", box[c] # Mixed
             PROVE  LET m == msg[c]
                        n == Len(m) \div BS
                    IN  /\ dctx[c].len = n * BS /\ dctx[c].left = Len(m) % BS
                        /\ dctx[c].H = HAfter(box[c], m, n) /\ dctx[c].S = SumOf(m, n)
                        /\ \A i \in 1 .. dctx[c].left : dctx[c].remainder[i] = m[n * BS + i]
  BY DEF StateIsOfMessage
<1> DEFINE m == msg[c]
           x == dctx[c]
           b == box[c]
<1>1. Fed(x, m, cctx[c], b)
  BY DEF DataInv
<1> HIDE DEF m, x, b
<1>2. PICK n, h : n \in Nat /\ Holds(x, m, n, h) /\ h = HAfter(b, m, n)
  BY <1>1 DEF Fed, b
<1>3. PICK left \in 0 .. BS - 1, r \in Block :
        /\ x = HashCtx(n * BS, left, h, SumOf(m, n), r)
        /\ Len(m) = n * BS + left
        /\ \A i \in 1 .. left : r[i] = m[n * BS + i]
  BY <1>2 DEF Holds
<1>4. Len(m) \div BS = n /\ Len(m) % BS = left
  BY <1>2, <1>3, BlocksOf
<1>5. x.len = n * BS /\ x.left = left /\ x.H = h /\ x.S = SumOf(m, n) /\ x.remainder = r
  BY <1>3 DEF HashCtx
<1> QED
  BY <1>2, <1>3, <1>4, <1>5 DEF m, x, b

LEMMA DataGivesDigest == DataInv => DigestIsOfMessage
<1> SUFFICES ASSUME DataInv, NEW c \in Ctx, phase[c] = "open", box[c] # Mixed
             PROVE  Digest(c) = Hash(box[c], msg[c])
  BY DEF DigestIsOfMessage
<1>1. Fed(dctx[c], msg[c], cctx[c], box[c]) /\ cipher[c] = c
  BY DEF DataInv, PointerInv, OwnCipher
<1>2. PICK n \in Nat : Holds(dctx[c], msg[c], n, HAfter(box[c], msg[c], n))
  BY <1>1 DEF Fed
<1>3. msg[c] \in Seq(Byte) /\ cctx[c] = box[c]
  BY <1>1 DEF Fed
<1>4. FinishHash(box[c], dctx[c]) = Hash(box[c], msg[c])
  BY <1>2, <1>3, FinishIs
<1> QED
  BY <1>1, <1>3, <1>4 DEF Digest

\* Between any two calls an open context is what its message makes of it, in
\* whatever pieces hash_block was given the message and however often the
\* context was copied.
THEOREM ContextCorrect == Spec => []StateIsOfMessage
  BY InitData, NextData, DataIsOfMessage, PTL DEF Spec

\* The digest that dstu_md_final would give is the hash of the whole message
\* with the box of the context.
THEOREM DigestCorrect == Spec => []DigestIsOfMessage
  BY InitData, NextData, DataGivesDigest, PTL DEF Spec
=============================================================================
