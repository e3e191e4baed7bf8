------------------------------- MODULE Gost89 -------------------------------
(***************************************************************************)
(* The block cipher of dstulib/gost/gost89.c, and how dstulib/params.c     *)
(* packs its substitution block.                                           *)
(*                                                                         *)
(* A word is a number below W (2^32) and, at the same time, Digits digits  *)
(* (8 of 4 bits) that are substituted one by one, and BytesPerWord bytes.  *)
(* Words, digits and bytes are counted from the low end.  The rounds are   *)
(* unrolled as in the code, which swaps the names of the halves in every   *)
(* other round: a round of one kind changes n2, one of the other n1.       *)
(***************************************************************************)
EXTENDS Positional

CONSTANTS
  W,                      (* words, 2^32                                   *)
  Shift, Rest,            (* 2^11 and 2^21: rotation by 11 bits            *)
  Radix, Digits,          (* 16 and 8                                      *)
  ByteSize, BytesPerWord, (* 256 and 4                                     *)
  WordXor(_, _)           (* exclusive or of two words                     *)

Word     == 0 .. W - 1
Digit    == 0 .. Radix - 1
KeyIndex == 0 .. 7
KeyWords == [KeyIndex -> Word]

ASSUME RotationAssumption ==
  Shift \in Nat \ {0} /\ Rest \in Nat \ {0} /\ W = Shift * Rest
ASSUME WordAssumption ==
  /\ Radix \in Nat \ {0} /\ Radix % 2 = 0 /\ Digits \in Nat \ {0}
  /\ ByteSize \in Nat \ {0} /\ BytesPerWord \in Nat \ {0}
  /\ W = Power(Radix)[Digits] /\ W = Power(ByteSize)[BytesPerWord]
ASSUME WordXorAssumption ==
  \A a, b \in Word : WordXor(a, b) \in Word /\ WordXor(WordXor(a, b), b) = a

\* The halves of a block, as they are named in the code.
Halves == [n1 : Word, n2 : Word]

-----------------------------------------------------------------------------
(* Substitution blocks: packed two digits to a byte, unpacked, and expanded *)
(* into a table of words.                                                   *)

SubstBlock == [0 .. Digits - 1 -> [Digit -> Digit]]
Row        == Radix \div 2
PackedSize == Digits * Row

unpack_sbox(packed) ==
  [n \in 0 .. Digits - 1 |->
    [v \in Digit |->
      LET b == packed[n * Row + v \div 2]
      IN  IF v % 2 = 0 THEN b \div Radix ELSE b % Radix]]

pack_sbox(sbox) ==
  [n \in 0 .. PackedSize - 1 |->
    LET row == sbox[n \div Row]
        v   == 2 * (n % Row)
    IN  Radix * row[v] + row[v + 1]]

DigitOf(x, n) == DigitAt(Radix, x, n)

\* The word of the m digits d[0], d[1], ..., the lowest one first.
WordOf(base, d, m) == NumberOf(base, [n \in 1 .. m |-> d[m - n]], m)

\* The tables k87, k65, k43 and k21 in one.
kboxinit(sbox) ==
  [x \in Word |-> WordOf(Radix, [n \in 0 .. Digits - 1 |-> sbox[n][DigitOf(x, n)]], Digits)]

\* Every word with the digit v at n has the same digit there in the table.
dstu_get_sbox(k) ==
  [n \in 0 .. Digits - 1 |-> [v \in Digit |-> DigitOf(k[v * Power(Radix)[n]], n)]]

-----------------------------------------------------------------------------
(* gost_ctx                                                                *)

Context == [key : KeyWords, mask : KeyWords, k : [Word -> Word]]

\* No caller in the engine passes NULL for the test block.
gost_init(c, sbox) == [c EXCEPT !.k = kboxinit(sbox)]

gost_key_impl(key, mask) == [n \in KeyIndex |-> (key[n] - mask[n]) % W]

\* The mask is what RAND_priv_bytes has left there, whether it failed or not.
gost_key(c, key, mask) == [c EXCEPT !.mask = mask, !.key = gost_key_impl(key, mask)]

NoMask == [n \in KeyIndex |-> 0]

gost_key_nomask(c, key) == gost_key(c, key, NoMask)

gost_get_key(c) == [n \in KeyIndex |-> (c.key[n] + c.mask[n]) % W]

-----------------------------------------------------------------------------
(* gostcrypt and gostdecrypt                                               *)

f(c, x) ==
  LET y == c.k[x]
  IN  (y % Rest) * Shift + (y \div Rest)

RoundInput(c, n, x) == (x + c.key[n] + c.mask[n]) % W

Even(c, n, b) ==
  [n1 |-> b.n1, n2 |-> WordXor(b.n2, f(c, RoundInput(c, n, b.n1)))]
Odd(c, n, b)  ==
  [n1 |-> WordXor(b.n1, f(c, RoundInput(c, n, b.n2))), n2 |-> b.n2]

\* Eight rounds with the words of the key from first to last and back.
Up(c, b) ==
  Odd(c, 7, Even(c, 6, Odd(c, 5, Even(c, 4, Odd(c, 3, Even(c, 2, Odd(c, 1, Even(c, 0, b))))))))
Down(c, b) ==
  Odd(c, 0, Even(c, 1, Odd(c, 2, Even(c, 3, Odd(c, 4, Even(c, 5, Odd(c, 6, Even(c, 7, b))))))))

\* n2 is written first.
Swapped(b) == [n1 |-> b.n2, n2 |-> b.n1]

Encrypt(c, b) == Swapped(Down(c, Up(c, Up(c, Up(c, b)))))
Decrypt(c, b) == Swapped(Down(c, Down(c, Down(c, Up(c, b)))))

BlockSize == 2 * BytesPerWord

LoadBlock(bytes) ==
  LET word(from) ==
        WordOf(ByteSize, [n \in 0 .. BytesPerWord - 1 |-> bytes[from + n]], BytesPerWord)
  IN  [n1 |-> word(0), n2 |-> word(BytesPerWord)]

StoreBlock(b) ==
  [n \in 0 .. BlockSize - 1 |->
    IF n < BytesPerWord THEN DigitAt(ByteSize, b.n1, n)
                        ELSE DigitAt(ByteSize, b.n2, n - BytesPerWord)]

gostcrypt(c, in)   == StoreBlock(Encrypt(c, LoadBlock(in)))
gostdecrypt(c, in) == StoreBlock(Decrypt(c, LoadBlock(in)))

\* Several blocks, one after the other.
gost_enc(c, clear)  == [n \in DOMAIN clear |-> gostcrypt(c, clear[n])]
gost_dec(c, cipher) == [n \in DOMAIN cipher |-> gostdecrypt(c, cipher[n])]
=============================================================================
