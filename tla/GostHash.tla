------------------------------ MODULE GostHash ------------------------------
(***************************************************************************)
(* The streaming hash of dstulib/gost/gosthash.c: a context takes a        *)
(* message in pieces of any length, hashes every full block at once and    *)
(* keeps the rest in a buffer.  The compression function is a constant;    *)
(* buffering, checksum, length and padding are those of the code.          *)
(* The blocks have BS bytes and a byte B values, instead of 32 and 256.    *)
(***************************************************************************)
EXTENDS Positional, Sequences

CONSTANTS
  B,                  (* values of a byte                                  *)
  Bits,               (* bits of a byte: the shift of fin_len              *)
  BS,                 (* bytes of a block                                  *)
  HashStep(_, _, _),  (* hash_step: the next H from sbox, H and block      *)
  ZeroH               (* H of an empty context                             *)

ASSUME SizeAssumption == B \in Nat \ {0, 1} /\ BS \in Nat \ {0} /\ Bits \in Nat \ {0}

Byte      == 0 .. B - 1
Block     == [1 .. BS -> Byte]
ZeroBlock == [i \in 1 .. BS |-> 0]

\* A context, without the cipher it points to.
EmptyCtx == [len |-> 0, left |-> 0, H |-> ZeroH, S |-> ZeroBlock, remainder |-> ZeroBlock]

\* Mutant: the carries are lost.
AddBlocksNoCarry(l, r) == [i \in 1 .. BS |-> (l[i] + r[i]) % B]

\* add_blocks: byte by byte with a carry, the last carry is dropped.
AddBlocks(l, r) ==
  LET carry[i \in 0 .. BS] == IF i = 0 THEN 0 ELSE (l[i] + r[i] + carry[i - 1]) \div B
  IN  [i \in 1 .. BS |-> (l[i] + r[i] + carry[i - 1]) % B]

\* One block through hash_step and add_blocks.
Absorb(box, x, block) ==
  [x EXCEPT !.H = HashStep(box, @, block), !.S = AddBlocks(@, block), !.len = @ + BS]

\* The n bytes of q from position p on.
Slice(q, p, n) == SubSeq(q, p, p + n - 1)

\* q over the first bytes of a block: memcpy(remainder + at, q, Len(q)).
Copied(block, at, q) ==
  [i \in 1 .. BS |-> IF i > at /\ i <= at + Len(q) THEN q[i - at] ELSE block[i]]

\* The loop over full blocks and the rest that is kept.
HashRest(box, x, q) ==
  LET n    == Len(q) \div BS
      rest == Slice(q, n * BS + 1, Len(q) % BS)
      y[k \in 0 .. n] == IF k = 0 THEN x ELSE Absorb(box, y[k - 1], Slice(q, (k - 1) * BS + 1, BS))
  IN  IF rest = <<>> THEN y[n]
                     ELSE [y[n] EXCEPT !.remainder = Copied(@, 0, rest), !.left = Len(rest)]

HashBlock(box, x, q) ==
  LET add    == IF BS - x.left > Len(q) THEN Len(q) ELSE BS - x.left
      filled == [x EXCEPT !.remainder = Copied(@, x.left, Slice(q, 1, add)), !.left = @ + add]
  IN  IF x.left = 0 THEN HashRest(box, x, q)
      ELSE IF filled.left < BS THEN filled
      ELSE HashRest(box, [Absorb(box, filled, filled.remainder) EXCEPT !.left = 0],
                    Slice(q, add + 1, Len(q) - add))

\* A number as a block, least significant byte first.
Bytes(n) == [i \in 1 .. BS |-> DigitAt(B, n, i - 1)]

\* The message length in bits.
LengthBlock(n) == Bytes(Bits * n)

\* Mutant: no zero block for the empty message.
FinishHashNoPadding(box, x) ==
  LET padded == [i \in 1 .. BS |-> IF i <= x.left THEN x.remainder[i] ELSE 0]
      y      == IF x.left = 0 THEN x ELSE Absorb(box, x, padded)
  IN  HashStep(box, HashStep(box, y.H, LengthBlock(x.len + x.left)), y.S)

\* finish_hash works on copies of H and S.
FinishHash(box, x) ==
  LET padded == [i \in 1 .. BS |-> IF i <= x.left THEN x.remainder[i] ELSE 0]
      y      == IF x.left = 0 THEN x ELSE Absorb(box, x, padded)
      len    == x.len + x.left
      H      == IF len = 0 THEN HashStep(box, y.H, ZeroBlock) ELSE y.H
  IN  HashStep(box, HashStep(box, H, LengthBlock(len)), y.S)

-----------------------------------------------------------------------------
(* What the hash of a message is, the message taken as a whole: the blocks *)
(* padded with zeros, one block if there is none, the length, and the sum  *)
(* of all blocks as numbers modulo B ^ BS.                                 *)

Number(block) == NumberOf(B, [i \in 1 .. BS |-> block[BS - i + 1]], BS)

\* The k-th block of m, as far as m goes.
NthBlock(m, k) == [i \in 1 .. BS |-> LET p == (k - 1) * BS + i IN IF p <= Len(m) THEN m[p] ELSE 0]

\* H after the first n blocks of m, and their sum.
HAfter(box, m, n) ==
  LET h[k \in Nat] == IF k = 0 THEN ZeroH ELSE HashStep(box, h[k - 1], NthBlock(m, k)) IN h[n]
Total(m, n) ==
  LET s[k \in Nat] == IF k = 0 THEN 0 ELSE s[k - 1] + Number(NthBlock(m, k)) IN s[n]
SumOf(m, n) == Bytes(Total(m, n))

Hash(box, m) ==
  LET n == (Len(m) + BS - 1) \div BS
      h == IF m = <<>> THEN HashStep(box, ZeroH, ZeroBlock) ELSE HAfter(box, m, n)
  IN  HashStep(box, HashStep(box, h, LengthBlock(Len(m))), SumOf(m, n))
=============================================================================
