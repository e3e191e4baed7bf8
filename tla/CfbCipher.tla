------------------------------ MODULE CfbCipher ------------------------------
(***************************************************************************)
(* The DSTU GOST 28147:2009 stream cipher of engine/cipher.c: one          *)
(* EVP_CIPHER_CTX driven through the callbacks the engine registers.       *)
(*                                                                         *)
(* A context keeps the previous ciphertext block in `iv', the keystream    *)
(* block in `buf' and, in `num', how many bytes of `buf' are not used yet. *)
(* A data call (dstu_cipher_do_cipher) runs three loops: the HEAD uses up  *)
(* the keystream left by the previous call, the BLOCKS loop handles whole  *)
(* blocks with its own copy of the feedback register, the TAIL starts a    *)
(* new keystream block.  Every iteration is a step here, so the invariants *)
(* hold inside a call too.  The block cipher and the exclusive or of bytes *)
(* are constants: nothing depends on which permutation gostcrypt computes. *)
(*                                                                         *)
(* Input and output buffers are taken to be disjoint.                      *)
(***************************************************************************)
EXTENDS Integers, Sequences

CONSTANTS
  Byte,         (* byte values                                             *)
  ZeroByte,     (* what a zero-allocated context is filled with            *)
  Xor(_, _),    (* exclusive or of two bytes                               *)
  BS,           (* DSTU_CIPHER_BLOCK_SIZE, 8 in the code                   *)
  Key,          (* cipher keys                                             *)
  ZeroKey,      (* the key of a context that was never given one           *)
  Sbox,         (* substitution blocks                                     *)
  DefaultSbox,  (* default_sbox                                            *)
  E(_, _, _),   (* gostcrypt: key, sbox, block -> block                    *)
  None,         (* a NULL argument                                         *)
  IVs,          (* the IVs callers and ASN.1 parameters supply             *)
  Inputs,       (* the chunks of data callers supply                       *)
  MaxStream     (* bound: bytes processed under one key, sbox and IV       *)

Pos    == 0 .. BS - 1
Block  == [Pos -> Byte]
Params == [key : Key, sbox : Sbox, iv : Block]

ASSUME BlockSizeAssumption == BS \in Nat \ {0}
ASSUME ByteAssumption      == /\ ZeroByte \in Byte
                              /\ \A a, b \in Byte : Xor(a, b) \in Byte
                              /\ \A a, b \in Byte : Xor(Xor(a, b), b) = a
ASSUME KeyAssumption       == ZeroKey \in Key /\ DefaultSbox \in Sbox
ASSUME CipherAssumption    ==
  \A k \in Key, s \in Sbox, b \in Block : E(k, s, b) \in Block
ASSUME NoneAssumption      == None \notin Key /\ None \notin IVs /\ None \notin Params
ASSUME InputAssumption     == /\ IVs \subseteq Block
                              /\ Inputs \subseteq Seq(Byte)
                              /\ <<>> \notin Inputs
                              /\ MaxStream \in Nat

ZeroBlock == [j \in Pos |-> ZeroByte]

VARIABLES
  gctx,      (* gost_ctx: key and unpacked sbox                            *)
  oiv,       (* EVP_CIPHER_CTX_original_iv                                 *)
  iv,        (* EVP_CIPHER_CTX_iv: the feedback register                   *)
  buf,       (* EVP_CIPHER_CTX_buf: the keystream block                    *)
  num,       (* EVP_CIPHER_CTX_num: bytes of buf not used yet              *)
  enc,       (* EVP_CIPHER_CTX_encrypting                                  *)
  pc,        (* where the data call is; "idle" outside of one              *)
  inb,       (* in, inl: the input not read yet                            *)
  toUse,     (* to_use: keystream bytes the head loop takes                *)
  i,         (* loop index of the head and tail loops                      *)
  civ,       (* cur_iv of gost_enc_cfb and gost_dec_cfb                    *)
  out,       (* what the data call has written from out_start on           *)
  ret        (* the result of the last call                                *)

ctxVars  == <<gctx, oiv, iv, buf, num, enc>>
callVars == <<pc, inb, toUse, i, civ, out, ret>>

(***************************************************************************)
(* History: the stream the context is expected to be in.  A stream begins  *)
(* when a call sets the IV and the keystream together (`base' keeps the    *)
(* parameters), and it ends when a call changes the key, the sbox or the   *)
(* keystream offset under it (`base' is None).  The bytes of an open       *)
(* stream are kept as whole blocks (`done') and the first `fill' bytes of  *)
(* the block under way (`part').                                           *)
(***************************************************************************)
VARIABLES base, done, part, fill, asked

streamVars == <<base, done, part, fill>>
vars == <<ctxVars, callVars, streamVars, asked>>

Pair       == [p : Block, c : Block]
ZeroPair   == [p |-> ZeroBlock, c |-> ZeroBlock]
Open       == base # None
StreamLen  == Len(done) * BS + fill

\* The ciphertext block before block number q of the stream (from 1 on).
Prev(q) == IF q = 1 THEN base.iv ELSE done[q - 1].c

OpenStream(k, s, v) ==
  /\ base' = [key |-> k, sbox |-> s, iv |-> v]
  /\ done' = <<>> /\ part' = ZeroPair /\ fill' = 0

CloseStream ==
  /\ base' = None
  /\ done' = <<>> /\ part' = ZeroPair /\ fill' = 0

\* Byte number fill of the block under way is plain byte p, cipher byte c.
RecordByte(p, c) ==
  LET b == [p |-> [part.p EXCEPT ![fill] = p],
            c |-> [part.c EXCEPT ![fill] = c]]
  IN  \/ /\ ~Open
         /\ UNCHANGED streamVars
      \/ /\ Open /\ fill + 1 < BS
         /\ part' = b /\ fill' = fill + 1
         /\ UNCHANGED <<base, done>>
      \/ /\ Open /\ fill + 1 = BS
         /\ done' = Append(done, b) /\ part' = ZeroPair /\ fill' = 0
         /\ UNCHANGED base

RecordBlock(p, c) ==
  \/ ~Open /\ UNCHANGED streamVars
  \/ /\ Open
     /\ done' = Append(done, [p |-> p, c |-> c])
     /\ UNCHANGED <<base, part, fill>>

-----------------------------------------------------------------------------
(* dstu_cipher_init and dstu_cipher_cleanup                                *)

\* A context just after EVP_CipherInit_ex(ctx, cipher, engine, NULL, NULL):
\* zeroed by EVP, then dstu_cipher_init without a key or an IV.
Init ==
  /\ gctx = [key |-> ZeroKey, sbox |-> DefaultSbox]
  /\ oiv = ZeroBlock /\ iv = ZeroBlock /\ buf = ZeroBlock
  /\ num = 0 /\ enc \in BOOLEAN
  /\ pc = "idle" /\ inb = <<>> /\ toUse = 0 /\ i = 0
  /\ civ = ZeroBlock /\ out = <<>> /\ ret = 1
  /\ base = None /\ done = <<>> /\ part = ZeroPair /\ fill = 0 /\ asked = 0

\* The result of a call other than a data call.
Returns(r) ==
  /\ ret' = r /\ asked' = 0 /\ out' = <<>>
  /\ UNCHANGED <<pc, inb, toUse, i, civ>>

\* The sbox goes back to the default whatever the caller passes; without an
\* IV the register, the keystream and num stay as they are.
CipherInit(k, v, e) ==
  LET nk == IF k = None THEN gctx.key ELSE k
      ng == [key |-> nk, sbox |-> DefaultSbox]
  IN  /\ pc = "idle"
      /\ gctx' = ng
      /\ enc' = e
      /\ \/ /\ v # None
            /\ oiv' = v /\ iv' = v /\ num' = 0
            /\ buf' = E(nk, DefaultSbox, v)
            /\ OpenStream(nk, DefaultSbox, v)
         \/ /\ v = None
            /\ UNCHANGED <<oiv, iv, buf, num>>
            /\ IF ng = gctx THEN UNCHANGED streamVars ELSE CloseStream
      /\ Returns(1)

\* EVP_CIPHER_CTX_reset and a new EVP_CipherInit_ex(ctx, cipher, ...).
Cleanup(e) ==
  /\ pc = "idle"
  /\ gctx' = [key |-> ZeroKey, sbox |-> DefaultSbox]
  /\ oiv' = ZeroBlock /\ iv' = ZeroBlock /\ buf' = ZeroBlock
  /\ num' = 0 /\ enc' = e
  /\ CloseStream
  /\ Returns(1)

-----------------------------------------------------------------------------
(* dstu_cipher_ctrl and the ASN.1 parameters                               *)

\* DSTU_SET_CUSTOM_SBOX: back to the original IV, but num is left alone.
UseSbox(s, v) ==
  /\ gctx' = [gctx EXCEPT !.sbox = s]
  /\ iv' = v /\ buf' = E(gctx.key, s, v)
  /\ UNCHANGED <<num, enc>>
  /\ IF num = 0 THEN OpenStream(gctx.key, s, v) ELSE CloseStream

SetCustomSbox(s) ==
  /\ pc = "idle"
  /\ UseSbox(s, oiv)
  /\ UNCHANGED oiv
  /\ Returns(1)

\* Mutant: the IV of the parameters is set, but not kept as the original one.
GetAsn1ParametersOnce(v, s) ==
  /\ pc = "idle"
  /\ UNCHANGED oiv
  /\ UseSbox(s, v)
  /\ Returns(1)

\* dstu_cipher_get_asn1_parameters: IV and sbox from the parameters.
GetAsn1Parameters(v, s) ==
  /\ pc = "idle"
  /\ oiv' = v
  /\ UseSbox(s, v)
  /\ Returns(1)

\* A NULL or missized sbox, or parameters of the wrong shape.
Refused(r) ==
  /\ pc = "idle"
  /\ UNCHANGED <<ctxVars, streamVars>>
  /\ Returns(r)

RefusedCtrl == Refused(0)
RefusedAsn1Parameters == Refused(-1)

\* Mutant: the register instead of the original IV is published.
Asn1ParametersOfRegister == [iv |-> iv, sbox |-> gctx.sbox]

\* What dstu_cipher_set_asn1_parameters publishes.
Asn1Parameters == [iv |-> oiv, sbox |-> gctx.sbox]

-----------------------------------------------------------------------------
(* dstu_cipher_do_cipher                                                   *)

DoCipherNothing == \E r \in {0, -1} : Refused(r)

\* The size of the call is recorded before anything is read.
DoCipher(chunk) ==
  /\ pc = "idle"
  /\ StreamLen + Len(chunk) <= MaxStream
  /\ inb' = chunk /\ out' = <<>> /\ asked' = Len(chunk)
  /\ toUse' = IF num < Len(chunk) THEN num ELSE Len(chunk)
  /\ i' = 0 /\ civ' = iv
  /\ pc' = IF num > 0 THEN "head" ELSE "blocks"
  /\ UNCHANGED <<ctxVars, streamVars, ret>>

\* One byte x at position j of the block: output byte, feedback byte.
CryptByte(x, j) ==
  LET y == Xor(x, buf[j])
      c == IF enc THEN y ELSE x
      p == IF enc THEN x ELSE y
  IN  /\ iv' = [iv EXCEPT ![j] = c]
      /\ out' = Append(out, y)
      /\ RecordByte(p, c)

HeadByte ==
  /\ pc = "head" /\ i < toUse
  /\ CryptByte(Head(inb), BS - num + i)
  /\ inb' = Tail(inb) /\ i' = i + 1
  /\ UNCHANGED <<gctx, oiv, buf, num, enc, pc, toUse, civ, ret, asked>>

\* Mutant: the head loop uses a keystream block up and makes no new one.
HeadEndStale ==
  /\ pc = "head" /\ i = toUse
  /\ num' = num - toUse
  /\ pc' = "blocks" /\ civ' = iv
  /\ UNCHANGED <<gctx, oiv, iv, buf, enc, inb, toUse, i, out, ret, streamVars, asked>>

\* Mutant: the head loop forgets what a short call has left of the keystream.
HeadEndForgets ==
  /\ pc = "head" /\ i = toUse
  /\ num' = 0
  /\ buf' = E(gctx.key, gctx.sbox, iv)
  /\ pc' = "blocks" /\ civ' = iv
  /\ UNCHANGED <<gctx, oiv, iv, enc, inb, toUse, i, out, ret, streamVars, asked>>

HeadEnd ==
  /\ pc = "head" /\ i = toUse
  /\ num' = num - toUse
  /\ buf' = IF num' = 0 THEN E(gctx.key, gctx.sbox, iv) ELSE buf
  /\ pc' = "blocks" /\ civ' = iv
  /\ UNCHANGED <<gctx, oiv, iv, enc, inb, toUse, i, out, ret, streamVars, asked>>

\* One whole block of gost_enc_cfb or gost_dec_cfb: the keystream comes from
\* the loop's own register civ, buf is not looked at.
CfbBlock ==
  LET gamma == E(gctx.key, gctx.sbox, civ)
      x == [j \in Pos |-> inb[j + 1]]
      y == [j \in Pos |-> Xor(x[j], gamma[j])]
  IN  /\ pc \in {"blocks", "cfb"} /\ Len(inb) >= BS
      /\ civ' = IF enc THEN y ELSE x
      /\ RecordBlock(IF enc THEN x ELSE y, IF enc THEN y ELSE x)
      /\ inb' = SubSeq(inb, BS + 1, Len(inb))
      /\ out' = out \o [j \in 1 .. BS |-> y[j - 1]]
      /\ pc' = "cfb"
      /\ UNCHANGED <<ctxVars, toUse, i, ret, asked>>

\* After the loop the register is the last ciphertext block.
BlocksEnd ==
  /\ pc \in {"blocks", "cfb"} /\ Len(inb) < BS
  /\ \/ /\ pc = "cfb"
        /\ iv' = civ /\ buf' = E(gctx.key, gctx.sbox, civ)
     \/ /\ pc = "blocks"
        /\ UNCHANGED <<iv, buf>>
  /\ pc' = "tail" /\ i' = 0
  /\ UNCHANGED <<gctx, oiv, num, enc, inb, toUse, civ, out, ret, streamVars, asked>>

TailByte ==
  /\ pc = "tail" /\ inb # <<>>
  /\ CryptByte(Head(inb), i)
  /\ inb' = Tail(inb) /\ i' = i + 1
  /\ UNCHANGED <<gctx, oiv, buf, num, enc, pc, toUse, civ, ret, asked>>

\* Mutant: num is set even when there has been no tail.
DoCipherReturnAlways ==
  /\ pc = "tail" /\ inb = <<>>
  /\ num' = BS - i
  /\ ret' = Len(out)
  /\ pc' = "idle" /\ toUse' = 0 /\ i' = 0 /\ civ' = ZeroBlock
  /\ UNCHANGED <<gctx, oiv, iv, buf, enc, inb, out, streamVars, asked>>

DoCipherReturn ==
  /\ pc = "tail" /\ inb = <<>>
  /\ num' = IF i > 0 THEN BS - i ELSE num
  /\ ret' = Len(out)
  /\ pc' = "idle" /\ toUse' = 0 /\ i' = 0 /\ civ' = ZeroBlock
  /\ UNCHANGED <<gctx, oiv, iv, buf, enc, inb, out, streamVars, asked>>

-----------------------------------------------------------------------------
Setup ==
  \/ \E k \in Key \cup {None}, v \in IVs \cup {None}, e \in BOOLEAN : CipherInit(k, v, e)
  \/ \E e \in BOOLEAN : Cleanup(e)
  \/ \E s \in Sbox : SetCustomSbox(s)
  \/ \E v \in IVs, s \in Sbox : GetAsn1Parameters(v, s)
  \/ RefusedCtrl
  \/ RefusedAsn1Parameters

DoCipherStep ==
  HeadByte \/ HeadEnd \/ CfbBlock \/ BlocksEnd \/ TailByte \/ DoCipherReturn

Next ==
  \/ Setup
  \/ DoCipherNothing
  \/ \E chunk \in Inputs : DoCipher(chunk)
  \/ DoCipherStep

Spec == Init /\ [][Next]_vars

-----------------------------------------------------------------------------
(* Properties                                                              *)

CtxType ==
  /\ gctx \in [key : Key, sbox : Sbox]
  /\ oiv \in Block /\ iv \in Block /\ buf \in Block
  /\ num \in Pos /\ enc \in BOOLEAN

CallType ==
  /\ pc \in {"idle", "head", "blocks", "cfb", "tail"}
  /\ inb \in Seq(Byte) /\ toUse \in Pos /\ i \in Pos /\ civ \in Block
  /\ pc = "head" => i <= toUse /\ toUse <= num
  /\ pc = "tail" => i + Len(inb) < BS
  /\ out \in Seq(Byte) /\ ret \in Int /\ asked \in Nat

StreamType ==
  /\ base \in Params \cup {None}
  /\ done \in Seq(Pair) /\ part \in Pair /\ fill \in Pos

\* Every buffer holds a block, num never reaches the block size and every
\* position the loops of do_cipher index lies inside a block.
TypeOK == CtxType /\ CallType /\ StreamType

\* The first n bytes of block b are the CFB encryption after block prev.
CfbBytes(prev, b, n) ==
  \A j \in 0 .. n - 1 :
    b.c[j] = Xor(b.p[j], E(base.key, base.sbox, prev)[j])

\* However the data is cut into calls, in whichever direction each of them
\* works, the bytes of an open stream are the CFB mode of the standard under
\* the key, sbox and IV it was opened with: C[q] = P[q] xor E(C[q-1]).
StreamIsCfb ==
  Open => /\ \A q \in 1 .. Len(done) : CfbBytes(Prev(q), done[q], BS)
          /\ CfbBytes(Prev(Len(done) + 1), part, fill)

\* A data call that was given inl bytes returns inl, and leaves as many
\* unused keystream bytes as the stream needs to complete its block.
CallsAddUp ==
  pc = "idle" => /\ asked > 0 => ret = asked
                 /\ Open => num = IF fill = 0 THEN 0 ELSE BS - fill

\* The ASN.1 parameters a context publishes at any point of a stream are
\* those the stream started from, so that a receiver can start it again.
ParametersRestartStream ==
  Open => Asn1Parameters = [iv |-> base.iv, sbox |-> base.sbox]

\* The keystream in a context that is between two calls is always that of
\* the key and sbox in the context and of the register at a block boundary.
KeystreamFresh ==
  Open /\ pc = "idle" =>
    buf = E(gctx.key, gctx.sbox, Prev(Len(done) + 1))
=============================================================================
