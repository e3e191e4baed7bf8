-------------------------- MODULE CfbCipher_proofs --------------------------
(* Proofs about CfbCipher, for every block size, byte, key and sbox set,   *)
(* every block cipher E and every set of chunks a caller may supply, and   *)
(* about CipherTransfer, for every stream length besides.                  *)
EXTENDS CipherTransfer, SequenceTheorems, TLAPS

\* What the loops of do_cipher rely on, whether or not a stream is open: the
\* head has the input it is going to take, the bytes written and the bytes
\* left make up the bytes asked for.
Control ==
  /\ pc = "head" => /\ num > 0 /\ toUse - i <= Len(inb)
                    /\ toUse < num => Len(inb) = toUse - i
  /\ pc = "idle" => inb = <<>> /\ (asked > 0 => ret = asked)
  /\ pc # "idle" => asked = Len(out) + Len(inb)

TypeInv == TypeOK /\ Control

-----------------------------------------------------------------------------
USE BlockSizeAssumption

LEMMA ConstantsType ==
  /\ ZeroBlock \in Block /\ ZeroPair \in Pair
  /\ ZeroKey \in Key /\ DefaultSbox \in Sbox
  /\ \A a, b \in Byte : Xor(a, b) \in Byte
  /\ \A k \in Key, s \in Sbox, b \in Block : E(k, s, b) \in Block
  /\ 0 \in Pos
<1>1. ZeroBlock \in Block /\ ZeroPair \in Pair
  BY ByteAssumption DEF ZeroBlock, ZeroPair, Block, Pair
<1>2. \A a, b \in Byte : Xor(a, b) \in Byte
  BY ByteAssumption
<1>3. 0 \in Pos
  BY DEF Pos
<1> QED
  BY <1>1, <1>2, <1>3, KeyAssumption, CipherAssumption

\* Dropping the first n elements of a long enough sequence.
LEMMA DropType ==
  ASSUME NEW S, NEW s \in Seq(S), NEW n \in Nat, n <= Len(s)
  PROVE  /\ SubSeq(s, n + 1, Len(s)) \in Seq(S)
         /\ Len(SubSeq(s, n + 1, Len(s))) = Len(s) - n
BY SubSeqProperties

LEMMA RecordByteType ==
  ASSUME StreamType, NEW p \in Byte, NEW c \in Byte, RecordByte(p, c)
  PROVE  StreamType'
<1> DEFINE b == [p |-> [part.p EXCEPT ![fill] = p],
                 c |-> [part.c EXCEPT ![fill] = c]]
<1>1. b \in Pair
  BY DEF StreamType, Pair, Block
<1>2. CASE UNCHANGED streamVars
  BY <1>2 DEF StreamType, streamVars
<1>3. CASE part' = b /\ fill' = fill + 1 /\ fill + 1 < BS /\ UNCHANGED <<base, done>>
  BY <1>1, <1>3 DEF StreamType, Pos
<1>4. CASE done' = Append(done, b) /\ part' = ZeroPair /\ fill' = 0 /\ UNCHANGED base
  BY <1>1, <1>4, ConstantsType DEF StreamType
<1> QED
  BY <1>2, <1>3, <1>4 DEF RecordByte

LEMMA CryptByteType ==
  ASSUME TypeOK, NEW x \in Byte, NEW j \in Pos, CryptByte(x, j)
  PROVE  /\ iv' \in Block /\ StreamType'
         /\ out' \in Seq(Byte) /\ Len(out') = Len(out) + 1
<1> DEFINE y == Xor(x, buf[j])
           c == IF enc THEN y ELSE x
           p == IF enc THEN x ELSE y
<1>1. p \in Byte /\ c \in Byte
  BY ConstantsType DEF TypeOK, CtxType, Block
<1>2. RecordByte(p, c) /\ iv' = [iv EXCEPT ![j] = c]
  BY DEF CryptByte
<1>3. iv' \in Block
  BY <1>1, <1>2 DEF TypeOK, CtxType, Block
<1>4. out' \in Seq(Byte) /\ Len(out') = Len(out) + 1
  <2>1. out' = Append(out, y) /\ y \in Byte /\ out \in Seq(Byte)
    BY ConstantsType DEF CryptByte, TypeOK, CtxType, CallType, Block
  <2> QED
    BY <2>1
<1> QED
  BY <1>1, <1>2, <1>3, <1>4, RecordByteType DEF TypeOK

-----------------------------------------------------------------------------
(* Type correctness: one lemma per operation.                              *)

\* A call outside of do_cipher leaves the data call alone.
LEMMA ReturnsType ==
  ASSUME TypeInv, pc = "idle", NEW r \in Int, Returns(r)
  PROVE  CallType' /\ Control'
<1>1. /\ pc' = "idle" /\ inb' = inb /\ toUse' = toUse /\ i' = i /\ civ' = civ
      /\ ret' = r /\ asked' = 0 /\ out' = <<>>
  BY DEF Returns
<1>2. CallType'
  BY <1>1 DEF TypeInv, TypeOK, CallType
<1>3. Control'
  BY <1>1 DEF TypeInv, Control
<1> QED
  BY <1>2, <1>3

LEMMA OpenStreamType ==
  ASSUME NEW k \in Key, NEW s \in Sbox, NEW v \in Block, OpenStream(k, s, v)
  PROVE  StreamType'
BY ConstantsType DEF OpenStream, StreamType, Params

LEMMA CloseStreamType == StreamType /\ CloseStream => StreamType'
BY ConstantsType DEF CloseStream, StreamType

LEMMA SetupType == TypeInv /\ Setup => TypeInv'
<1> SUFFICES ASSUME TypeInv, Setup PROVE TypeInv'
  OBVIOUS
<1>0. CtxType /\ StreamType
  BY DEF TypeInv, TypeOK
<1> USE ConstantsType DEF TypeInv, TypeOK
<1>1. ASSUME NEW k \in Key \cup {None}, NEW v \in IVs \cup {None}, NEW e \in BOOLEAN,
             CipherInit(k, v, e)
      PROVE  TypeInv'
  <2> DEFINE nk == IF k = None THEN gctx.key ELSE k
  <2>1. nk \in Key
    BY <1>0 DEF CtxType
  <2>2. /\ pc = "idle" /\ enc' = e /\ Returns(1)
        /\ gctx' = [key |-> nk, sbox |-> DefaultSbox]
    BY <1>1 DEF CipherInit
  <2>3. CallType' /\ Control'
    BY <2>2, ReturnsType
  <2>4. CASE /\ v # None /\ oiv' = v /\ iv' = v /\ num' = 0
             /\ buf' = E(nk, DefaultSbox, v)
             /\ OpenStream(nk, DefaultSbox, v)
    <3>1. v \in Block
      BY <2>4, InputAssumption
    <3>2. CtxType'
      BY <2>1, <2>2, <2>4, <3>1 DEF CtxType
    <3> QED
      BY <2>1, <2>3, <2>4, <3>1, <3>2, OpenStreamType
  <2>5. CASE UNCHANGED <<oiv, iv, buf, num>> /\ (CloseStream \/ UNCHANGED streamVars)
    <3>1. CtxType'
      BY <1>0, <2>1, <2>2, <2>5 DEF CtxType
    <3>2. StreamType'
      BY <1>0, <2>5, CloseStreamType DEF StreamType, streamVars
    <3> QED
      BY <2>3, <3>1, <3>2
  <2> QED
    BY <1>1, <2>4, <2>5 DEF CipherInit
<1>2. ASSUME NEW e \in BOOLEAN, Cleanup(e) PROVE TypeInv'
  <2>1. CtxType'
    BY <1>2 DEF Cleanup, CtxType
  <2> QED
    BY <1>0, <1>2, <2>1, ReturnsType, CloseStreamType DEF Cleanup
<1>3. ASSUME NEW s \in Sbox, NEW v \in Block, UseSbox(s, v), pc = "idle",
             oiv' \in Block, Returns(1)
      PROVE  TypeInv'
  <2>1. CtxType'
    BY <1>0, <1>3 DEF UseSbox, CtxType
  <2>2. gctx.key \in Key
    BY <1>0 DEF CtxType
  <2>3. StreamType'
    BY <1>0, <1>3, <2>2, OpenStreamType, CloseStreamType DEF UseSbox
  <2> QED
    BY <1>3, <2>1, <2>3, ReturnsType
<1>4. ASSUME NEW s \in Sbox, SetCustomSbox(s) PROVE TypeInv'
  BY <1>0, <1>3, <1>4 DEF SetCustomSbox, CtxType
<1>5. ASSUME NEW v \in IVs, NEW s \in Sbox, GetAsn1Parameters(v, s) PROVE TypeInv'
  <2>1. v \in Block
    BY InputAssumption
  <2> QED
    BY <1>3, <1>5, <2>1 DEF GetAsn1Parameters
<1>6. ASSUME NEW r \in {0, -1}, Refused(r) PROVE TypeInv'
  BY <1>0, <1>6, ReturnsType DEF Refused, ctxVars, streamVars, CtxType, StreamType
<1> QED
  BY <1>1, <1>2, <1>4, <1>5, <1>6 DEF Setup, RefusedCtrl, RefusedAsn1Parameters

LEMMA DoCipherType ==
  ASSUME TypeInv, NEW chunk \in Seq(Byte), chunk # <<>>, DoCipher(chunk)
  PROVE  TypeInv'
<1>1. chunk \in Seq(Byte) /\ chunk # <<>> /\ Len(chunk) \in Nat /\ Len(chunk) > 0
  OBVIOUS
<1>2. CtxType' /\ StreamType'
  BY DEF TypeInv, TypeOK, DoCipher, CtxType, StreamType, ctxVars, streamVars
<1>3. toUse' \in Pos /\ i' \in Pos /\ civ' \in Block
  BY <1>1 DEF TypeInv, TypeOK, CtxType, DoCipher, Pos
<1>4. CallType'
  BY <1>1, <1>3 DEF TypeInv, TypeOK, CtxType, CallType, DoCipher, Pos, ctxVars
<1>5. Control'
  BY <1>1 DEF TypeInv, TypeOK, CtxType, Control, DoCipher, Pos, ctxVars
<1> QED
  BY <1>2, <1>4, <1>5 DEF TypeInv, TypeOK

LEMMA HeadByteType == TypeInv /\ HeadByte => TypeInv'
<1> SUFFICES ASSUME TypeInv, HeadByte PROVE TypeInv'
  OBVIOUS
<1> USE DEF TypeInv, TypeOK
<1>1. /\ num \in Nat /\ num > 0 /\ num < BS
      /\ toUse \in Nat /\ i \in Nat /\ i < toUse /\ toUse <= num
      /\ toUse - i <= Len(inb) /\ inb \in Seq(Byte)
  BY DEF CtxType, CallType, Control, HeadByte, Pos
<1>2. inb # <<>> /\ Head(inb) \in Byte /\ Tail(inb) \in Seq(Byte) /\ Len(Tail(inb)) = Len(inb) - 1
  BY <1>1, HeadTailProperties
<1>3. BS - num + i \in Pos /\ i + 1 \in Pos
  BY <1>1 DEF Pos
<1>4. iv' \in Block /\ StreamType' /\ out' \in Seq(Byte) /\ Len(out') = Len(out) + 1
  BY <1>2, <1>3, CryptByteType DEF HeadByte
<1>5. CtxType'
  BY <1>4 DEF CtxType, HeadByte
<1>6. CallType'
  BY <1>1, <1>2, <1>3, <1>4 DEF CallType, HeadByte
<1>7. Control'
  BY <1>1, <1>2, <1>4 DEF Control, CallType, HeadByte
<1> QED
  BY <1>4, <1>5, <1>6, <1>7

LEMMA HeadEndType == TypeInv /\ HeadEnd => TypeInv'
<1> SUFFICES ASSUME TypeInv, HeadEnd PROVE TypeInv'
  OBVIOUS
<1> USE DEF TypeInv, TypeOK
<1>1. num' \in Pos /\ buf' \in Block
  BY ConstantsType DEF CtxType, CallType, HeadEnd, Pos
<1>2. CtxType' /\ StreamType'
  BY <1>1 DEF CtxType, StreamType, HeadEnd, streamVars
<1>3. CallType'
  BY DEF CtxType, CallType, HeadEnd
<1>4. Control'
  BY DEF Control, HeadEnd
<1> QED
  BY <1>2, <1>3, <1>4

LEMMA CfbBlockType == TypeInv /\ CfbBlock => TypeInv'
<1> SUFFICES ASSUME TypeInv, CfbBlock PROVE TypeInv'
  OBVIOUS
<1> DEFINE gamma == E(gctx.key, gctx.sbox, civ)
           x == [j \in Pos |-> inb[j + 1]]
           y == [j \in Pos |-> Xor(x[j], gamma[j])]
           rest == SubSeq(inb, BS + 1, Len(inb))
           block == [j \in 1 .. BS |-> y[j - 1]]
<1> USE DEF TypeInv, TypeOK
<1>1. gamma \in Block
  BY ConstantsType DEF CtxType, CallType
<1>2. x \in Block
  BY DEF CallType, CfbBlock, Block, Pos
<1>3. y \in Block
  BY <1>1, <1>2, ConstantsType DEF Block
<1>4. rest \in Seq(Byte) /\ Len(rest) = Len(inb) - BS
  BY DropType DEF CallType, CfbBlock
<1>5. /\ civ' = (IF enc THEN y ELSE x) /\ inb' = rest /\ pc' = "cfb"
      /\ out' = out \o block
      /\ RecordBlock(IF enc THEN x ELSE y, IF enc THEN y ELSE x)
      /\ UNCHANGED <<ctxVars, toUse, i, ret, asked>> /\ pc # "idle"
  BY DEF CfbBlock
<1>0. out' \in Seq(Byte) /\ Len(out') = Len(out) + BS
  <2>1. block \in Seq(Byte) /\ Len(block) = BS
    <3>1. block \in [1 .. BS -> Byte]
      BY <1>3 DEF Block, Pos
    <3> QED
      BY <3>1
  <2> QED
    BY <1>5, <2>1, ConcatProperties DEF CallType
<1> HIDE DEF gamma, x, y, rest, block
<1>6. StreamType'
  <2> DEFINE b == [p |-> IF enc THEN x ELSE y, c |-> IF enc THEN y ELSE x]
  <2>1. b \in Pair
    BY <1>2, <1>3 DEF Pair
  <2>2. CASE UNCHANGED streamVars
    BY <2>2 DEF StreamType, streamVars
  <2>3. CASE done' = Append(done, b) /\ UNCHANGED <<base, part, fill>>
    BY <2>1, <2>3 DEF StreamType
  <2> QED
    BY <1>5, <2>2, <2>3 DEF RecordBlock
<1>7. CtxType'
  BY <1>5 DEF CtxType, ctxVars
<1>8. CallType'
  BY <1>0, <1>2, <1>3, <1>4, <1>5 DEF CallType
<1>9. Control'
  <2>1. asked = Len(out) + Len(inb) /\ asked' = asked /\ pc' = "cfb"
    BY <1>5 DEF Control
  <2>2. Len(out) \in Nat /\ Len(inb) \in Nat
    BY DEF CallType
  <2>3. inb' = rest
    BY <1>5
  <2>4. asked' = Len(out') + Len(inb')
    BY <1>0, <1>4, <2>1, <2>2, <2>3
  <2> QED
    BY <2>1, <2>4 DEF Control
<1> QED
  BY <1>6, <1>7, <1>8, <1>9

LEMMA BlocksEndType == TypeInv /\ BlocksEnd => TypeInv'
<1> SUFFICES ASSUME TypeInv, BlocksEnd PROVE TypeInv'
  OBVIOUS
<1> USE DEF TypeInv, TypeOK
<1>1. iv' \in Block /\ buf' \in Block
  BY ConstantsType DEF CtxType, CallType, BlocksEnd
<1>2. CtxType' /\ StreamType'
  BY <1>1 DEF CtxType, StreamType, BlocksEnd, streamVars
<1>3. CallType' /\ Control'
  BY ConstantsType DEF CallType, Control, BlocksEnd
<1> QED
  BY <1>2, <1>3

LEMMA TailByteType == TypeInv /\ TailByte => TypeInv'
<1> SUFFICES ASSUME TypeInv, TailByte PROVE TypeInv'
  OBVIOUS
<1> USE DEF TypeInv, TypeOK
<1>1. inb \in Seq(Byte) /\ inb # <<>> /\ i \in Nat /\ i + Len(inb) < BS
  BY DEF CallType, TailByte, Pos
<1>2. Head(inb) \in Byte /\ Tail(inb) \in Seq(Byte) /\ Len(Tail(inb)) = Len(inb) - 1 /\ Len(inb) > 0
  BY <1>1, HeadTailProperties
<1>3. i \in Pos /\ i + 1 \in Pos
  BY <1>1, <1>2 DEF Pos
<1>4. iv' \in Block /\ StreamType' /\ out' \in Seq(Byte) /\ Len(out') = Len(out) + 1
  BY <1>2, <1>3, CryptByteType DEF TailByte
<1>5. CtxType'
  BY <1>4 DEF CtxType, TailByte
<1>6. CallType'
  BY <1>1, <1>2, <1>3, <1>4 DEF CallType, TailByte
<1>7. Control'
  BY <1>1, <1>2, <1>4 DEF CallType, Control, TailByte
<1> QED
  BY <1>4, <1>5, <1>6, <1>7

LEMMA DoCipherReturnType == TypeInv /\ DoCipherReturn => TypeInv'
<1> SUFFICES ASSUME TypeInv, DoCipherReturn PROVE TypeInv'
  OBVIOUS
<1> USE DEF TypeInv, TypeOK
<1>1. num' \in Pos
  BY DEF CtxType, CallType, DoCipherReturn, Pos
<1>2. CtxType' /\ StreamType'
  BY <1>1 DEF CtxType, StreamType, DoCipherReturn, streamVars
<1>3. CallType' /\ Control'
  BY ConstantsType DEF CallType, Control, DoCipherReturn
<1> QED
  BY <1>2, <1>3

LEMMA NextType == TypeInv /\ [Next]_vars => TypeInv'
<1> SUFFICES ASSUME TypeInv, [Next]_vars PROVE TypeInv'
  OBVIOUS
<1>1. ASSUME DoCipherNothing PROVE TypeInv'
  BY <1>1, ReturnsType DEF DoCipherNothing, Refused, ctxVars, streamVars, TypeInv, TypeOK, CtxType, StreamType
<1>2. CASE UNCHANGED vars
  BY <1>2 DEF vars, ctxVars, callVars, streamVars, TypeInv, TypeOK, CtxType, CallType, StreamType, Control
<1>3. ASSUME NEW chunk \in Inputs, DoCipher(chunk) PROVE TypeInv'
  BY <1>3, InputAssumption, DoCipherType
<1> QED
  BY <1>1, <1>2, <1>3, SetupType, HeadByteType, HeadEndType, CfbBlockType,
     BlocksEndType, TailByteType, DoCipherReturnType DEF Next, DoCipherStep

\* Whatever calls a caller makes, in whatever order, no loop of the cipher
\* indexes a block outside its bounds and every buffer holds a block.
THEOREM TypeCorrect == Spec => []TypeOK
<1>1. Init => TypeInv
  <2> SUFFICES ASSUME Init PROVE TypeInv
    OBVIOUS
  <2>1. CtxType
    BY ConstantsType DEF Init, CtxType
  <2>2. CallType /\ Control
    BY ConstantsType DEF Init, CallType, Control
  <2>3. StreamType
    BY ConstantsType DEF Init, StreamType
  <2> QED
    BY <2>1, <2>2, <2>3 DEF TypeInv, TypeOK
<1>2. TypeInv => TypeOK
  BY DEF TypeInv
<1> QED
  BY <1>1, <1>2, NextType, PTL DEF Spec

-----------------------------------------------------------------------------
(* The stream is CFB.                                                      *)

\* The ciphertext block before the one under way, and its keystream.
Cur == Prev(Len(done) + 1)
Gamma == E(base.key, base.sbox, Cur)

\* The context still has the parameters the stream was opened with.
Synced == gctx = [key |-> base.key, sbox |-> base.sbox] /\ oiv = base.iv

UnusedOf(n) == IF n = 0 THEN 0 ELSE BS - n

\* num, or the loop indexes, agree with the position in the stream.
Aligned ==
  /\ pc = "idle"   => num = UnusedOf(fill)
  /\ pc = "head"   => fill = IF i < num THEN BS - num + i ELSE 0
  /\ pc = "blocks" => /\ num = UnusedOf(fill) /\ civ = iv
                      /\ inb # <<>> => fill = 0
  /\ pc = "cfb"    => num = 0 /\ fill = 0 /\ civ = Cur
  /\ pc = "tail"   => IF i > 0 \/ inb # <<>> THEN num = 0 /\ fill = i
                                             ELSE num = UnusedOf(fill)

\* The register holds the block before, overwritten by the bytes under way.
\* Inside the blocks loop the loop's own register stands for it.
Register ==
  pc # "cfb" => /\ \A j \in 0 .. fill - 1 : iv[j] = part.c[j]
                /\ fill = 0 => iv = Cur

\* The keystream is fresh except in the blocks loop and between the last
\* byte of the head and the encryption that follows it.
Keystream == pc # "cfb" /\ ~(pc = "head" /\ i = num) => buf = Gamma

IsCfb ==
  /\ \A q \in 1 .. Len(done) : CfbBytes(Prev(q), done[q], BS)
  /\ CfbBytes(Cur, part, fill)

StreamInv == Open => Synced /\ Aligned /\ Register /\ Keystream /\ IsCfb

CfbInv == TypeInv /\ StreamInv

-----------------------------------------------------------------------------
LEMMA XorCancels == \A a, b \in Byte : Xor(Xor(a, b), b) = a
BY ByteAssumption

LEMMA CurType ==
  ASSUME StreamType, Open
  PROVE  Cur \in Block /\ Gamma \in Block /\ Len(done) \in Nat
<1>1. Len(done) \in Nat /\ base \in Params
  BY DEF StreamType, Open
<1>2. ASSUME Len(done) = 0 PROVE Cur \in Block
  BY <1>1, <1>2 DEF Cur, Prev, Params
<1>3. ASSUME Len(done) # 0 PROVE Cur \in Block
  <2>1. done[Len(done)] \in Pair
    BY <1>1, <1>3 DEF StreamType
  <2> QED
    BY <1>1, <1>3, <2>1 DEF Cur, Prev, Pair
<1>4. Cur \in Block
  BY <1>2, <1>3
<1>5. base.key \in Key /\ base.sbox \in Sbox
  BY <1>1 DEF Params
<1> QED
  BY <1>1, <1>4, <1>5, ConstantsType DEF Gamma

\* A block that continues the stream can be appended to it.
LEMMA AppendBlock ==
  ASSUME StreamType, IsCfb, NEW b \in Pair, CfbBytes(Cur, b, BS),
         done' = Append(done, b), base' = base, fill' = 0
  PROVE  IsCfb' /\ Cur' = b.c
<1> DEFINE n == Len(done)
<1>1. n \in Nat /\ Len(done') = n + 1 /\ done'[n + 1] = b
      /\ \A q \in 1 .. n : done'[q] = done[q]
  BY DEF StreamType
<1>2. ASSUME NEW q \in 1 .. n + 1 PROVE Prev(q)' = Prev(q)
  <2>1. q = 1 \/ q - 1 \in 1 .. n
    BY <1>1
  <2> QED
    BY <1>1, <2>1 DEF Prev
<1>3. Cur' = b.c
  BY <1>1 DEF Cur, Prev
<1>4. ASSUME NEW q \in 1 .. n + 1 PROVE CfbBytes(Prev(q), done[q], BS)'
  <2>1. CASE q = n + 1
    <3>1. done'[q] = b /\ Prev(q)' = Cur
      BY <1>1, <1>2, <2>1 DEF Cur
    <3> QED
      BY <3>1 DEF CfbBytes
  <2>2. CASE q # n + 1
    <3>1. q \in 1 .. n
      BY <1>1, <2>2
    <3>2. CfbBytes(Prev(q), done[q], BS)
      BY <3>1 DEF IsCfb
    <3> QED
      BY <1>1, <1>2, <3>1, <3>2 DEF CfbBytes
  <2> QED
    BY <2>1, <2>2
<1>5. CfbBytes(Cur, part, fill)'
  BY DEF CfbBytes
<1> QED
  BY <1>1, <1>3, <1>4, <1>5 DEF IsCfb

\* One byte at the position the stream is at, with a fresh keystream.
LEMMA CryptByteStream ==
  ASSUME TypeOK, Open, IsCfb, buf = Gamma,
         \A j \in 0 .. fill - 1 : iv[j] = part.c[j],
         NEW x \in Byte, CryptByte(x, fill)
  PROVE  /\ IsCfb' /\ base' = base
         /\ fill' = IF fill + 1 < BS THEN fill + 1 ELSE 0
         /\ \A j \in 0 .. fill' - 1 : iv'[j] = part'.c[j]
         /\ fill' = 0 => iv' = Cur'
         /\ fill' # 0 => Gamma' = Gamma
<1> DEFINE y == Xor(x, buf[fill])
           c == IF enc THEN y ELSE x
           p == IF enc THEN x ELSE y
           b == [p |-> [part.p EXCEPT ![fill] = p],
                 c |-> [part.c EXCEPT ![fill] = c]]
<1>0. /\ fill \in Nat /\ fill < BS /\ part.p \in Block /\ part.c \in Block
      /\ iv \in Block /\ Gamma \in Block /\ StreamType
  BY CurType DEF TypeOK, CtxType, StreamType, Pair, Pos
<1>1. buf[fill] \in Byte /\ buf[fill] = Gamma[fill]
  BY <1>0 DEF Block, Pos
<1>2. p \in Byte /\ c \in Byte /\ c = Xor(p, Gamma[fill])
  BY <1>1, ConstantsType, XorCancels
<1>3. RecordByte(p, c) /\ iv' = [iv EXCEPT ![fill] = c]
  BY DEF CryptByte
<1> HIDE DEF y, c, p
<1>4. b \in Pair
  BY <1>0, <1>2 DEF Pair, Block
<1>5. CfbBytes(Cur, b, fill + 1)
  <2>1. \A j \in 0 .. fill - 1 : b.c[j] = part.c[j] /\ b.p[j] = part.p[j]
    BY <1>0 DEF Block, Pos
  <2>2. b.c[fill] = c /\ b.p[fill] = p
    BY <1>0 DEF Block, Pos
  <2>3. \A j \in 0 .. fill - 1 : part.c[j] = Xor(part.p[j], Gamma[j])
    BY DEF IsCfb, CfbBytes, Gamma
  <2>4. \A j \in 0 .. fill : j \in 0 .. fill - 1 \/ j = fill
    BY <1>0
  <2>5. ASSUME NEW j \in 0 .. fill PROVE b.c[j] = Xor(b.p[j], Gamma[j])
    BY <1>2, <2>1, <2>2, <2>3, <2>4
  <2> QED
    BY <1>0, <2>5 DEF CfbBytes, Gamma
<1>6. \A j \in 0 .. fill : iv'[j] = b.c[j]
  BY <1>0, <1>3 DEF Block, Pos
<1> HIDE DEF b
<1>7. CASE fill + 1 < BS
  <2>1. base' = base /\ done' = done /\ part' = b /\ fill' = fill + 1
    BY <1>0, <1>3, <1>7 DEF RecordByte, b, Open
  <2>2. Cur' = Cur /\ Gamma' = Gamma
    BY <2>1 DEF Cur, Prev, Gamma
  <2>3. CfbBytes(Cur, part, fill)'
    BY <1>5, <2>1, <2>2 DEF CfbBytes
  <2>4. ASSUME NEW q \in 1 .. Len(done) PROVE CfbBytes(Prev(q), done[q], BS)'
    <3>1. CfbBytes(Prev(q), done[q], BS)
      BY DEF IsCfb
    <3>2. Prev(q)' = Prev(q)
      BY <2>1 DEF Prev
    <3> QED
      BY <2>1, <3>1, <3>2 DEF CfbBytes
  <2>5. IsCfb'
    BY <2>1, <2>3, <2>4 DEF IsCfb
  <2> QED
    BY <1>0, <1>6, <1>7, <2>1, <2>2, <2>5
<1>8. CASE ~(fill + 1 < BS)
  <2>1. base' = base /\ done' = Append(done, b) /\ fill' = 0
    BY <1>0, <1>3, <1>8 DEF RecordByte, b, Open
  <2>2. fill + 1 = BS
    BY <1>0, <1>8
  <2>3. IsCfb' /\ Cur' = b.c
    BY <1>0, <1>4, <1>5, <2>1, <2>2, AppendBlock
  <2>4. iv' = b.c
    <3>1. iv' \in Block /\ b.c \in Block
      BY <1>0, <1>2, <1>3, <1>4 DEF Block, Pair
    <3>2. \A j \in Pos : iv'[j] = b.c[j]
      BY <1>0, <1>6, <2>2 DEF Pos
    <3> QED
      BY <3>1, <3>2 DEF Block
  <2> QED
    BY <1>0, <1>8, <2>1, <2>3, <2>4
<1> QED
  BY <1>7, <1>8

-----------------------------------------------------------------------------
\* Opening a stream with the keystream of its IV puts it at its start.
LEMMA OpenStreamStream ==
  ASSUME NEW k \in Key, NEW s \in Sbox, NEW v \in Block, OpenStream(k, s, v),
         gctx' = [key |-> k, sbox |-> s], oiv' = v, iv' = v,
         buf' = E(k, s, v), num' = 0, pc' = "idle"
  PROVE  StreamInv'
<1>1. /\ base' = [key |-> k, sbox |-> s, iv |-> v]
      /\ done' = <<>> /\ part' = ZeroPair /\ fill' = 0
  BY DEF OpenStream
<1>2. Cur' = v /\ Gamma' = E(k, s, v)
  BY <1>1 DEF Cur, Prev, Gamma
<1>3. Synced' /\ Aligned' /\ Keystream'
  BY <1>1, <1>2 DEF Synced, Aligned, UnusedOf, Keystream
<1>4. Register'
  BY <1>1, <1>2 DEF Register
<1>5. IsCfb'
  BY <1>1 DEF IsCfb, CfbBytes
<1> QED
  BY <1>3, <1>4, <1>5 DEF StreamInv

LEMMA CloseStreamStream == CloseStream => StreamInv'
BY DEF CloseStream, StreamInv, Open

\* What a call that leaves the context and the stream alone preserves.
LEMMA UnchangedStream ==
  ASSUME StreamInv, UNCHANGED <<gctx, oiv, iv, buf, num>>, UNCHANGED streamVars,
         UNCHANGED <<pc, inb, i, civ>>
  PROVE  StreamInv'
<1>1. base' = base /\ done' = done /\ part' = part /\ fill' = fill
  BY DEF streamVars
<1>2. Cur' = Cur /\ Gamma' = Gamma
  BY <1>1 DEF Cur, Prev, Gamma
<1>3. Aligned => Aligned'
  BY <1>1, <1>2 DEF Aligned
<1>4. Synced /\ Register /\ Keystream => Synced' /\ Register' /\ Keystream'
  BY <1>1, <1>2 DEF Synced, Register, Keystream
<1>5. IsCfb => IsCfb'
  BY <1>1 DEF IsCfb, CfbBytes, Cur, Prev
<1> QED
  BY <1>1, <1>3, <1>4, <1>5 DEF StreamInv, Open

LEMMA SetupStream == CfbInv /\ Setup => StreamInv'
<1> SUFFICES ASSUME CfbInv, Setup PROVE StreamInv'
  OBVIOUS
<1>0. StreamInv /\ CtxType
  BY DEF CfbInv, TypeInv, TypeOK
<1>1. ASSUME NEW k \in Key \cup {None}, NEW v \in IVs \cup {None}, NEW e \in BOOLEAN,
             CipherInit(k, v, e)
      PROVE  StreamInv'
  <2> DEFINE nk == IF k = None THEN gctx.key ELSE k
             ng == [key |-> nk, sbox |-> DefaultSbox]
  <2>1. nk \in Key /\ DefaultSbox \in Sbox
    BY <1>0, ConstantsType DEF CtxType
  <2>2. gctx' = ng /\ pc = "idle" /\ pc' = pc /\ UNCHANGED <<inb, i, civ>>
    BY <1>1 DEF CipherInit, Returns
  <2>3. CASE v # None /\ oiv' = v /\ iv' = v /\ num' = 0
             /\ buf' = E(nk, DefaultSbox, v)
             /\ OpenStream(nk, DefaultSbox, v)
    <3>1. v \in Block
      BY <2>3, InputAssumption
    <3> QED
      BY <2>1, <2>2, <2>3, <3>1, OpenStreamStream
  <2>4. CASE UNCHANGED <<oiv, iv, buf, num>> /\ ng = gctx /\ UNCHANGED streamVars
    BY <1>0, <2>2, <2>4, UnchangedStream
  <2> QED
    BY <1>1, <2>3, <2>4, CloseStreamStream DEF CipherInit
<1>2. ASSUME NEW s \in Sbox, NEW v \in Block, UseSbox(s, v), oiv' = v, pc = "idle", Returns(1)
      PROVE  StreamInv'
  <2>1. gctx.key \in Key /\ gctx' = [key |-> gctx.key, sbox |-> s]
    BY <1>0, <1>2 DEF CtxType, UseSbox
  <2>2. pc' = "idle" /\ iv' = v /\ buf' = E(gctx.key, s, v) /\ num' = num
    BY <1>2 DEF UseSbox, Returns
  <2> QED
    BY <1>2, <2>1, <2>2, OpenStreamStream, CloseStreamStream DEF UseSbox
<1>3. ASSUME NEW s \in Sbox, SetCustomSbox(s) PROVE StreamInv'
  BY <1>0, <1>2, <1>3 DEF SetCustomSbox, CtxType
<1>4. ASSUME NEW v \in IVs, NEW s \in Sbox, GetAsn1Parameters(v, s) PROVE StreamInv'
  BY <1>2, <1>4, InputAssumption DEF GetAsn1Parameters
<1>5. ASSUME NEW e \in BOOLEAN, Cleanup(e) PROVE StreamInv'
  BY <1>5, CloseStreamStream DEF Cleanup
<1>6. ASSUME NEW r \in {0, -1}, Refused(r) PROVE StreamInv'
  BY <1>0, <1>6, UnchangedStream DEF Refused, Returns, ctxVars
<1> QED
  BY <1>1, <1>3, <1>4, <1>5, <1>6 DEF Setup, RefusedCtrl, RefusedAsn1Parameters

-----------------------------------------------------------------------------
\* A step of the data call that does not move in the stream.
LEMMA SameStream ==
  ASSUME UNCHANGED streamVars
  PROVE  /\ base' = base /\ done' = done /\ part' = part /\ fill' = fill
         /\ Cur' = Cur /\ Gamma' = Gamma /\ (Open' <=> Open) /\ (IsCfb => IsCfb')
<1>1. base' = base /\ done' = done /\ part' = part /\ fill' = fill
  BY DEF streamVars
<1> QED
  BY <1>1 DEF Cur, Prev, Gamma, Open, IsCfb, CfbBytes

LEMMA DoCipherStream ==
  ASSUME CfbInv, NEW chunk \in Seq(Byte), chunk # <<>>, DoCipher(chunk)
  PROVE  StreamInv'
<1> SUFFICES ASSUME Open' PROVE Synced' /\ Aligned' /\ Register' /\ Keystream' /\ IsCfb'
  BY DEF StreamInv
<1>1. /\ UNCHANGED streamVars /\ UNCHANGED <<gctx, oiv, iv, buf, num>>
      /\ i' = 0 /\ civ' = iv /\ inb' = chunk /\ chunk # <<>> /\ pc = "idle"
      /\ pc' = IF num > 0 THEN "head" ELSE "blocks"
  BY DEF DoCipher, ctxVars
<1>2. Open /\ Synced /\ Aligned /\ Register /\ Keystream /\ IsCfb
  BY <1>1, SameStream DEF CfbInv, StreamInv
<1>3. num \in Nat /\ num < BS /\ fill \in Nat /\ fill < BS
  BY DEF CfbInv, TypeInv, TypeOK, CtxType, StreamType, Pos
<1>4. Synced' /\ Register' /\ Keystream' /\ IsCfb'
  BY <1>1, <1>2, <1>3, SameStream DEF Synced, Register, Keystream
<1>5. Aligned'
  BY <1>1, <1>2, <1>3, SameStream DEF Aligned, UnusedOf
<1> QED
  BY <1>4, <1>5

LEMMA HeadByteStream == CfbInv /\ HeadByte => StreamInv'
<1> SUFFICES ASSUME CfbInv, HeadByte PROVE StreamInv'
  OBVIOUS
<1> USE DEF CfbInv, TypeInv, TypeOK
<1>1. /\ num \in Nat /\ num > 0 /\ num < BS /\ toUse \in Nat /\ i \in Nat
      /\ i < toUse /\ toUse <= num /\ inb \in Seq(Byte) /\ toUse - i <= Len(inb)
  BY DEF CtxType, CallType, Control, HeadByte, Pos
<1>2. inb # <<>> /\ Head(inb) \in Byte
  BY <1>1, HeadTailProperties
<1>3. /\ pc = "head" /\ pc' = "head" /\ i' = i + 1
      /\ UNCHANGED <<gctx, oiv, buf, num>>
      /\ CryptByte(Head(inb), BS - num + i)
  BY DEF HeadByte
<1>4. CASE Open
  <2>1. Synced /\ Aligned /\ Register /\ Keystream /\ IsCfb
    BY <1>4 DEF StreamInv
  <2>2. fill = BS - num + i /\ buf = Gamma /\ \A j \in 0 .. fill - 1 : iv[j] = part.c[j]
    BY <1>1, <1>3, <2>1 DEF Aligned, Keystream, Register
  <2>3. /\ IsCfb' /\ base' = base
        /\ fill' = IF fill + 1 < BS THEN fill + 1 ELSE 0
        /\ \A j \in 0 .. fill' - 1 : iv'[j] = part'.c[j]
        /\ fill' = 0 => iv' = Cur'
        /\ fill' # 0 => Gamma' = Gamma
    BY <1>2, <1>3, <1>4, <2>1, <2>2, CryptByteStream
  <2>4. Aligned'
    BY <1>1, <1>3, <2>2, <2>3 DEF Aligned
  <2>5. Keystream'
    BY <1>1, <1>3, <2>2, <2>3 DEF Keystream
  <2>6. Register' /\ Synced'
    BY <1>3, <2>1, <2>3 DEF Register, Synced
  <2> QED
    BY <2>3, <2>4, <2>5, <2>6 DEF StreamInv
<1>5. CASE ~Open
  BY <1>3, <1>5, SameStream DEF CryptByte, RecordByte, StreamInv
<1> QED
  BY <1>4, <1>5

LEMMA HeadEndStream == CfbInv /\ HeadEnd => StreamInv'
<1> SUFFICES ASSUME CfbInv, HeadEnd, Open' PROVE Synced' /\ Aligned' /\ Register' /\ Keystream' /\ IsCfb'
  BY DEF StreamInv
<1>1. /\ UNCHANGED streamVars /\ UNCHANGED <<gctx, oiv, iv, inb, i>>
      /\ pc = "head" /\ pc' = "blocks" /\ civ' = iv /\ i = toUse /\ num' = num - toUse
      /\ buf' = IF num' = 0 THEN E(gctx.key, gctx.sbox, iv) ELSE buf
  BY DEF HeadEnd
<1>2. Open /\ Synced /\ Aligned /\ Register /\ Keystream /\ IsCfb
  BY <1>1, SameStream DEF CfbInv, StreamInv
<1>3. /\ num \in Nat /\ num > 0 /\ num < BS /\ toUse \in Nat /\ toUse <= num
      /\ (toUse < num => inb = <<>>)
  <2>1. inb \in Seq(Byte) /\ (toUse < num => Len(inb) = 0)
    BY <1>1 DEF CfbInv, TypeInv, TypeOK, CtxType, CallType, Control, Pos
  <2> QED
    BY <1>1, <2>1 DEF CfbInv, TypeInv, TypeOK, CtxType, CallType, Control, Pos
<1>4. CASE toUse < num
  <2>1. fill = BS - num + toUse /\ fill # 0 /\ num' # 0 /\ buf = Gamma
    BY <1>1, <1>2, <1>3, <1>4 DEF Aligned, Keystream
  <2>2. Aligned'
    BY <1>1, <1>3, <1>4, <2>1, SameStream DEF Aligned, UnusedOf
  <2>3. Keystream' /\ Register' /\ Synced' /\ IsCfb'
    BY <1>1, <1>2, <2>1, SameStream DEF Keystream, Register, Synced
  <2> QED
    BY <2>2, <2>3
<1>5. CASE toUse = num
  <2>1. fill = 0 /\ num' = 0 /\ iv = Cur
    BY <1>1, <1>2, <1>3, <1>5 DEF Aligned, Register
  <2>2. buf' = Gamma
    BY <1>1, <1>2, <2>1 DEF Synced, Gamma
  <2>3. Aligned'
    BY <1>1, <2>1, SameStream DEF Aligned, UnusedOf
  <2>4. Keystream' /\ Register' /\ Synced' /\ IsCfb'
    BY <1>1, <1>2, <2>1, <2>2, SameStream DEF Keystream, Register, Synced
  <2> QED
    BY <2>3, <2>4
<1> QED
  BY <1>3, <1>4, <1>5

LEMMA CfbBlockStream == CfbInv /\ CfbBlock => StreamInv'
<1> SUFFICES ASSUME CfbInv, CfbBlock PROVE StreamInv'
  OBVIOUS
<1> DEFINE gamma == E(gctx.key, gctx.sbox, civ)
           x == [j \in Pos |-> inb[j + 1]]
           y == [j \in Pos |-> Xor(x[j], gamma[j])]
           b == [p |-> IF enc THEN x ELSE y, c |-> IF enc THEN y ELSE x]
<1>0. CtxType /\ CallType /\ StreamType
  BY DEF CfbInv, TypeInv, TypeOK
<1>1. gamma \in Block /\ x \in Block
  BY <1>0, ConstantsType DEF CtxType, CallType, CfbBlock, Block, Pos
<1>2. y \in Block /\ \A j \in Pos : y[j] = Xor(x[j], gamma[j]) /\ x[j] = Xor(y[j], gamma[j])
  BY <1>1, ConstantsType, XorCancels DEF Block
<1>3. /\ RecordBlock(b.p, b.c) /\ civ' = b.c /\ UNCHANGED <<gctx, oiv, iv, buf, num>>
      /\ pc \in {"blocks", "cfb"} /\ pc' = "cfb" /\ Len(inb) >= BS
  BY DEF CfbBlock, ctxVars
<1>4. b \in Pair /\ \A j \in Pos : b.c[j] = Xor(b.p[j], gamma[j])
  BY <1>1, <1>2 DEF Pair
<1> HIDE DEF gamma, x, y, b
<1>5. CASE Open
  <2>1. Synced /\ Aligned /\ Register /\ IsCfb
    BY <1>5 DEF CfbInv, StreamInv
  <2>2. inb # <<>>
    BY <1>0, <1>3 DEF CallType
  <2>3. fill = 0 /\ num = 0 /\ civ = Cur
    BY <1>3, <2>1, <2>2 DEF Aligned, Register, UnusedOf
  <2>4. gamma = Gamma
    BY <2>1, <2>3 DEF gamma, Synced, Gamma
  <2>5. CfbBytes(Cur, b, BS)
    BY <1>4, <2>4 DEF CfbBytes, Gamma, Pos
  <2>6. done' = Append(done, b) /\ base' = base /\ fill' = 0
    <3>1. b = [p |-> b.p, c |-> b.c]
      BY <1>4 DEF Pair
    <3> QED
      BY <1>3, <1>5, <2>3, <3>1 DEF RecordBlock
  <2>7. IsCfb' /\ Cur' = b.c
    BY <1>0, <1>4, <2>1, <2>5, <2>6, AppendBlock
  <2>8. Aligned' /\ Register' /\ Keystream' /\ Synced'
    BY <1>3, <2>1, <2>3, <2>6, <2>7 DEF Aligned, Register, Keystream, Synced
  <2> QED
    BY <2>7, <2>8 DEF StreamInv
<1>6. CASE ~Open
  BY <1>3, <1>6, SameStream DEF RecordBlock, StreamInv
<1> QED
  BY <1>5, <1>6

LEMMA BlocksEndStream == CfbInv /\ BlocksEnd => StreamInv'
<1> SUFFICES ASSUME CfbInv, BlocksEnd, Open' PROVE Synced' /\ Aligned' /\ Register' /\ Keystream' /\ IsCfb'
  BY DEF StreamInv
<1>1. /\ UNCHANGED streamVars /\ UNCHANGED <<gctx, oiv, num, inb>>
      /\ pc' = "tail" /\ i' = 0
  BY DEF BlocksEnd
<1>2. Open /\ Synced /\ Aligned /\ Register /\ Keystream /\ IsCfb
  BY <1>1, SameStream DEF CfbInv, StreamInv
<1>3. CASE pc = "cfb" /\ iv' = civ /\ buf' = E(gctx.key, gctx.sbox, civ)
  <2>1. num = 0 /\ fill = 0 /\ civ = Cur
    BY <1>2, <1>3 DEF Aligned
  <2>2. buf' = Gamma
    BY <1>2, <1>3, <2>1 DEF Synced, Gamma
  <2> QED
    BY <1>1, <1>2, <1>3, <2>1, <2>2, SameStream
       DEF Synced, Aligned, UnusedOf, Register, Keystream
<1>4. CASE pc = "blocks" /\ UNCHANGED <<iv, buf>>
  <2>1. Aligned'
    BY <1>1, <1>2, <1>4, SameStream DEF Aligned, UnusedOf
  <2> QED
    BY <1>1, <1>2, <1>4, <2>1, SameStream DEF Synced, Register, Keystream
<1> QED
  BY <1>3, <1>4 DEF BlocksEnd

LEMMA TailByteStream == CfbInv /\ TailByte => StreamInv'
<1> SUFFICES ASSUME CfbInv, TailByte PROVE StreamInv'
  OBVIOUS
<1> USE DEF CfbInv, TypeInv, TypeOK
<1>1. inb \in Seq(Byte) /\ inb # <<>> /\ i \in Nat /\ i + Len(inb) < BS
  BY DEF CallType, TailByte, Pos
<1>2. Head(inb) \in Byte /\ Len(inb) > 0
  BY <1>1, HeadTailProperties
<1>3. /\ pc = "tail" /\ pc' = "tail" /\ i' = i + 1
      /\ UNCHANGED <<gctx, oiv, buf, num>>
      /\ CryptByte(Head(inb), i)
  BY DEF TailByte
<1>4. CASE Open
  <2>1. Synced /\ Aligned /\ Register /\ Keystream /\ IsCfb
    BY <1>4 DEF StreamInv
  <2>2. num = 0 /\ fill = i /\ buf = Gamma /\ \A j \in 0 .. fill - 1 : iv[j] = part.c[j]
    BY <1>1, <1>3, <2>1 DEF Aligned, Keystream, Register
  <2>3. /\ IsCfb' /\ base' = base
        /\ fill' = IF fill + 1 < BS THEN fill + 1 ELSE 0
        /\ \A j \in 0 .. fill' - 1 : iv'[j] = part'.c[j]
        /\ fill' = 0 => iv' = Cur'
        /\ fill' # 0 => Gamma' = Gamma
    BY <1>2, <1>3, <1>4, <2>1, <2>2, CryptByteStream
  <2>4. fill' = i + 1 /\ fill' # 0
    BY <1>1, <1>2, <2>2, <2>3
  <2>5. Aligned' /\ Keystream'
    BY <1>1, <1>3, <2>2, <2>3, <2>4 DEF Aligned, Keystream
  <2>6. Register' /\ Synced'
    BY <1>3, <2>1, <2>3 DEF Register, Synced
  <2> QED
    BY <2>3, <2>5, <2>6 DEF StreamInv
<1>5. CASE ~Open
  BY <1>3, <1>5, SameStream DEF CryptByte, RecordByte, StreamInv
<1> QED
  BY <1>4, <1>5

LEMMA DoCipherReturnStream == CfbInv /\ DoCipherReturn => StreamInv'
<1> SUFFICES ASSUME CfbInv, DoCipherReturn, Open' PROVE Synced' /\ Aligned' /\ Register' /\ Keystream' /\ IsCfb'
  BY DEF StreamInv
<1>1. /\ UNCHANGED streamVars /\ UNCHANGED <<gctx, oiv, iv, buf>>
      /\ pc = "tail" /\ inb = <<>> /\ pc' = "idle"
      /\ num' = IF i > 0 THEN BS - i ELSE num
  BY DEF DoCipherReturn
<1>2. Open /\ Synced /\ Aligned /\ Register /\ Keystream /\ IsCfb
  BY <1>1, SameStream DEF CfbInv, StreamInv
<1>3. i \in Nat
  BY DEF CfbInv, TypeInv, TypeOK, CallType, Pos
<1>4. Aligned'
  BY <1>1, <1>2, <1>3, SameStream DEF Aligned, UnusedOf
<1> QED
  BY <1>1, <1>2, <1>4, SameStream DEF Synced, Register, Keystream

LEMMA NextCfb == CfbInv /\ [Next]_vars => CfbInv'
<1> SUFFICES ASSUME CfbInv, [Next]_vars PROVE StreamInv'
  BY NextType DEF CfbInv
<1>1. ASSUME DoCipherNothing PROVE StreamInv'
  BY <1>1, UnchangedStream DEF CfbInv, DoCipherNothing, Refused, Returns, ctxVars
<1>2. CASE UNCHANGED vars
  BY <1>2, UnchangedStream DEF CfbInv, vars, ctxVars, callVars
<1>3. ASSUME NEW chunk \in Inputs, DoCipher(chunk) PROVE StreamInv'
  BY <1>3, InputAssumption, DoCipherStream
<1> QED
  BY <1>1, <1>2, <1>3, SetupStream, HeadByteStream, HeadEndStream, CfbBlockStream,
     BlocksEndStream, TailByteStream, DoCipherReturnStream DEF Next, DoCipherStep

LEMMA InitCfb == Init => CfbInv
<1> SUFFICES ASSUME Init PROVE StreamInv /\ TypeInv
  BY DEF CfbInv
<1>1. StreamInv
  BY DEF Init, StreamInv, Open
<1>2. CtxType
  BY ConstantsType DEF Init, CtxType
<1>3. CallType /\ Control
  BY ConstantsType DEF Init, CallType, Control
<1>4. StreamType
  BY ConstantsType DEF Init, StreamType
<1> QED
  BY <1>1, <1>2, <1>3, <1>4 DEF TypeInv, TypeOK

LEMMA CfbInvariant == Spec => []CfbInv
BY InitCfb, NextCfb, PTL DEF Spec

\* However a caller cuts the data into calls, an open stream is the CFB mode
\* of the standard.
THEOREM StreamCorrect == Spec => []StreamIsCfb
<1>1. CfbInv => StreamIsCfb
  BY DEF CfbInv, StreamInv, IsCfb, StreamIsCfb, Cur
<1> QED
  BY <1>1, CfbInvariant, PTL

\* Every data call takes all of its input, and num is what the stream needs.
THEOREM CallsCorrect == Spec => []CallsAddUp
<1>1. CfbInv => CallsAddUp
  BY DEF CfbInv, TypeInv, Control, StreamInv, Aligned, UnusedOf, CallsAddUp
<1> QED
  BY <1>1, CfbInvariant, PTL

\* The keystream block kept between calls belongs to the key, the sbox and
\* the register in the context.
THEOREM KeystreamCorrect == Spec => []KeystreamFresh
<1>1. CfbInv => KeystreamFresh
  BY DEF CfbInv, StreamInv, Synced, Keystream, Cur, Gamma, KeystreamFresh
<1> QED
  BY <1>1, CfbInvariant, PTL

\* The parameters a context publishes start its stream again.
THEOREM ParametersCorrect == Spec => []ParametersRestartStream
<1>1. CfbInv => ParametersRestartStream
  BY DEF CfbInv, StreamInv, Synced, Asn1Parameters, ParametersRestartStream
<1> QED
  BY <1>1, CfbInvariant, PTL

-----------------------------------------------------------------------------
(* The receiver reads what the sender encrypted.                           *)

\* Where byte j of block q of a stream lies in the text, counted from 1.
At(q, j) == (q - 1) * BS + j + 1

\* The blocks d and the first f bytes of block b are the beginning of the
\* plaintext p and of the ciphertext c.
Carries(d, b, f, p, c) ==
  /\ \A q \in 1 .. Len(d), j \in Pos :
       d[q].p[j] = p[At(q, j)] /\ d[q].c[j] = c[At(q, j)]
  /\ \A j \in 0 .. f - 1 :
       b.p[j] = p[At(Len(d) + 1, j)] /\ b.c[j] = c[At(Len(d) + 1, j)]

\* What the keystream of block q is made of.
Feedback(c, v, q) == IF q = 1 THEN v ELSE [j \in Pos |-> c[At(q - 1, j)]]

\* The first len bytes of c are the CFB encryption of those of p.
CfbText(p, c, k, s, v, len) ==
  \A q \in Nat \ {0}, j \in Pos :
    At(q, j) <= len => c[At(q, j)] = Xor(p[At(q, j)], E(k, s, Feedback(c, v, q))[j])

LEMMA AtType ==
  ASSUME NEW q \in Nat \ {0}, NEW j \in Pos
  PROVE  At(q, j) \in Nat \ {0}
<1>1. q - 1 \in Nat /\ j \in Nat
  BY DEF Pos
<1>2. (q - 1) * BS \in Nat
  BY <1>1
<1> QED
  BY <1>1, <1>2 DEF At

LEMMA AtWithin ==
  ASSUME NEW m \in Nat, NEW q \in 1 .. m, NEW j \in Pos
  PROVE  At(q, j) <= m * BS
<1>1. j + 1 <= BS /\ j \in Nat /\ BS \in Nat
  BY DEF Pos
<1>2. (q - 1) * BS + BS = q * BS
  BY SMT
<1>3. PICK r \in Nat : m = q + r
  <2>1. m - q \in Nat /\ m = q + (m - q)
    OBVIOUS
  <2> QED
    BY <2>1
<1>4. (q + r) * BS = q * BS + r * BS /\ r * BS \in Nat /\ q * BS \in Nat /\ (q - 1) * BS \in Nat
  BY <1>3, SMT
<1>5. q * BS <= m * BS
  BY <1>3, <1>4
<1> QED
  BY <1>1, <1>2, <1>4, <1>5 DEF At

LEMMA AtNext ==
  ASSUME NEW m \in Nat, NEW j \in Nat
  PROVE  At(m + 1, j) = m * BS + j + 1 /\ m * BS \in Nat /\ (m + 1) * BS = m * BS + BS
BY DEF At

\* Every position of a text is one of some block.
LEMMA AtOnto ==
  ASSUME NEW m \in Nat, NEW f \in Pos, NEW n \in 1 .. m * BS + f
  PROVE  \E q \in 1 .. m + 1, j \in Pos : n = At(q, j) /\ (q = m + 1 => j < f)
<1> DEFINE q == ((n - 1) \div BS) + 1
           j == (n - 1) % BS
<1>0. m * BS \in Nat /\ f \in Nat /\ f < BS
  BY DEF Pos
<1>1. n - 1 \in Nat /\ n \in Nat /\ n <= m * BS + f
  BY <1>0
<1>2. j \in Pos /\ q \in Nat /\ q - 1 \in Nat /\ n - 1 = BS * (q - 1) + j
  BY <1>1, SMT DEF Pos
<1> HIDE DEF q, j
<1>3. BS * (q - 1) = (q - 1) * BS /\ (q - 1) * BS \in Nat
  BY <1>2, SMT
<1>4. n = At(q, j)
  BY <1>1, <1>2, <1>3 DEF At, Pos
<1>5. q <= m + 1
  <2>1. SUFFICES ASSUME q > m + 1 PROVE FALSE
    BY <1>2
  <2>2. PICK r \in Nat : q - 1 = m + 1 + r
    <3>1. q - m - 2 \in Nat /\ q - 1 = m + 1 + (q - m - 2)
      BY <1>2, <2>1
    <3> QED
      BY <3>1
  <2>3. (m + 1 + r) * BS = m * BS + BS + r * BS /\ r * BS \in Nat
    BY <2>2, SMT
  <2> QED
    BY <1>0, <1>1, <1>2, <1>3, <2>2, <2>3 DEF Pos
<1>6. q = m + 1 => j < f
  BY <1>0, <1>1, <1>2, <1>3 DEF Pos
<1> QED
  BY <1>2, <1>4, <1>5, <1>6

\* One more byte of the message, at the end of the block under way.
LEMMA CarriesByte ==
  ASSUME NEW d \in Seq(Pair), NEW b \in Pair, NEW f \in Pos,
         NEW p, NEW c, NEW pp, NEW cc, Carries(d, b, f, p, c),
         \A n \in 1 .. Len(d) * BS + f : pp[n] = p[n] /\ cc[n] = c[n],
         NEW x \in Byte, NEW y \in Byte,
         pp[Len(d) * BS + f + 1] = x, cc[Len(d) * BS + f + 1] = y,
         NEW nb, nb = [p |-> [b.p EXCEPT ![f] = x], c |-> [b.c EXCEPT ![f] = y]]
  PROVE  /\ f + 1 < BS => Carries(d, nb, f + 1, pp, cc)
         /\ f + 1 = BS => Carries(Append(d, nb), ZeroPair, 0, pp, cc)
<1> DEFINE m == Len(d)
<1>0. m \in Nat /\ m * BS \in Nat /\ f \in Nat /\ f < BS
  BY DEF Pos
<1>1. ASSUME NEW q \in 1 .. m, NEW j \in Pos
      PROVE  d[q].p[j] = pp[At(q, j)] /\ d[q].c[j] = cc[At(q, j)]
  <2>1. At(q, j) \in Nat \ {0} /\ At(q, j) <= m * BS
    <3>1. q \in Nat \ {0} /\ q \in 1 .. m
      BY <1>0
    <3> HIDE DEF m
    <3>2. At(q, j) \in Nat \ {0}
      BY <3>1, AtType
    <3>3. At(q, j) <= m * BS
      BY <1>0, <3>1, AtWithin
    <3> QED
      BY <3>2, <3>3
  <2>2. At(q, j) \in 1 .. m * BS + f
    BY <1>0, <2>1
  <2> QED
    BY <2>2 DEF Carries
<1>2. ASSUME NEW j \in 0 .. f
      PROVE  nb.p[j] = pp[At(m + 1, j)] /\ nb.c[j] = cc[At(m + 1, j)]
  <2>1. j \in Nat /\ At(m + 1, j) = m * BS + j + 1
    <3>1. j \in Nat
      BY <1>0
    <3> HIDE DEF m
    <3> QED
      BY <1>0, <3>1, AtNext
  <2>2. CASE j = f
    BY <1>0, <2>1, <2>2 DEF Pair, Block
  <2>3. CASE j \in 0 .. f - 1
    <3>1. At(m + 1, j) \in 1 .. m * BS + f
      <4> HIDE DEF m
      <4> QED
        BY <1>0, <2>1, <2>3
    <3>2. b.p[j] = p[At(m + 1, j)] /\ b.c[j] = c[At(m + 1, j)]
      BY <2>3 DEF Carries
    <3>3. nb.p[j] = b.p[j] /\ nb.c[j] = b.c[j]
      BY <1>0, <2>3 DEF Pair, Block, Pos
    <3> QED
      BY <3>1, <3>2, <3>3
  <2> QED
    BY <1>0, <2>2, <2>3
<1>3. ASSUME f + 1 < BS PROVE Carries(d, nb, f + 1, pp, cc)
  BY <1>0, <1>1, <1>2 DEF Carries
<1>4. ASSUME f + 1 = BS PROVE Carries(Append(d, nb), ZeroPair, 0, pp, cc)
  <2>1. Len(Append(d, nb)) = m + 1 /\ Append(d, nb)[m + 1] = nb
        /\ \A q \in 1 .. m : Append(d, nb)[q] = d[q]
    BY AppendProperties
  <2>2. Pos = 0 .. f
    BY <1>0, <1>4 DEF Pos
  <2>3. ASSUME NEW q \in 1 .. m + 1, NEW j \in Pos
        PROVE  /\ Append(d, nb)[q].p[j] = pp[At(q, j)]
               /\ Append(d, nb)[q].c[j] = cc[At(q, j)]
    <3>1. CASE q \in 1 .. m
      BY <1>1, <2>1, <3>1
    <3>2. CASE q = m + 1
      BY <1>2, <2>1, <2>2, <3>2
    <3> QED
      BY <1>0, <3>1, <3>2
  <2> QED
    BY <2>1, <2>3 DEF Carries
<1> QED
  BY <1>3, <1>4

\* One more whole block of the message.
LEMMA CarriesBlock ==
  ASSUME NEW d \in Seq(Pair), NEW b \in Pair, NEW p, NEW c, NEW pp, NEW cc,
         Carries(d, b, 0, p, c),
         \A n \in 1 .. Len(d) * BS : pp[n] = p[n] /\ cc[n] = c[n],
         NEW nb \in Pair,
         \A j \in Pos : /\ nb.p[j] = pp[Len(d) * BS + j + 1]
                        /\ nb.c[j] = cc[Len(d) * BS + j + 1]
  PROVE  Carries(Append(d, nb), b, 0, pp, cc)
<1> DEFINE m == Len(d)
<1>0. m \in Nat /\ m * BS \in Nat
  OBVIOUS
<1>1. Len(Append(d, nb)) = m + 1 /\ Append(d, nb)[m + 1] = nb
      /\ \A q \in 1 .. m : Append(d, nb)[q] = d[q]
  BY AppendProperties
<1>2. ASSUME NEW q \in 1 .. m + 1, NEW j \in Pos
      PROVE  /\ Append(d, nb)[q].p[j] = pp[At(q, j)]
             /\ Append(d, nb)[q].c[j] = cc[At(q, j)]
  <2>1. CASE q \in 1 .. m
    <3>1. At(q, j) \in 1 .. m * BS
      BY <1>0, <2>1, AtType, AtWithin
    <3> QED
      BY <1>1, <2>1, <3>1 DEF Carries
  <2>2. CASE q = m + 1
    <3>1. At(q, j) = m * BS + j + 1
      BY <1>0, <2>2, AtNext DEF Pos
    <3> QED
      BY <1>1, <2>2, <3>1
  <2> QED
    BY <1>0, <2>1, <2>2
<1> QED
  BY <1>1, <1>2 DEF Carries

\* What a CFB stream carries is a CFB text.
LEMMA CarriedIsCfb ==
  ASSUME StreamType, Open, IsCfb, NEW p, NEW c, Carries(done, part, fill, p, c)
  PROVE  CfbText(p, c, base.key, base.sbox, base.iv, StreamLen)
<1> DEFINE m == Len(done)
<1>0. m \in Nat /\ fill \in Pos /\ m * BS \in Nat /\ fill \in Nat
  BY DEF StreamType, Pos
<1>1. ASSUME NEW q \in 1 .. m + 1
      PROVE  Prev(q) = Feedback(c, base.iv, q)
  <2>1. CASE q = 1
    BY <2>1 DEF Prev, Feedback
  <2>2. CASE q # 1
    <3>1. q - 1 \in 1 .. m /\ done[q - 1] \in Pair
      BY <1>0, <2>2 DEF StreamType
    <3>2. \A j \in Pos : done[q - 1].c[j] = c[At(q - 1, j)]
      BY <3>1 DEF Carries
    <3>3. done[q - 1].c = [j \in Pos |-> c[At(q - 1, j)]]
      BY <3>1, <3>2 DEF Pair, Block
    <3> QED
      BY <2>2, <3>3 DEF Prev, Feedback
  <2> QED
    BY <2>1, <2>2
<1>2. ASSUME NEW q \in Nat \ {0}, NEW j \in Pos, At(q, j) <= StreamLen
      PROVE  c[At(q, j)] = Xor(p[At(q, j)],
                               E(base.key, base.sbox, Feedback(c, base.iv, q))[j])
  <2>1. q <= m + 1 /\ (q = m + 1 => j < fill)
    <3>1. j \in Nat /\ j < BS /\ fill < BS
      BY <1>0 DEF Pos
    <3>2. q = m + 1 => j < fill
      BY <1>0, <1>2, <3>1, AtNext DEF StreamLen
    <3>3. ASSUME q > m + 1 PROVE FALSE
      <4>1. PICK r \in Nat : q - 1 = m + 1 + r
        <5>1. q - m - 2 \in Nat /\ q - 1 = m + 1 + (q - m - 2)
          BY <1>0, <3>3
        <5> QED
          BY <5>1
      <4>2. (m + 1 + r) * BS = m * BS + BS + r * BS /\ r * BS \in Nat
        BY <1>0, SMT
      <4> QED
        BY <1>0, <1>2, <3>1, <4>1, <4>2 DEF At, StreamLen
    <3> QED
      BY <1>0, <3>2, <3>3
  <2>2. CASE q \in 1 .. m
    BY <1>0, <1>1, <2>2 DEF Carries, IsCfb, CfbBytes, Pos
  <2>3. CASE q = m + 1
    <3>1. j \in 0 .. fill - 1
      BY <1>0, <2>1, <2>3 DEF Pos
    <3>2. part.c[j] = Xor(part.p[j], E(base.key, base.sbox, Prev(m + 1))[j])
      BY <3>1 DEF IsCfb, CfbBytes, Cur
    <3>3. m + 1 \in 1 .. m + 1
      BY <1>0
    <3> QED
      BY <1>1, <2>3, <3>1, <3>2, <3>3 DEF Carries
  <2> QED
    BY <1>0, <2>1, <2>2, <2>3
<1> QED
  BY <1>2 DEF CfbText

\* Only the text up to the end of the stream counts.
LEMMA CarriesAgain ==
  ASSUME NEW d \in Seq(Pair), NEW b, NEW f \in Pos,
         NEW p, NEW c, NEW pp, NEW cc, Carries(d, b, f, p, c),
         \A n \in 1 .. Len(d) * BS + f : pp[n] = p[n] /\ cc[n] = c[n]
  PROVE  Carries(d, b, f, pp, cc)
<1> DEFINE m == Len(d)
<1>0. m \in Nat /\ m * BS \in Nat /\ f \in Nat /\ f < BS
  BY DEF Pos
<1>1. ASSUME NEW q \in 1 .. m, NEW j \in Pos
      PROVE  d[q].p[j] = pp[At(q, j)] /\ d[q].c[j] = cc[At(q, j)]
  <2>1. At(q, j) \in Nat \ {0} /\ At(q, j) <= m * BS
    <3>1. q \in Nat \ {0} /\ q \in 1 .. m
      BY <1>0
    <3> HIDE DEF m
    <3>2. At(q, j) \in Nat \ {0}
      BY <3>1, AtType
    <3>3. At(q, j) <= m * BS
      BY <1>0, <3>1, AtWithin
    <3> QED
      BY <3>2, <3>3
  <2>2. At(q, j) \in 1 .. m * BS + f
    BY <1>0, <2>1
  <2> QED
    BY <2>2 DEF Carries
<1>2. ASSUME NEW j \in 0 .. f - 1
      PROVE  b.p[j] = pp[At(m + 1, j)] /\ b.c[j] = cc[At(m + 1, j)]
  <2>1. At(m + 1, j) = m * BS + j + 1
    BY <1>0, AtNext
  <2>2. At(m + 1, j) \in 1 .. m * BS + f
    <3> HIDE DEF m
    <3> QED
      BY <1>0, <2>1
  <2> QED
    BY <2>2 DEF Carries
<1> QED
  BY <1>1, <1>2 DEF Carries

-----------------------------------------------------------------------------
\* What the data call under way has written already.
Pending == IF pc = "idle" THEN <<>> ELSE out

\* The text a context reads from, and the text it has written so far.
Source  == IF enc THEN wire.plain ELSE wire.cipher
Target  == IF enc THEN wire.cipher ELSE plain
Written == Target \o Pending
Plain   == IF enc THEN Source ELSE Written
Cipher  == IF enc THEN Written ELSE Source

\* The open stream carries the texts from their beginning, and the data call
\* under way reads the source from where the stream ends.
Transit ==
  /\ Open
  /\ Len(Written) = StreamLen
  /\ StreamLen + Len(inb) <= Len(Source)
  /\ \A n \in 1 .. Len(inb) : inb[n] = Source[StreamLen + n]
  /\ Carries(done, part, fill, Plain, Cipher)

TransferType ==
  /\ phase \in {"setup", "send", "fresh", "half", "receive"}
  /\ plain \in Seq(Byte) /\ wire.plain \in Seq(Byte) /\ wire.cipher \in Seq(Byte)
  /\ wire.key \in Key /\ wire.params.iv \in Block /\ wire.params.sbox \in Sbox
  /\ pc # "idle" => phase \in {"send", "receive"}

Sending ==
  /\ phase = "setup" => wire = NoWire /\ plain = <<>>
  /\ phase = "send" => /\ enc /\ oiv \in IVs /\ plain = <<>>
                       /\ Transit /\ Len(wire.plain) = StreamLen + Len(inb)

Delivered ==
  phase \in {"fresh", "half", "receive"} =>
    /\ ~enc /\ Len(wire.cipher) = Len(wire.plain) /\ wire.params.iv \in IVs
    /\ CfbText(wire.plain, wire.cipher, wire.key, wire.params.sbox, wire.params.iv,
               Len(wire.cipher))

Receiving ==
  /\ phase \in {"fresh", "half"} => plain = <<>> /\ num = 0
  /\ phase = "half" => gctx.key = wire.key
  /\ phase = "receive" =>
       /\ Transit
       /\ base = [key |-> wire.key, sbox |-> wire.params.sbox, iv |-> wire.params.iv]

TransferInv == CfbInv /\ TransferType /\ Sending /\ Delivered /\ Receiving

-----------------------------------------------------------------------------
LEMMA StreamLenType ==
  ASSUME StreamType
  PROVE  StreamLen \in Nat /\ Len(done) * BS \in Nat /\ Len(done) \in Nat /\ fill \in Nat
<1>1. Len(done) \in Nat /\ fill \in Nat
  BY DEF StreamType, Pos
<1>2. Len(done) * BS \in Nat
  BY <1>1
<1> QED
  BY <1>1, <1>2 DEF StreamLen

LEMMA TextsType ==
  ASSUME TypeOK, TransferType
  PROVE  /\ Source \in Seq(Byte) /\ Target \in Seq(Byte) /\ Written \in Seq(Byte)
         /\ Len(Written) = Len(Target) + Len(Pending)
         /\ Pending \in Seq(Byte)
<1>1. Source \in Seq(Byte) /\ Target \in Seq(Byte) /\ Pending \in Seq(Byte)
  BY DEF TypeOK, CallType, TransferType, Source, Target, Pending
<1> QED
  BY <1>1, ConcatProperties DEF Written

\* A step that reads and writes nothing, inside a data call.
LEMMA TransitSame ==
  ASSUME Transit, UNCHANGED <<streamVars, inb, out, enc, wire, plain>>,
         pc # "idle", pc' # "idle"
  PROVE  Transit' /\ StreamLen' = StreamLen
BY DEF Transit, streamVars, Open, Written, Target, Pending, Source, Plain, Cipher, StreamLen

\* Appending to what has been written leaves the beginning as it was.
LEMMA ConcatAgain ==
  ASSUME NEW s \in Seq(Byte), NEW t \in Seq(Byte), NEW u \in Seq(Byte)
  PROVE  s \o (t \o u) = (s \o t) \o u
OBVIOUS

\* A step that moves one byte through the cipher.
LEMMA TransitByte ==
  ASSUME TypeOK, TransferType, Transit, pc # "idle", pc' = pc, inb # <<>>,
         NEW j \in Pos, CryptByte(Head(inb), j), inb' = Tail(inb),
         UNCHANGED <<enc, wire, plain>>
  PROVE  Transit' /\ StreamLen' + Len(inb') = StreamLen + Len(inb)
<1> DEFINE x == Head(inb)
           y == Xor(x, buf[j])
           l == StreamLen
           pb == IF enc THEN x ELSE y
           cb == IF enc THEN y ELSE x
<1>0. /\ CtxType /\ CallType /\ StreamType
      /\ l \in Nat /\ Len(done) * BS \in Nat /\ Len(done) \in Nat /\ fill \in Nat
  BY StreamLenType DEF TypeOK
<1>1. /\ x \in Byte /\ x = inb[1] /\ Len(inb) \in Nat /\ Len(inb) > 0
      /\ Len(inb') = Len(inb) - 1
      /\ \A n \in 1 .. Len(inb') : inb'[n] = inb[n + 1]
  BY <1>0, HeadTailProperties DEF CallType
<1>2. y \in Byte /\ out' = Append(out, y) /\ out \in Seq(Byte)
  BY <1>0, <1>1, ConstantsType DEF CryptByte, CtxType, CallType, Block
<1>3. RecordByte(pb, cb)
  BY DEF CryptByte
<1>4. Source' = Source /\ Written' = Append(Written, y)
  <2>1. Written' = Target \o Append(out, y) /\ Written = Target \o out
    BY <1>2 DEF Written, Target, Pending
  <2>2. Target \in Seq(Byte)
    BY TextsType
  <2>3. Target \o Append(out, y) = Append(Target \o out, y)
    BY <1>2, <2>2
  <2> QED
    BY <2>1, <2>3 DEF Source
<1> HIDE DEF y
<1>5. /\ Written \in Seq(Byte) /\ Source \in Seq(Byte) /\ Len(Written) = l
      /\ Len(Written') = l + 1 /\ Written'[l + 1] = y
      /\ \A n \in 1 .. l : Written'[n] = Written[n]
  <2>1. Written \in Seq(Byte) /\ Source \in Seq(Byte) /\ Len(Written) = l
    BY TextsType DEF Transit
  <2> QED
    BY <1>2, <1>4, <2>1, AppendProperties
<1>6. Source[l + 1] = x /\ l + Len(inb) <= Len(Source)
  BY <1>0, <1>1 DEF Transit
<1>7. /\ \A n \in 1 .. l : Plain'[n] = Plain[n] /\ Cipher'[n] = Cipher[n]
      /\ Plain'[l + 1] = pb /\ Cipher'[l + 1] = cb
  BY <1>4, <1>5, <1>6 DEF Plain, Cipher
<1>8. Open /\ Carries(done, part, fill, Plain, Cipher)
  BY DEF Transit
<1> DEFINE nb == [p |-> [part.p EXCEPT ![fill] = pb], c |-> [part.c EXCEPT ![fill] = cb]]
<1>9. /\ fill + 1 < BS => Carries(done, nb, fill + 1, Plain', Cipher')
      /\ fill + 1 = BS => Carries(Append(done, nb), ZeroPair, 0, Plain', Cipher')
  <2>1. pb \in Byte /\ cb \in Byte
    BY <1>1, <1>2
  <2>2. l = Len(done) * BS + fill
    BY DEF StreamLen
  <2>3. done \in Seq(Pair) /\ part \in Pair /\ fill \in Pos
    BY <1>0 DEF StreamType
  <2> HIDE DEF pb, cb, l
  <2> QED
    BY <1>7, <1>8, <2>1, <2>2, <2>3, CarriesByte
<1>10. /\ StreamLen' = l + 1
       /\ Open' /\ Carries(done', part', fill', Plain', Cipher')
  <2>1. CASE fill + 1 < BS /\ part' = nb /\ fill' = fill + 1 /\ UNCHANGED <<base, done>>
    BY <1>0, <1>8, <1>9, <2>1 DEF StreamLen, Open
  <2>2. CASE fill + 1 = BS /\ done' = Append(done, nb) /\ part' = ZeroPair /\ fill' = 0 /\ UNCHANGED base
    <3>1. Len(done') = Len(done) + 1
      BY <1>0, <2>2, AppendProperties DEF StreamType
    <3>2. (Len(done) + 1) * BS = Len(done) * BS + BS
      BY <1>0, AtNext
    <3>3. StreamLen' = l + 1
      BY <1>0, <2>2, <3>1, <3>2 DEF StreamLen
    <3> QED
      BY <1>8, <1>9, <2>2, <3>3 DEF Open
  <2> QED
    BY <1>3, <1>8, <2>1, <2>2 DEF RecordByte
<1>11. \A n \in 1 .. Len(inb') : inb'[n] = Source'[StreamLen' + n]
  <2>1. SUFFICES ASSUME NEW n \in 1 .. Len(inb') PROVE inb'[n] = Source'[StreamLen' + n]
    OBVIOUS
  <2>2. n + 1 \in 1 .. Len(inb) /\ l + (n + 1) = (l + 1) + n
    BY <1>0, <1>1
  <2>3. inb[n + 1] = Source[l + (n + 1)]
    BY <2>2 DEF Transit
  <2> QED
    BY <1>1, <1>4, <1>10, <2>2, <2>3
<1>12. Len(Written') = StreamLen' /\ StreamLen' + Len(inb') <= Len(Source')
       /\ StreamLen' + Len(inb') = StreamLen + Len(inb)
  <2> HIDE DEF x
  <2> QED
    BY <1>0, <1>1, <1>4, <1>5, <1>6, <1>10
<1> QED
  BY <1>10, <1>11, <1>12 DEF Transit

\* A step that moves a whole block.
LEMMA TransitBlock ==
  ASSUME CfbInv, TransferType, Transit, CfbBlock, UNCHANGED <<wire, plain>>
  PROVE  Transit' /\ StreamLen' + Len(inb') = StreamLen + Len(inb)
<1> DEFINE gamma == E(gctx.key, gctx.sbox, civ)
           x == [j \in Pos |-> inb[j + 1]]
           y == [j \in Pos |-> Xor(x[j], gamma[j])]
           pb == IF enc THEN x ELSE y
           cb == IF enc THEN y ELSE x
           l == StreamLen
           more == [j \in 1 .. BS |-> y[j - 1]]
           nb == [p |-> pb, c |-> cb]
<1>0. /\ TypeOK /\ CtxType /\ CallType /\ StreamType
      /\ l \in Nat /\ Len(done) * BS \in Nat /\ Len(done) \in Nat /\ fill \in Nat
  BY StreamLenType DEF CfbInv, TypeInv, TypeOK
<1>1. gamma \in Block /\ x \in Block
  BY <1>0, ConstantsType DEF CtxType, CallType, CfbBlock, Block, Pos
<1>2. y \in Block
  BY <1>1, ConstantsType DEF Block
<1>3. /\ inb \in Seq(Byte) /\ Len(inb) \in Nat /\ Len(inb) >= BS /\ inb # <<>> /\ out \in Seq(Byte)
      /\ pc # "idle" /\ pc' # "idle" /\ pc \in {"blocks", "cfb"} /\ enc' = enc
      /\ RecordBlock(pb, cb)
      /\ inb' = SubSeq(inb, BS + 1, Len(inb)) /\ out' = out \o more
  BY <1>0 DEF CfbBlock, ctxVars, CallType
<1>4. fill = 0 /\ l = Len(done) * BS
  BY <1>0, <1>3 DEF CfbInv, StreamInv, Aligned, Transit, StreamLen
<1>5. /\ more \in Seq(Byte) /\ Len(more) = BS
      /\ \A j \in Pos : more[j + 1] = y[j]
  <2>1. more \in [1 .. BS -> Byte]
    BY <1>2 DEF Block, Pos
  <2>2. \A j \in Pos : more[j + 1] = y[j]
    BY DEF Pos
  <2> HIDE DEF more
  <2>3. more \in Seq(Byte) /\ Len(more) = BS
    BY <2>1
  <2> QED
    BY <2>2, <2>3
<1>6. \A j \in Pos : x[j] = inb[j + 1]
  OBVIOUS
<1> HIDE DEF more, x, y
<1>7. Source' = Source /\ Written' = Written \o more
  <2>1. Written' = Target \o (out \o more) /\ Written = Target \o out /\ Target \in Seq(Byte)
    BY <1>0, <1>3, TextsType DEF Written, Target, Pending
  <2>2. Target \o (out \o more) = (Target \o out) \o more
    BY <1>3, <1>5, <2>1, ConcatAgain
  <2> QED
    BY <1>3, <2>1, <2>2 DEF Source
<1>8. /\ Written \in Seq(Byte) /\ Source \in Seq(Byte) /\ Len(Written) = l
  BY <1>0, TextsType DEF Transit
<1>9. /\ Len(Written') = l + BS
      /\ \A n \in 1 .. l : Written'[n] = Written[n]
      /\ \A j \in Pos : Written'[l + j + 1] = y[j]
  <2>1. /\ Len(Written') = l + BS
        /\ \A n \in 1 .. l + BS : Written'[n] = IF n <= l THEN Written[n] ELSE more[n - l]
    BY <1>5, <1>7, <1>8, ConcatProperties
  <2>2. ASSUME NEW j \in Pos PROVE Written'[l + j + 1] = y[j]
    <3>1. l + j + 1 \in 1 .. l + BS /\ l + j + 1 > l /\ (l + j + 1) - l = j + 1
      BY <1>0 DEF Pos
    <3> DEFINE n == l + j + 1
    <3>2. n \in 1 .. l + BS /\ ~(n <= l) /\ n - l = j + 1
      BY <1>0, <3>1
    <3> HIDE DEF n
    <3>3. Written'[n] = more[j + 1]
      BY <2>1, <3>2
    <3> QED
      BY <1>5, <3>3 DEF n
  <2>3. \A n \in 1 .. l : n \in 1 .. l + BS /\ n <= l
    BY <1>0
  <2> QED
    BY <2>1, <2>2, <2>3
<1>10. \A j \in Pos : Source[l + j + 1] = x[j]
  <2>1. SUFFICES ASSUME NEW j \in Pos PROVE Source[l + j + 1] = x[j]
    OBVIOUS
  <2>2. j + 1 \in 1 .. Len(inb) /\ l + (j + 1) = l + j + 1
    BY <1>0, <1>3 DEF Pos
  <2>3. inb[j + 1] = Source[l + (j + 1)]
    BY <2>2 DEF Transit
  <2> QED
    BY <1>6, <2>2, <2>3
<1>11. /\ \A n \in 1 .. l : Plain'[n] = Plain[n] /\ Cipher'[n] = Cipher[n]
       /\ \A j \in Pos : Plain'[l + j + 1] = pb[j] /\ Cipher'[l + j + 1] = cb[j]
  BY <1>3, <1>7, <1>9, <1>10 DEF Plain, Cipher
<1>12. nb \in Pair
  BY <1>1, <1>2 DEF Pair
<1>13. Carries(Append(done, nb), part, 0, Plain', Cipher')
  <2>1. Carries(done, part, 0, Plain, Cipher)
    BY <1>4 DEF Transit
  <2>2. done \in Seq(Pair) /\ part \in Pair
    BY <1>0 DEF StreamType
  <2>3. \A j \in Pos : /\ nb.p[j] = Plain'[Len(done) * BS + j + 1]
                       /\ nb.c[j] = Cipher'[Len(done) * BS + j + 1]
    BY <1>4, <1>11
  <2>4. \A n \in 1 .. Len(done) * BS : Plain'[n] = Plain[n] /\ Cipher'[n] = Cipher[n]
    BY <1>4, <1>11
  <2> HIDE DEF nb
  <2> QED
    BY <1>12, <2>1, <2>2, <2>3, <2>4, CarriesBlock
<1>14. done' = Append(done, nb) /\ UNCHANGED <<base, part, fill>> /\ Open
  BY <1>3 DEF RecordBlock, Transit
<1>15. StreamLen' = l + BS
  <2>1. Len(done') = Len(done) + 1
    BY <1>0, <1>14, AppendProperties DEF StreamType
  <2>2. (Len(done) + 1) * BS = Len(done) * BS + BS
    BY <1>0, AtNext
  <2> QED
    BY <1>0, <1>4, <1>14, <2>1, <2>2 DEF StreamLen
<1>16. /\ Len(inb') = Len(inb) - BS
       /\ \A n \in 1 .. Len(inb') : inb'[n] = inb[n + BS]
  <2>1. /\ Len(SubSeq(inb, BS + 1, Len(inb))) = Len(inb) - BS
        /\ \A n \in 1 .. Len(inb) - BS : SubSeq(inb, BS + 1, Len(inb))[n] = inb[BS + 1 + n - 1]
    BY <1>3, SubSeqProperties
  <2> QED
    BY <1>3, <2>1
<1>17. \A n \in 1 .. Len(inb') : inb'[n] = Source'[StreamLen' + n]
  <2>1. SUFFICES ASSUME NEW n \in 1 .. Len(inb') PROVE inb'[n] = Source'[StreamLen' + n]
    OBVIOUS
  <2>2. n + BS \in 1 .. Len(inb) /\ l + (n + BS) = (l + BS) + n
    BY <1>0, <1>3, <1>16
  <2>3. inb[n + BS] = Source[l + (n + BS)]
    BY <2>2 DEF Transit
  <2> QED
    BY <1>7, <1>15, <1>16, <2>2, <2>3
<1>18. Len(Written') = StreamLen' /\ StreamLen' + Len(inb') = l + Len(inb)
       /\ Len(Source') = Len(Source)
  <2>1. Len(Written') = StreamLen' /\ Len(Source') = Len(Source)
    BY <1>7, <1>9, <1>15
  <2>2. (l + BS) + (Len(inb) - BS) = l + Len(inb)
    BY <1>0, <1>3
  <2> QED
    BY <1>15, <1>16, <2>1, <2>2
<1>19. StreamLen' + Len(inb') <= Len(Source')
  BY <1>18 DEF Transit
<1> QED
  BY <1>4, <1>13, <1>14, <1>17, <1>18, <1>19 DEF Transit, Open

\* A data call starts: what it is given is the source from the end of the
\* stream on.
LEMMA TransitStart ==
  ASSUME TypeOK, TransferType, TransferType', Transit, pc = "idle",
         NEW chunk \in Seq(Byte), DoCipher(chunk), UNCHANGED <<wire.cipher, plain>>,
         \A n \in 1 .. StreamLen : Source'[n] = Source[n],
         StreamLen + Len(chunk) <= Len(Source'),
         \A n \in 1 .. Len(chunk) : chunk[n] = Source'[StreamLen + n]
  PROVE  Transit' /\ StreamLen' = StreamLen
<1>0. /\ StreamType /\ StreamLen \in Nat /\ Len(done) * BS \in Nat /\ Len(done) \in Nat
      /\ fill \in Nat
  BY StreamLenType DEF TypeOK
<1>1. /\ UNCHANGED streamVars /\ UNCHANGED enc /\ inb' = chunk /\ out' = <<>>
  BY DEF DoCipher, ctxVars
<1>2. Written' = Written /\ StreamLen' = StreamLen
  BY <1>1 DEF Written, Target, Pending, StreamLen, streamVars
<1>3. \A n \in 1 .. StreamLen : Plain'[n] = Plain[n] /\ Cipher'[n] = Cipher[n]
  BY <1>1, <1>2 DEF Plain, Cipher
<1>4. Carries(done, part, fill, Plain', Cipher')
  <2>1. done \in Seq(Pair) /\ fill \in Pos /\ Carries(done, part, fill, Plain, Cipher)
    BY <1>0 DEF StreamType, Transit
  <2> QED
    BY <1>3, <2>1, CarriesAgain DEF StreamLen
<1> QED
  BY <1>1, <1>2, <1>4 DEF Transit, streamVars, Open

\* A data call returns: what it has written now lies in the target.
LEMMA TransitReturn ==
  ASSUME TypeOK, TransferType, Transit, DoCipherReturn, Source' = Source,
         Target' = Target \o out
  PROVE  Transit' /\ StreamLen' = StreamLen
<1>1. /\ UNCHANGED streamVars /\ UNCHANGED <<enc, inb>> /\ pc # "idle" /\ pc' = "idle"
  BY DEF DoCipherReturn
<1>2. Written' = Written
  <2>1. Written' = (Target \o out) \o <<>> /\ Written = Target \o out
    BY <1>1 DEF Written, Pending
  <2>2. Written \in Seq(Byte)
    BY TextsType
  <2> QED
    BY <2>1, <2>2
<1> QED
  BY <1>1, <1>2 DEF Transit, streamVars, Open, Plain, Cipher, StreamLen

\* A stream that has just been opened carries nothing yet.
LEMMA TransitEmpty ==
  ASSUME NEW k \in Key, NEW s \in Sbox, NEW v \in Block, OpenStream(k, s, v),
         pc' = "idle", inb' = <<>>, Target' = <<>>, Source' \in Seq(Byte)
  PROVE  Transit' /\ StreamLen' = 0 /\ base' = [key |-> k, sbox |-> s, iv |-> v]
<1>1. /\ base' = [key |-> k, sbox |-> s, iv |-> v] /\ done' = <<>> /\ fill' = 0
  BY DEF OpenStream
<1>2. base' \in Params
  BY <1>1 DEF Params
<1>3. Open'
  BY <1>2, NoneAssumption DEF Open
<1>4. StreamLen' = 0
  BY <1>1 DEF StreamLen
<1>5. Written' = <<>>
  BY DEF Written, Pending
<1>6. Len(Written') = StreamLen' /\ StreamLen' + Len(inb') <= Len(Source')
  BY <1>4, <1>5
<1>7. Carries(done', part', fill', Plain', Cipher')
  BY <1>1 DEF Carries
<1> QED
  BY <1>1, <1>3, <1>4, <1>6, <1>7 DEF Transit

LEMMA CfbSteps == CfbInv /\ (Setup \/ DoCipherStep) => CfbInv'
BY NextCfb DEF Next

LEMMA CfbStart ==
  ASSUME CfbInv, NEW chunk \in Seq(Byte), chunk # <<>>, DoCipher(chunk)
  PROVE  CfbInv'
BY DoCipherType, DoCipherStream DEF CfbInv

-----------------------------------------------------------------------------
(* One lemma per action of the transfer.                                   *)

LEMMA CfbParts ==
  ASSUME TransferInv
  PROVE  /\ TypeOK /\ CtxType /\ CallType /\ StreamType /\ Control /\ TransferType
         /\ StreamLen \in Nat
         /\ pc = "idle" => inb = <<>> /\ Pending = <<>>
BY StreamLenType DEF TransferInv, CfbInv, TypeInv, TypeOK, Control, Pending

LEMMA SenderInitTransfer ==
  ASSUME TransferInv, NEW k \in Key, NEW v \in IVs, SenderInit(k, v)
  PROVE  TransferInv'
<1>1. /\ phase = "setup" /\ phase' = "send" /\ UNCHANGED <<wire, plain>>
      /\ CipherInit(k, v, TRUE)
  BY DEF SenderInit, GoTo
<1>2. CfbInv'
  BY <1>1, CfbSteps DEF TransferInv, Setup
<1>3. k # None /\ v # None /\ v \in Block
  BY NoneAssumption, InputAssumption
<1>4. /\ pc = "idle" /\ pc' = "idle" /\ inb' = inb /\ out' = <<>> /\ enc' = TRUE /\ oiv' = v
      /\ OpenStream(k, DefaultSbox, v)
  BY <1>1, <1>3 DEF CipherInit, Returns
<1>5. wire' = NoWire /\ plain' = <<>> /\ inb' = <<>>
  BY <1>1, <1>4, CfbParts DEF TransferInv, Sending
<1>6. TransferType'
  BY <1>1, <1>4, <1>5, CfbParts DEF TransferType
<1>7. Source' = <<>> /\ Target' = <<>>
  BY <1>4, <1>5 DEF Source, Target, NoWire
<1>8. Transit' /\ StreamLen' = 0
  BY <1>3, <1>4, <1>5, <1>7, TransitEmpty, ConstantsType
<1>9. Sending'
  BY <1>1, <1>4, <1>5, <1>8 DEF Sending, NoWire
<1> QED
  BY <1>1, <1>2, <1>6, <1>9 DEF TransferInv, Delivered, Receiving

LEMMA SenderSboxTransfer ==
  ASSUME TransferInv, NEW s \in Sbox, SenderSbox(s)
  PROVE  TransferInv'
<1>1. /\ phase = "send" /\ phase' = "send" /\ UNCHANGED <<wire, plain>> /\ wire.plain = <<>>
      /\ SetCustomSbox(s)
  BY DEF SenderSbox, GoTo
<1>2. CfbInv'
  BY <1>1, CfbSteps DEF TransferInv, Setup
<1>3. /\ pc = "idle" /\ pc' = "idle" /\ inb' = inb /\ out' = <<>> /\ UNCHANGED <<enc, oiv>>
      /\ UseSbox(s, oiv)
  BY <1>1 DEF SetCustomSbox, UseSbox, Returns
<1>4. /\ enc /\ oiv \in IVs /\ plain = <<>> /\ Transit /\ StreamLen = 0
      /\ inb = <<>> /\ Pending = <<>> /\ StreamType /\ TransferType /\ TypeOK
  <2>1. Len(wire.plain) = StreamLen + Len(inb) /\ Len(wire.plain) = 0
    BY <1>1 DEF TransferInv, Sending
  <2> QED
    BY <1>1, <1>3, <2>1, CfbParts DEF TransferInv, Sending
<1>5. fill = 0
  BY <1>4, StreamLenType DEF StreamLen
<1>6. num = 0
  BY <1>3, <1>4, <1>5 DEF TransferInv, CfbInv, StreamInv, Aligned, UnusedOf, Transit
<1>7. OpenStream(gctx.key, s, oiv) /\ gctx.key \in Key /\ oiv \in Block
  BY <1>3, <1>6, CfbParts DEF UseSbox, CtxType
<1>8. Target = <<>> /\ Target' = <<>> /\ Source' = <<>>
  <2>1. Target \in Seq(Byte) /\ Len(Target) = 0
    BY <1>4, TextsType DEF Transit
  <2> QED
    BY <1>1, <1>3, <1>4, <2>1 DEF Target, Source
<1>9. Transit' /\ StreamLen' = 0
  BY <1>3, <1>4, <1>7, <1>8, TransitEmpty
<1>10. TransferType'
  BY <1>1, <1>3, <1>4 DEF TransferType
<1>11. Sending'
  BY <1>1, <1>3, <1>4, <1>9 DEF Sending
<1> QED
  BY <1>1, <1>2, <1>10, <1>11 DEF TransferInv, Delivered, Receiving

LEMMA SenderEncryptsTransfer ==
  ASSUME TransferInv, NEW chunk \in Inputs, SenderEncrypts(chunk)
  PROVE  TransferInv'
<1>1. /\ phase = "send" /\ phase' = "send" /\ plain' = plain /\ DoCipher(chunk)
      /\ wire' = [wire EXCEPT !.plain = wire.plain \o chunk]
  BY DEF SenderEncrypts, GoTo
<1>2. chunk \in Seq(Byte) /\ chunk # <<>>
  BY InputAssumption
<1>3. CfbInv'
  BY <1>1, <1>2, CfbStart DEF TransferInv
<1>4. /\ pc = "idle" /\ inb' = chunk /\ UNCHANGED <<enc, oiv>>
  BY <1>1 DEF DoCipher, ctxVars
<1>5. /\ enc /\ oiv \in IVs /\ plain = <<>> /\ Transit /\ Len(wire.plain) = StreamLen
      /\ TypeOK /\ TransferType /\ StreamLen \in Nat
  <2>1. Len(wire.plain) = StreamLen + Len(inb) /\ inb = <<>> /\ StreamLen \in Nat
    BY <1>1, <1>4, CfbParts DEF TransferInv, Sending
  <2> QED
    BY <1>1, <2>1, CfbParts DEF TransferInv, Sending
<1>6. wire.plain \in Seq(Byte) /\ Source = wire.plain
  BY <1>5 DEF TransferType, Source
<1>7. /\ wire'.cipher = wire.cipher /\ wire'.key = wire.key /\ wire'.params = wire.params
      /\ Source' = wire.plain \o chunk /\ wire'.plain = Source'
  <2>1. wire'.cipher = wire.cipher /\ wire'.key = wire.key /\ wire'.params = wire.params
    BY <1>1
  <2>2. wire'.plain = wire.plain \o chunk
    BY <1>1
  <2> QED
    BY <1>4, <1>5, <2>1, <2>2 DEF Source
<1>8. /\ Source' \in Seq(Byte) /\ Len(Source') = StreamLen + Len(chunk)
      /\ \A n \in 1 .. StreamLen : Source'[n] = Source[n]
      /\ \A n \in 1 .. Len(chunk) : chunk[n] = Source'[StreamLen + n]
  <2>1. Len(chunk) \in Nat /\ Len(Source) = StreamLen
    BY <1>2, <1>5, <1>6
  <2>2. /\ Source' \in Seq(Byte) /\ Len(Source') = StreamLen + Len(chunk)
        /\ \A n \in 1 .. StreamLen + Len(chunk) :
             Source'[n] = IF n <= StreamLen THEN Source[n] ELSE chunk[n - StreamLen]
    <3> DEFINE new == wire.plain \o chunk
    <3>1. /\ new \in Seq(Byte) /\ Len(new) = Len(wire.plain) + Len(chunk)
          /\ \A n \in 1 .. Len(wire.plain) + Len(chunk) :
               new[n] = IF n <= Len(wire.plain) THEN wire.plain[n] ELSE chunk[n - Len(wire.plain)]
      BY <1>2, <1>6, ConcatProperties
    <3> HIDE DEF new
    <3>2. Source' = new /\ Source = wire.plain
      BY <1>6, <1>7 DEF new
    <3> QED
      BY <1>5, <3>1, <3>2
  <2>3. \A n \in 1 .. StreamLen : n \in 1 .. StreamLen + Len(chunk) /\ n <= StreamLen
    BY <1>5, <2>1
  <2>4. \A n \in 1 .. Len(chunk) : /\ StreamLen + n \in 1 .. StreamLen + Len(chunk)
                                   /\ ~(StreamLen + n <= StreamLen)
                                   /\ (StreamLen + n) - StreamLen = n
    BY <1>5, <2>1
  <2> QED
    BY <2>2, <2>3, <2>4
<1>9. TransferType'
  BY <1>1, <1>5, <1>7, <1>8 DEF TransferType
<1>10. Transit' /\ StreamLen' = StreamLen
  <2>1. UNCHANGED <<wire.cipher, plain>> /\ StreamLen + Len(chunk) <= Len(Source')
    BY <1>1, <1>2, <1>5, <1>7, <1>8
  <2> QED
    BY <1>1, <1>2, <1>4, <1>5, <1>8, <1>9, <2>1, TransitStart
<1>11. Sending'
  BY <1>1, <1>4, <1>5, <1>7, <1>8, <1>10 DEF Sending
<1> QED
  BY <1>1, <1>3, <1>9, <1>11 DEF TransferInv, Delivered, Receiving

LEMMA DeliverTransfer == TransferInv /\ Deliver => TransferInv'
<1> SUFFICES ASSUME TransferInv, Deliver PROVE TransferInv'
  OBVIOUS
<1>1. /\ phase = "send" /\ phase' = "fresh" /\ plain' = plain /\ Cleanup(FALSE)
      /\ wire' = [wire EXCEPT !.key = gctx.key, !.params = Asn1Parameters]
  BY DEF Deliver, GoTo
<1>2. CfbInv'
  BY <1>1, CfbSteps DEF TransferInv, Setup
<1>3. pc = "idle" /\ pc' = "idle" /\ num' = 0 /\ enc' = FALSE
  BY <1>1 DEF Cleanup, Returns
<1>4. /\ enc /\ oiv \in IVs /\ plain = <<>> /\ Transit /\ Len(wire.plain) = StreamLen
      /\ TypeOK /\ TransferType /\ StreamLen \in Nat /\ CtxType /\ StreamType /\ Pending = <<>>
  <2>1. Len(wire.plain) = StreamLen + Len(inb) /\ inb = <<>> /\ StreamLen \in Nat
    BY <1>1, <1>3, CfbParts DEF TransferInv, Sending
  <2> QED
    BY <1>1, <1>3, <2>1, CfbParts DEF TransferInv, Sending
<1>5. Open /\ Synced /\ IsCfb
  BY <1>4 DEF Transit, TransferInv, CfbInv, StreamInv
<1>6. Plain = wire.plain /\ Cipher = wire.cipher /\ Len(wire.cipher) = StreamLen
  <2>1. wire.cipher \in Seq(Byte) /\ Written = wire.cipher \o <<>>
    BY <1>4 DEF TransferType, Written, Target
  <2>2. Written = wire.cipher
    BY <2>1
  <2> QED
    BY <1>4, <2>2 DEF Plain, Cipher, Source, Transit
<1>7. CfbText(wire.plain, wire.cipher, base.key, base.sbox, base.iv, StreamLen)
  BY <1>4, <1>5, <1>6, CarriedIsCfb DEF Transit
<1>8. /\ wire'.plain = wire.plain /\ wire'.cipher = wire.cipher /\ wire'.key = gctx.key
      /\ wire'.params = [iv |-> oiv, sbox |-> gctx.sbox]
  BY <1>1 DEF Asn1Parameters
<1>9. gctx.key = base.key /\ gctx.sbox = base.sbox /\ oiv = base.iv
  BY <1>5 DEF Synced
<1>10. Delivered'
  BY <1>1, <1>3, <1>4, <1>6, <1>7, <1>8, <1>9 DEF Delivered
<1>11. TransferType'
  BY <1>1, <1>3, <1>4, <1>8 DEF TransferType, CtxType
<1> QED
  BY <1>1, <1>2, <1>3, <1>4, <1>10, <1>11 DEF TransferInv, Sending, Receiving

LEMMA ReceiverKeyTransfer ==
  ASSUME ~ParamsFirst, TransferInv, ReceiverKey
  PROVE  TransferInv'
<1>1. /\ phase = "fresh" /\ phase' = "half" /\ UNCHANGED <<wire, plain>>
      /\ CipherInit(wire.key, None, FALSE)
  BY DEF ReceiverKey, GoTo
<1>2. wire.key \in Key /\ TransferType
  BY CfbParts DEF TransferType
<1>3. CfbInv'
  BY <1>1, <1>2, CfbSteps DEF TransferInv, Setup
<1>4. wire.key # None
  BY <1>2, NoneAssumption
<1>5. pc = "idle" /\ pc' = "idle" /\ num' = num /\ enc' = FALSE
      /\ gctx' = [key |-> wire.key, sbox |-> DefaultSbox]
  BY <1>1, <1>4 DEF CipherInit, Returns
<1>6. TransferType' /\ Delivered'
  BY <1>1, <1>2, <1>5 DEF TransferInv, TransferType, Delivered
<1> QED
  BY <1>1, <1>3, <1>5, <1>6 DEF TransferInv, Sending, Receiving

LEMMA ReceiverParametersTransfer ==
  ASSUME ~ParamsFirst, TransferInv, ReceiverParameters
  PROVE  TransferInv'
<1>1. /\ phase = "half" /\ phase' = "receive" /\ UNCHANGED <<wire, plain>>
      /\ GetAsn1Parameters(wire.params.iv, wire.params.sbox)
  BY DEF ReceiverParameters, GoTo
<1>2. /\ TransferType /\ wire.params.iv \in IVs /\ wire.params.iv \in Block
      /\ wire.params.sbox \in Sbox /\ ~enc /\ plain = <<>> /\ num = 0 /\ gctx.key = wire.key
      /\ wire.key \in Key /\ Delivered
  BY <1>1, CfbParts DEF TransferInv, TransferType, Delivered, Receiving
<1>3. CfbInv'
  BY <1>1, <1>2, CfbSteps DEF TransferInv, Setup
<1>4. /\ pc = "idle" /\ pc' = "idle" /\ inb' = inb /\ enc' = enc
      /\ OpenStream(wire.key, wire.params.sbox, wire.params.iv)
  BY <1>1, <1>2 DEF GetAsn1Parameters, UseSbox, Returns
<1>5. Source' = wire.cipher /\ Target' = <<>> /\ inb' = <<>> /\ wire.cipher \in Seq(Byte)
  BY <1>1, <1>2, <1>4, CfbParts DEF Source, Target, TransferType
<1>6. Transit' /\ base' = [key |-> wire.key, sbox |-> wire.params.sbox, iv |-> wire.params.iv]
  BY <1>2, <1>4, <1>5, TransitEmpty
<1>7. TransferType' /\ Delivered'
  BY <1>1, <1>2, <1>4 DEF TransferType, Delivered
<1> QED
  BY <1>1, <1>3, <1>6, <1>7 DEF TransferInv, Sending, Receiving

LEMMA ReceiverDecryptsTransfer ==
  ASSUME TransferInv, NEW n \in Sizes, ReceiverDecrypts(n)
  PROVE  TransferInv'
<1> DEFINE l == Len(plain)
           chunk == SubSeq(wire.cipher, l + 1, l + n)
<1>1. /\ phase = "receive" /\ phase' = "receive" /\ UNCHANGED <<wire, plain>>
      /\ l + n <= Len(wire.cipher) /\ DoCipher(chunk)
  BY DEF ReceiverDecrypts, GoTo
<1>2. n \in Nat /\ n > 0
  BY TransferAssumption
<1>3. /\ TransferType /\ TypeOK /\ StreamLen \in Nat /\ Transit /\ ~enc /\ Delivered
      /\ base = [key |-> wire.key, sbox |-> wire.params.sbox, iv |-> wire.params.iv]
  BY <1>1, CfbParts DEF TransferInv, Delivered, Receiving
<1>4. wire.cipher \in Seq(Byte) /\ plain \in Seq(Byte) /\ l \in Nat
  BY <1>3 DEF TransferType
<1>5. /\ chunk \in Seq(Byte) /\ Len(chunk) = n /\ chunk # <<>>
      /\ \A m \in 1 .. n : chunk[m] = wire.cipher[l + m]
  <2>1. l + 1 \in 1 .. Len(wire.cipher) + 1 /\ l + n \in (l + 1) - 1 .. Len(wire.cipher)
    BY <1>1, <1>2, <1>4
  <2>2. /\ chunk \in Seq(Byte)
        /\ Len(chunk) = IF l + 1 <= l + n THEN (l + n) - (l + 1) + 1 ELSE 0
        /\ \A m \in 1 .. (l + n) - (l + 1) + 1 : chunk[m] = wire.cipher[(l + 1) + m - 1]
    BY <1>1, <1>2, <1>4, <2>1, SubSeqProperties
  <2>3. (l + n) - (l + 1) + 1 = n /\ l + 1 <= l + n
    BY <1>2, <1>4
  <2>4. \A m \in 1 .. n : (l + 1) + m - 1 = l + m
    BY <1>4
  <2> HIDE DEF chunk, l
  <2> QED
    BY <1>2, <2>2, <2>3, <2>4
<1> HIDE DEF chunk
<1>6. CfbInv'
  BY <1>1, <1>5, CfbStart DEF TransferInv
<1>7. pc = "idle" /\ UNCHANGED enc /\ UNCHANGED base
  BY <1>1 DEF DoCipher, ctxVars, streamVars
<1>8. StreamLen = l
  <2>1. Written = plain \o <<>>
    BY <1>3, <1>7 DEF Written, Target, Pending
  <2> QED
    BY <1>3, <1>4, <2>1 DEF Transit
<1>9. TransferType' /\ Delivered'
  BY <1>1, <1>3, <1>7 DEF TransferType, Delivered
<1>10. Source' = wire.cipher /\ Source = wire.cipher
  BY <1>1, <1>3, <1>7 DEF Source
<1>11. Transit'
  BY <1>1, <1>3, <1>5, <1>7, <1>8, <1>9, <1>10, TransitStart
<1> QED
  BY <1>1, <1>3, <1>6, <1>7, <1>9, <1>11 DEF TransferInv, Sending, Receiving

\* The phase and the texts are as before, and the stream carries them on.
LEMMA SamePhase ==
  ASSUME TransferInv, CfbInv', UNCHANGED <<phase, wire, plain, enc, oiv, base>>,
         phase \in {"send", "receive"},
         Transit', StreamLen' + Len(inb') = StreamLen + Len(inb)
  PROVE  TransferInv'
<1>1. TransferType' /\ Delivered'
  BY DEF TransferInv, TransferType, Delivered
<1>2. Sending' /\ Receiving'
  BY DEF TransferInv, Sending, Receiving
<1> QED
  BY <1>1, <1>2 DEF TransferInv

LEMMA DataCallTransfer == TransferInv /\ DataCall => TransferInv'
<1> SUFFICES ASSUME TransferInv, DataCall PROVE TransferInv'
  OBVIOUS
<1>1. CfbInv' /\ UNCHANGED <<phase, wire, plain>>
  BY CfbSteps DEF DataCall, DoCipherStep, TransferInv
<1>2. pc # "idle" /\ UNCHANGED <<enc, oiv>>
  BY DEF DataCall, HeadByte, HeadEnd, CfbBlock, BlocksEnd, TailByte, ctxVars
<1>3. phase \in {"send", "receive"} /\ Transit /\ TypeOK /\ TransferType /\ CfbInv
  BY <1>2, CfbParts DEF TransferInv, TransferType, Sending, Receiving
<1>4. CtxType /\ CallType /\ StreamType /\ Control
  BY CfbParts
<1>5. ASSUME HeadByte
      PROVE  Transit' /\ StreamLen' + Len(inb') = StreamLen + Len(inb) /\ UNCHANGED base
  <2>1. /\ num \in Nat /\ num > 0 /\ num < BS /\ toUse \in Nat /\ i \in Nat
        /\ i < toUse /\ toUse <= num /\ inb \in Seq(Byte) /\ toUse - i <= Len(inb)
    BY <1>4, <1>5 DEF CtxType, CallType, Control, HeadByte, Pos
  <2>2. inb # <<>> /\ BS - num + i \in Pos
    BY <2>1 DEF Pos
  <2>3. CryptByte(Head(inb), BS - num + i) /\ inb' = Tail(inb) /\ UNCHANGED <<enc, pc>>
    BY <1>5 DEF HeadByte
  <2>4. UNCHANGED base
    BY <2>3 DEF CryptByte, RecordByte, streamVars
  <2> QED
    BY <1>1, <1>2, <1>3, <2>2, <2>3, <2>4, TransitByte
<1>6. ASSUME TailByte
      PROVE  Transit' /\ StreamLen' + Len(inb') = StreamLen + Len(inb) /\ UNCHANGED base
  <2>1. CryptByte(Head(inb), i) /\ inb' = Tail(inb) /\ UNCHANGED <<enc, pc>> /\ inb # <<>>
    BY <1>6 DEF TailByte
  <2>2. i \in Pos /\ UNCHANGED base
    BY <1>4, <2>1 DEF CryptByte, RecordByte, streamVars, CallType
  <2> QED
    BY <1>1, <1>2, <1>3, <2>1, <2>2, TransitByte
<1>7. ASSUME HeadEnd \/ BlocksEnd
      PROVE  Transit' /\ StreamLen' + Len(inb') = StreamLen + Len(inb) /\ UNCHANGED base
  <2>1. UNCHANGED <<streamVars, inb, out, enc>> /\ pc' # "idle"
    BY <1>7 DEF HeadEnd, BlocksEnd
  <2> QED
    BY <1>1, <1>2, <1>3, <2>1, TransitSame DEF streamVars
<1>8. ASSUME CfbBlock
      PROVE  Transit' /\ StreamLen' + Len(inb') = StreamLen + Len(inb) /\ UNCHANGED base
  <2>1. UNCHANGED base
    BY <1>8 DEF CfbBlock, RecordBlock, streamVars
  <2> QED
    BY <1>1, <1>3, <1>8, <2>1, TransitBlock
<1> QED
  BY <1>1, <1>2, <1>3, <1>5, <1>6, <1>7, <1>8, SamePhase DEF DataCall

LEMMA DataReturnTransfer == TransferInv /\ DataReturn => TransferInv'
<1> SUFFICES ASSUME TransferInv, DataReturn PROVE TransferInv'
  OBVIOUS
<1>1. CfbInv' /\ phase' = phase /\ DoCipherReturn
  BY CfbSteps DEF DataReturn, DoCipherStep, TransferInv
<1>2. /\ pc # "idle" /\ pc' = "idle" /\ UNCHANGED <<enc, oiv, inb>> /\ UNCHANGED streamVars
      /\ TypeOK /\ TransferType /\ out \in Seq(Byte)
  BY <1>1, CfbParts DEF DoCipherReturn, CallType
<1>3. CASE phase = "send" /\ wire' = [wire EXCEPT !.cipher = wire.cipher \o out] /\ plain' = plain
  <2>1. /\ enc /\ oiv \in IVs /\ plain = <<>> /\ Transit
        /\ Len(wire.plain) = StreamLen + Len(inb)
    BY <1>3 DEF TransferInv, Sending
  <2>2. /\ wire'.cipher = wire.cipher \o out /\ wire'.plain = wire.plain
        /\ wire'.key = wire.key /\ wire'.params = wire.params
    BY <1>3 DEF NoWire
  <2>3. Source' = Source /\ Target' = Target \o out
    BY <1>2, <2>1, <2>2 DEF Source, Target
  <2>4. Transit' /\ StreamLen' = StreamLen
    BY <1>1, <1>2, <2>1, <2>3, TransitReturn
  <2>5. TransferType'
    <3>1. wire.cipher \o out \in Seq(Byte)
      BY <1>2, ConcatProperties DEF TransferType
    <3> QED
      BY <1>1, <1>2, <1>3, <2>2, <3>1 DEF TransferType
  <2>6. Sending'
    BY <1>1, <1>2, <1>3, <2>1, <2>2, <2>4 DEF Sending
  <2> QED
    BY <1>1, <1>3, <2>5, <2>6 DEF TransferInv, Delivered, Receiving
<1>4. CASE phase = "receive" /\ plain' = plain \o out /\ wire' = wire
  <2>1. /\ Transit /\ ~enc
        /\ base = [key |-> wire.key, sbox |-> wire.params.sbox, iv |-> wire.params.iv]
    BY <1>4 DEF TransferInv, Delivered, Receiving
  <2>2. Source' = Source /\ Target' = Target \o out
    BY <1>2, <1>4, <2>1 DEF Source, Target
  <2>3. Transit'
    BY <1>1, <1>2, <2>1, <2>2, TransitReturn
  <2>4. TransferType' /\ Delivered'
    <3>1. plain \o out \in Seq(Byte)
      BY <1>2, ConcatProperties DEF TransferType
    <3> QED
      BY <1>1, <1>2, <1>4, <3>1 DEF TransferInv, TransferType, Delivered
  <2>5. Receiving'
    BY <1>1, <1>2, <1>4, <2>1, <2>3 DEF Receiving, streamVars
  <2> QED
    BY <1>1, <1>4, <2>4, <2>5 DEF TransferInv, Sending
<1> QED
  BY <1>3, <1>4 DEF DataReturn

LEMMA NextTransfer ==
  ASSUME ~ParamsFirst, TransferInv, [TransferNext]_tvars
  PROVE  TransferInv'
<1>1. CASE UNCHANGED tvars
  <2>1. CfbInv'
    BY <1>1, NextCfb DEF tvars, TransferInv
  <2>2. UNCHANGED <<phase, wire, plain, pc, out, inb, enc, oiv, num, gctx, base, done, part, fill>>
    BY <1>1 DEF tvars, vars, ctxVars, callVars, streamVars
  <2>3. Transit <=> Transit'
    BY <2>2 DEF Transit, Open, Written, Target, Pending, Source, Plain, Cipher, StreamLen
  <2>4. TransferType' /\ Delivered'
    BY <2>2 DEF TransferInv, TransferType, Delivered
  <2>5. Sending' /\ Receiving'
    BY <2>2, <2>3 DEF TransferInv, Sending, Receiving, StreamLen
  <2> QED
    BY <2>1, <2>4, <2>5 DEF TransferInv
<1> QED
  BY <1>1, SenderInitTransfer, SenderSboxTransfer, SenderEncryptsTransfer, DeliverTransfer,
     ReceiverKeyTransfer, ReceiverParametersTransfer, ReceiverDecryptsTransfer,
     DataCallTransfer, DataReturnTransfer DEF TransferNext

LEMMA TransferInitially == TransferInit => TransferInv
<1> SUFFICES ASSUME TransferInit PROVE TransferInv
  OBVIOUS
<1>1. Init /\ phase = "setup" /\ wire = NoWire /\ plain = <<>>
  BY DEF TransferInit
<1>2. CfbInv
  BY <1>1, InitCfb
<1>3. TransferType
  BY <1>1, ConstantsType DEF TransferType, NoWire, Init
<1> QED
  BY <1>1, <1>2, <1>3 DEF TransferInv, Sending, Delivered, Receiving

\* A sequence that agrees with the beginning of another one is that prefix.
LEMMA PrefixIsSubSeq ==
  ASSUME NEW S, NEW s \in Seq(S), NEW t \in Seq(S), Len(s) <= Len(t),
         \A n \in 1 .. Len(s) : s[n] = t[n]
  PROVE  s = SubSeq(t, 1, Len(s))
OBVIOUS

\* Two texts whose beginnings encrypt to the same bytes, under the same key,
\* sbox and IV, begin alike.
LEMMA CfbTextUnique ==
  ASSUME NEW p \in Seq(Byte), NEW r \in Seq(Byte), NEW c \in Seq(Byte),
         NEW k \in Key, NEW s \in Sbox, NEW v \in Block, NEW l \in Nat,
         l <= Len(p), l <= Len(r), l <= Len(c),
         CfbText(p, c, k, s, v, l), CfbText(r, c, k, s, v, l)
  PROVE  \A n \in 1 .. l : p[n] = r[n]
<1> SUFFICES ASSUME NEW n \in 1 .. l PROVE p[n] = r[n]
  OBVIOUS
<1>1. PICK q \in Nat \ {0}, j \in Pos : n = At(q, j)
  <2>1. n \in 1 .. n * BS + 0 /\ 0 \in Pos /\ n \in Nat
    <3>1. BS >= 1 /\ n \in Nat
      OBVIOUS
    <3>2. n * BS >= n /\ n * BS \in Nat
      BY <3>1, SMT
    <3> QED
      BY <3>2, ConstantsType
  <2>2. \E q \in 1 .. n + 1, j \in Pos : n = At(q, j)
    <3>1. \A f \in Pos : n \in 1 .. n * BS + f =>
            \E q \in 1 .. n + 1, j \in Pos : n = At(q, j) /\ (q = n + 1 => j < f)
      BY <2>1, AtOnto
    <3> QED
      BY <2>1, <3>1
  <2>3. \A q \in 1 .. n + 1 : q \in Nat \ {0}
    BY <2>1
  <2> QED
    BY <2>2, <2>3
<1> DEFINE g == E(k, s, Feedback(c, v, q))[j]
<1>2. g \in Byte
  <2>1. Feedback(c, v, q) \in Block
    <3>1. CASE q = 1
      BY <3>1 DEF Feedback
    <3>2. CASE q # 1
      <4>1. ASSUME NEW h \in Pos PROVE c[At(q - 1, h)] \in Byte
        <5>1. q - 1 \in Nat \ {0} /\ h \in Nat /\ h < BS /\ j \in Nat
          BY <3>2 DEF Pos
        <5>2. At(q, j) = (q - 1) * BS + j + 1 /\ At(q - 1, h) \in Nat \ {0}
          BY <5>1, AtType DEF At
        <5>3. At(q - 1, h) <= (q - 1) * BS /\ (q - 1) * BS \in Nat
          <6>1. q - 1 \in 1 .. q - 1 /\ q - 1 \in Nat /\ BS \in Nat
            BY <5>1
          <6>2. (q - 1) * BS \in Nat
            BY <6>1, SMT
          <6> QED
            BY <6>1, <6>2, AtWithin
        <5>4. At(q - 1, h) \in 1 .. Len(c)
          BY <1>1, <5>1, <5>2, <5>3
        <5> QED
          BY <5>4
      <4> QED
        BY <3>2, <4>1 DEF Feedback, Block
    <3> QED
      BY <3>1, <3>2
  <2> QED
    BY <2>1, ConstantsType DEF Block
<1>3. c[n] = Xor(p[n], g) /\ c[n] = Xor(r[n], g)
  BY <1>1 DEF CfbText
<1>4. p[n] \in Byte /\ r[n] \in Byte
  OBVIOUS
<1> HIDE DEF g
<1>5. p[n] = Xor(Xor(p[n], g), g) /\ r[n] = Xor(Xor(r[n], g), g)
  BY <1>2, <1>4, XorCancels
<1> QED
  BY <1>3, <1>5

\* A receiver that sets the key before the parameters reads, at any point,
\* the beginning of what the sender has encrypted, whatever the chunks.
THEOREM TransferCorrect == ASSUME ~ParamsFirst PROVE TransferSpec => []RoundTrip
<1>1. TransferInv => RoundTrip
  <2> SUFFICES ASSUME TransferInv PROVE plain = SubSeq(wire.plain, 1, Len(plain))
    BY DEF RoundTrip
  <2>1. TransferType /\ wire.plain \in Seq(Byte)
    BY DEF TransferInv, TransferType
  <2>2. CASE phase = "receive"
    <3> DEFINE l == Len(plain)
    <3>1. /\ TypeOK /\ StreamType /\ StreamLen \in Nat /\ Transit /\ Delivered /\ ~enc
          /\ base = [key |-> wire.key, sbox |-> wire.params.sbox, iv |-> wire.params.iv]
      BY <2>2, CfbParts DEF TransferInv, Delivered, Receiving
    <3>2. Open /\ IsCfb
      BY <3>1 DEF Transit, TransferInv, CfbInv, StreamInv
    <3>3. /\ CfbText(Written, wire.cipher, wire.key, wire.params.sbox, wire.params.iv, StreamLen)
          /\ Len(Written) = StreamLen /\ Written = plain \o Pending
          /\ StreamLen + Len(inb) <= Len(wire.cipher)
      <4>1. Plain = Written /\ Cipher = wire.cipher
        BY <3>1 DEF Plain, Cipher, Source
      <4>2. CfbText(Written, wire.cipher, base.key, base.sbox, base.iv, StreamLen)
        BY <3>1, <3>2, <4>1, CarriedIsCfb DEF Transit
      <4>3. Written = plain \o Pending
        BY <3>1 DEF Written, Target
      <4> QED
        BY <3>1, <4>2, <4>3 DEF Transit, Source
    <3>4. /\ CfbText(wire.plain, wire.cipher, wire.key, wire.params.sbox, wire.params.iv,
                     Len(wire.cipher))
          /\ Len(wire.cipher) = Len(wire.plain)
      BY <2>2, <3>1 DEF Delivered
    <3>5. /\ Len(inb) \in Nat /\ Written \in Seq(Byte) /\ wire.cipher \in Seq(Byte)
          /\ Pending \in Seq(Byte) /\ plain \in Seq(Byte)
          /\ wire.key \in Key /\ wire.params.sbox \in Sbox /\ wire.params.iv \in Block
      BY <2>1, <3>1, TextsType DEF TransferType, TypeOK, CallType
    <3>6. StreamLen <= Len(wire.cipher) /\ l <= StreamLen /\ l \in Nat
          /\ \A n \in 1 .. l : Written[n] = plain[n]
      <4>1. StreamLen <= Len(wire.cipher)
        BY <3>1, <3>3, <3>5
      <4>2. /\ Len(plain \o Pending) = Len(plain) + Len(Pending)
            /\ \A n \in 1 .. Len(plain) + Len(Pending) :
                 (plain \o Pending)[n] = IF n <= Len(plain) THEN plain[n]
                                                            ELSE Pending[n - Len(plain)]
        BY <3>5, ConcatProperties
      <4>3. Len(plain) \in Nat /\ Len(Pending) \in Nat
        BY <3>5
      <4> QED
        BY <3>3, <4>1, <4>2, <4>3
    <3>7. CfbText(wire.plain, wire.cipher, wire.key, wire.params.sbox, wire.params.iv, StreamLen)
      <4>1. \A q \in Nat \ {0}, j \in Pos : At(q, j) <= StreamLen => At(q, j) <= Len(wire.cipher)
        BY <3>1, <3>5, <3>6, AtType
      <4> QED
        BY <3>4, <4>1 DEF CfbText
    <3>8. \A n \in 1 .. StreamLen : Written[n] = wire.plain[n]
      <4>1. StreamLen <= Len(Written) /\ StreamLen <= Len(wire.plain)
        BY <3>1, <3>3, <3>4, <3>6
      <4> QED
        <5> DEFINE w == Written
                   r == wire.plain
                   c == wire.cipher
        <5>1. /\ w \in Seq(Byte) /\ r \in Seq(Byte) /\ c \in Seq(Byte) /\ StreamLen \in Nat
              /\ StreamLen <= Len(w) /\ StreamLen <= Len(r) /\ StreamLen <= Len(c)
              /\ CfbText(w, c, wire.key, wire.params.sbox, wire.params.iv, StreamLen)
              /\ CfbText(r, c, wire.key, wire.params.sbox, wire.params.iv, StreamLen)
          BY <2>1, <3>1, <3>3, <3>5, <3>6, <3>7, <4>1
        <5> HIDE DEF w, r, c
        <5>2. \A n \in 1 .. StreamLen : w[n] = r[n]
          BY <3>5, <5>1, CfbTextUnique
        <5> QED
          BY <5>2 DEF w, r
    <3>9. \A n \in 1 .. l : plain[n] = wire.plain[n]
      <4>1. \A n \in 1 .. l : n \in 1 .. StreamLen
        BY <3>1, <3>6
      <4> QED
        BY <3>6, <3>8, <4>1
    <3>10. l <= Len(wire.plain)
      BY <2>1, <3>1, <3>4, <3>6
    <3> QED
      BY <2>1, <3>5, <3>6, <3>9, <3>10, PrefixIsSubSeq
  <2>3. CASE phase # "receive"
    <3>1. plain = <<>>
      BY <2>3 DEF TransferInv, TransferType, Sending, Receiving
    <3> QED
      BY <2>1, <3>1
  <2> QED
    BY <2>2, <2>3
<1> QED
  BY <1>1, TransferInitially, NextTransfer, PTL DEF TransferSpec
=============================================================================
