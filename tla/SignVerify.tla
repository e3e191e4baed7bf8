----------------------------- MODULE SignVerify -----------------------------
(***************************************************************************)
(* DSTU 4145 signatures: dstu_do_sign and dstu_do_verify of engine/sign.c, *)
(* with the encoding of engine/pmeth.c around them.                        *)
(*                                                                         *)
(* A point of the curve is a multiple of the base point G and is           *)
(* represented by the factor, a number modulo the order N; the field, its  *)
(* multiplication and the x coordinates of the points are constants.  A    *)
(* signature is a sequence of bytes, and a hash is a number.               *)
(***************************************************************************)
EXTENDS Positional, SequencesExt

CONSTANTS
  N,                 (* the order of G                                     *)
  Half,              (* the largest power of 2 up to N                     *)
  FieldSize,         (* the number of field elements                       *)
  FieldMul(_, _),
  X,                 (* x coordinates, for factors that are not 0          *)
  Base, Length,      (* bytes, and how many the order takes (field_size)   *)
  PrivateKeys, Hashes,
  Elsewhere          (* signatures that come from somewhere else           *)

Factors == 1 .. N - 1

ASSUME OrderAssumption ==
  /\ N \in Nat /\ Half \in Nat \ {0} /\ Half <= N /\ N < 2 * Half
  /\ FieldSize \in Nat \ {0}
  /\ Base \in Nat \ {0} /\ Length \in Nat /\ N <= Power(Base)[Length]
ASSUME FieldAssumption ==
  \A h, x \in 0 .. FieldSize - 1 :
    FieldMul(h, x) \in 0 .. FieldSize - 1 /\ FieldMul(h, 0) = 0
ASSUME CurveAssumption == X \in [Factors -> 0 .. FieldSize - 1]
ASSUME InputAssumption ==
  /\ PrivateKeys \subseteq Factors /\ Hashes \subseteq Nat

VARIABLES
  d,             (* the private key                                        *)
  le,            (* a key of type NID_dstu4145le                           *)
  tbs, e,        (* the hash, and the last number that was drawn           *)
  sig, ret, pc

signVars == <<d, le, tbs, e, sig, ret, pc>>

SignInit ==
  /\ d \in PrivateKeys /\ le \in BOOLEAN /\ tbs \in Hashes
  /\ e = 0 /\ sig = <<>> /\ ret = 0 /\ pc = "start"

-----------------------------------------------------------------------------
(* The conversions                                                         *)

\* bn_truncate_bits clears the highest bit until the number fits.
Truncate(x, size) == x % size

\* Mutant: a hash of 0 stays 0.
hash_to_field_plain(hash) == Truncate(hash, FieldSize)

hash_to_field(hash) == Truncate(IF hash = 0 THEN 1 ELSE hash, FieldSize)

field_to_bn(fe) == Truncate(fe, Half)

\* bn_encode pads to the length of the order, BN_bin2bn reads any length.
bn_encode(bn) == [n \in 1 .. Length |-> DigitAt(Base, bn, Length - n)]
BN_bin2bn(b)  == NumberOf(Base, b, Len(b))

-----------------------------------------------------------------------------
(* dstu_do_sign, by the number that is drawn                               *)

R(h, k)    == field_to_bn(FieldMul(h, X[k]))
S(x, h, k) == (x * R(h, k) + k) % N

\* Mutant: s is not looked at.
RejectedR(x, h, k) == X[k] = 0 \/ R(h, k) = 0

\* Draw again.
Rejected(x, h, k) == X[k] = 0 \/ R(h, k) = 0 \/ S(x, h, k) = 0

\* What the signer makes of k.
Signed(x, h, k, s, r) ==
  k \in Factors /\ ~Rejected(x, h, k) /\ s = S(x, h, k) /\ r = R(h, k)

-----------------------------------------------------------------------------
(* dstu_do_verify, where s and r have been read as unsigned numbers        *)

\* dstu_add_public_key: minus d times G.
PublicKey(x) == (N - x) % N

\* Mutant: numbers of any size are accepted.
dstu_do_verify_unbounded(q, hash, s, r) ==
  LET k == (s + r * q) % N
  IN  s # 0 /\ r # 0 /\ k # 0 /\ r = R(hash_to_field(hash), k)

dstu_do_verify(q, hash, s, r) ==
  /\ s \in 1 .. N - 1 /\ r \in 1 .. N - 1
  /\ LET k == (s + r * q) % N                    \* s * G + r * Q
     IN  k # 0 /\ r = R(hash_to_field(hash), k)

-----------------------------------------------------------------------------
(* dstu_pkey_sign and dstu_pkey_verify                                     *)

Order(bytes) == IF le THEN Reverse(bytes) ELSE bytes

SigData(s, r) == Order(bn_encode(s) \o bn_encode(r))

\* The halves of a signature, in the order of big-endian ones.
Big     == Order(sig)
SigS    == BN_bin2bn(SubSeq(Big, 1, Len(sig) \div 2))
SigR    == BN_bin2bn(SubSeq(Big, Len(sig) \div 2 + 1, Len(sig)))

LengthOK == Len(sig) % 2 = 0 /\ Len(sig) >= 2 * Length

-----------------------------------------------------------------------------
Sign ==
  /\ pc = "start" /\ pc' = "signing"
  /\ UNCHANGED <<d, le, tbs, e, sig, ret>>

\* No number could be drawn, or 0 was, and the point at infinity has no
\* coordinates.
DrawFails ==
  /\ pc = "signing" /\ pc' = "failed"
  /\ ret' = 0
  /\ UNCHANGED <<d, le, tbs, e, sig>>

DrawAgain(k) ==
  /\ pc = "signing" /\ Rejected(d, hash_to_field(tbs), k)
  /\ e' = k
  /\ UNCHANGED <<d, le, tbs, sig, ret, pc>>

Succeed(k) ==
  LET h == hash_to_field(tbs) IN
  /\ pc = "signing" /\ ~Rejected(d, h, k)
  /\ e' = k /\ sig' = SigData(S(d, h, k), R(h, k))
  /\ ret' = 1 /\ pc' = "signed"
  /\ UNCHANGED <<d, le, tbs>>

\* A signature to be verified that somebody else has made.
Deliver ==
  /\ pc = "start" /\ pc' = "received"
  /\ sig' \in Elsewhere
  /\ UNCHANGED <<d, le, tbs, e, ret>>

Verify ==
  /\ pc \in {"signed", "received"} /\ pc' = "verified"
  /\ ret' = IF LengthOK /\ dstu_do_verify(PublicKey(d), tbs, SigS, SigR) THEN 1 ELSE 0
  /\ UNCHANGED <<d, le, tbs, e, sig>>

Draw(k) == DrawAgain(k) \/ Succeed(k)

SignNext ==
  \/ Sign \/ DrawFails
  \/ \E k \in Factors : Draw(k)
  \/ Deliver \/ Verify

SignSpec == SignInit /\ [][SignNext]_signVars

\* The generator does not for ever avoid the numbers that are not rejected.
FairSpec == SignSpec /\ WF_signVars(Sign) /\ WF_signVars(\E k \in Factors : Succeed(k))

-----------------------------------------------------------------------------
(* Properties                                                              *)

\* A signature that the signer has made is accepted, with keys of both byte
\* orders: encoding, reversing and padding are undone, and no retry lets a
\* signature through that the verifier rejects.
SignedVerifies ==
  pc = "signed" =>
    LengthOK /\ dstu_do_verify(PublicKey(d), tbs, SigS, SigR)

\* Of all signatures the verifier accepts those that the signer can make, and
\* no others.
AcceptsExactlySigned ==
  pc = "verified" =>
    (ret = 1 <=> /\ LengthOK
                 /\ \E k \in Factors : Signed(d, hash_to_field(tbs), k, SigS, SigR))

\* The hash is not 0 and only bits above the field's are set in it.  It is found
\* not to be 0 first and truncated to 0 then.
CutToZero == tbs # 0 /\ tbs % FieldSize = 0

Ended == pc \in {"signed", "failed", "verified"}

\* Signing comes to an end, although it draws again and again: of every hash
\* but those that are cut to 0, which make every r a 0.
SignReturns == pc = "signing" /\ ~CutToZero ~> Ended
=============================================================================
