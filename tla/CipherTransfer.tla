--------------------------- MODULE CipherTransfer ---------------------------
(***************************************************************************)
(* A message goes from one cipher context to another one: the sender       *)
(* encrypts it in chunks and publishes the ASN.1 parameters of its         *)
(* context; the receiver sets a context up from the key and the parameters *)
(* and decrypts the message, cut into chunks of its own.                   *)
(*                                                                         *)
(* The two contexts share nothing, so one CfbCipher context plays them one *)
(* after the other, wiped (EVP_CIPHER_CTX_reset) in between.  The order in *)
(* which the receiver sets the key and the parameters is the caller's:     *)
(* either the key first, or the parameters first, as CMS decryption does   *)
(* (EVP_CIPHER_asn1_to_param, then EVP_CipherInit_ex with the key only).   *)
(***************************************************************************)
EXTENDS CfbCipher

CONSTANTS
  ParamsFirst,  (* does the receiver set the parameters before the key?    *)
  Sizes         (* lengths of the chunks the receiver decrypts             *)

ASSUME TransferAssumption == ParamsFirst \in BOOLEAN /\ Sizes \subseteq Nat \ {0}

VARIABLES
  phase,   (* "setup", "send", "fresh", "half" (one of the two set), "receive" *)
  wire,    (* the message, its ciphertext, its key and its parameters      *)
  plain    (* what the receiver has decrypted                              *)

tvars == <<vars, phase, wire, plain>>

NoWire == [plain |-> <<>>, cipher |-> <<>>, key |-> ZeroKey,
           params |-> [iv |-> ZeroBlock, sbox |-> DefaultSbox]]

TransferInit ==
  /\ Init /\ enc = TRUE
  /\ phase = "setup" /\ wire = NoWire /\ plain = <<>>

GoTo(from, to) == phase = from /\ phase' = to

-----------------------------------------------------------------------------
SenderInit(k, v) ==
  /\ GoTo("setup", "send")
  /\ CipherInit(k, v, TRUE)
  /\ UNCHANGED <<wire, plain>>

SenderSbox(s) ==
  /\ GoTo("send", "send") /\ wire.plain = <<>>
  /\ SetCustomSbox(s)
  /\ UNCHANGED <<wire, plain>>

SenderEncrypts(chunk) ==
  /\ GoTo("send", "send")
  /\ DoCipher(chunk)
  /\ wire' = [wire EXCEPT !.plain = @ \o chunk]
  /\ UNCHANGED plain

\* EVP_CIPHER_param_to_asn1, then the context is wiped.
Deliver ==
  /\ GoTo("send", "fresh") /\ wire.plain # <<>>
  /\ wire' = [wire EXCEPT !.key = gctx.key, !.params = Asn1Parameters]
  /\ Cleanup(FALSE)
  /\ UNCHANGED plain

ReceiverKey ==
  /\ IF ParamsFirst THEN GoTo("half", "receive") ELSE GoTo("fresh", "half")
  /\ CipherInit(wire.key, None, FALSE)
  /\ UNCHANGED <<wire, plain>>

ReceiverParameters ==
  /\ IF ParamsFirst THEN GoTo("fresh", "half") ELSE GoTo("half", "receive")
  /\ GetAsn1Parameters(wire.params.iv, wire.params.sbox)
  /\ UNCHANGED <<wire, plain>>

ReceiverDecrypts(n) ==
  /\ GoTo("receive", "receive")
  /\ Len(plain) + n <= Len(wire.cipher)
  /\ DoCipher(SubSeq(wire.cipher, Len(plain) + 1, Len(plain) + n))
  /\ UNCHANGED <<wire, plain>>

\* Inside a data call; what it has written is there when it returns.
DataCall ==
  /\ HeadByte \/ HeadEnd \/ CfbBlock \/ BlocksEnd \/ TailByte
  /\ UNCHANGED <<phase, wire, plain>>

DataReturn ==
  /\ DoCipherReturn
  /\ \/ /\ phase = "send"
        /\ wire' = [wire EXCEPT !.cipher = @ \o out]
        /\ UNCHANGED plain
     \/ /\ phase = "receive"
        /\ plain' = plain \o out
        /\ UNCHANGED wire
  /\ UNCHANGED phase

TransferNext ==
  \/ \E k \in Key, v \in IVs : SenderInit(k, v)
  \/ \E s \in Sbox : SenderSbox(s)
  \/ \E chunk \in Inputs : SenderEncrypts(chunk)
  \/ Deliver
  \/ ReceiverKey
  \/ ReceiverParameters
  \/ \E n \in Sizes : ReceiverDecrypts(n)
  \/ DataCall
  \/ DataReturn

TransferSpec == TransferInit /\ [][TransferNext]_tvars

-----------------------------------------------------------------------------
\* Whatever the receiver has decrypted is the beginning of the message the
\* sender encrypted, however each of them cuts it into data calls and
\* whichever sbox the sender chose: the key and the parameters that
\* dstu_cipher_set_asn1_parameters publishes are all a receiver needs.
RoundTrip == plain = SubSeq(wire.plain, 1, Len(plain))
=============================================================================
