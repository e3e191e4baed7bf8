--------------------------- MODULE DigestContext ----------------------------
(***************************************************************************)
(* The digest contexts (EVP_MD_CTX) of engine/md.c: several of them,       *)
(* initialised, fed, copied, finished and cleaned up in any order that the *)
(* EVP interface allows.                                                   *)
(*                                                                         *)
(* The data of a context are a hash context and a cipher context (cctx,    *)
(* here its substitution box).  The hash context points to a cipher        *)
(* context; dstu_md_copy copies the data bytewise and must point it to     *)
(* the copy's own one.                                                     *)
(***************************************************************************)
EXTENDS GostHash

CONSTANTS
  Ctx,           (* contexts                                               *)
  NullCtx,       (* the NULL pointer                                       *)
  Box,           (* substitution boxes                                     *)
  DefaultBox,    (* default_sbox                                           *)
  ZeroBox,       (* what memset leaves of a box                            *)
  Mixed,         (* no single box has hashed the message                   *)
  Pieces,        (* what is fed in one call                                *)
  MaxLen         (* bound: length of a message                             *)

ASSUME ContextAssumption ==
  /\ NullCtx \notin Ctx /\ DefaultBox \in Box /\ ZeroBox \notin Box /\ Mixed \notin Box
  /\ Pieces \subseteq Seq(Byte) /\ MaxLen \in Nat /\ Bits * MaxLen < Power(B)[BS]

VARIABLES
  dctx,     (* the hash context of each context                            *)
  cipher,   (* the cipher context it points to                             *)
  cctx,     (* the box of each cipher context                              *)
  phase,    (* "none", "open", or "final" after EVP_DigestFinal            *)
  msg,      (* history: what has been fed since EVP_DigestInit             *)
  box       (* history: the box that hashes it                             *)

vars == <<dctx, cipher, cctx, phase, msg, box>>

Init ==
  /\ dctx = [c \in Ctx |-> EmptyCtx] /\ cipher = [c \in Ctx |-> NullCtx]
  /\ cctx = [c \in Ctx |-> ZeroBox] /\ phase = [c \in Ctx |-> "none"]
  /\ msg = [c \in Ctx |-> <<>>] /\ box = [c \in Ctx |-> Mixed]

\* EVP_DigestInit_ex: the box of the key, if the digest is part of a
\* signature and the key has one, or the default.
dstu_md_init(c, b) ==
  /\ dctx' = [dctx EXCEPT ![c] = EmptyCtx] /\ cipher' = [cipher EXCEPT ![c] = c]
  /\ cctx' = [cctx EXCEPT ![c] = b] /\ phase' = [phase EXCEPT ![c] = "open"]
  /\ msg' = [msg EXCEPT ![c] = <<>>] /\ box' = [box EXCEPT ![c] = b]

InitPlain(c)      == dstu_md_init(c, DefaultBox)
InitWithKey(c, b) == dstu_md_init(c, b)

\* EVP_MD_CTX_ctrl: the box is replaced at once, whatever has been hashed.
dstu_md_ctrl(c, b) ==
  /\ phase[c] # "none"
  /\ cctx' = [cctx EXCEPT ![c] = b]
  /\ box' = [box EXCEPT ![c] = IF phase[c] = "open" /\ dctx[c].len = 0 THEN b
                               ELSE IF b = @ THEN @ ELSE Mixed]
  /\ UNCHANGED <<dctx, cipher, phase, msg>>

dstu_md_update(c, q) ==
  /\ phase[c] = "open" /\ Len(msg[c]) + Len(q) <= MaxLen
  /\ dctx' = [dctx EXCEPT ![c] = HashBlock(cctx[cipher[c]], @, q)]
  /\ msg' = [msg EXCEPT ![c] = @ \o q]
  /\ UNCHANGED <<cipher, cctx, phase, box>>

\* dstu_md_cleanup
Wiped(c) ==
  /\ dctx' = [dctx EXCEPT ![c] = EmptyCtx] /\ cipher' = [cipher EXCEPT ![c] = NullCtx]
  /\ cctx' = [cctx EXCEPT ![c] = ZeroBox]

\* The digest of what has been fed.
Digest(c) == FinishHash(cctx[cipher[c]], dctx[c])

\* EVP_DigestFinal_ex cleans the data up when Digest(c) has been computed,
\* from copies of H and S.
dstu_md_final(c) ==
  /\ phase[c] = "open"
  /\ Wiped(c)
  /\ phase' = [phase EXCEPT ![c] = "final"]
  /\ msg' = [msg EXCEPT ![c] = <<>>] /\ box' = [box EXCEPT ![c] = Mixed]

\* Mutant: the copy still points to the cipher of the original.
CopyShallow(to, from) ==
  /\ to # from /\ phase[from] # "none"
  /\ dctx' = [dctx EXCEPT ![to] = dctx[from]] /\ cctx' = [cctx EXCEPT ![to] = cctx[from]]
  /\ cipher' = [cipher EXCEPT ![to] = cipher[from]]
  /\ phase' = [phase EXCEPT ![to] = phase[from]]
  /\ msg' = [msg EXCEPT ![to] = msg[from]] /\ box' = [box EXCEPT ![to] = box[from]]

\* EVP_MD_CTX_copy_ex.  EVP_DigestSignFinal finishes such a copy and leaves
\* the context itself open.
dstu_md_copy(to, from) ==
  /\ to # from /\ phase[from] # "none"
  /\ dctx' = [dctx EXCEPT ![to] = dctx[from]] /\ cctx' = [cctx EXCEPT ![to] = cctx[from]]
  /\ cipher' = [cipher EXCEPT ![to] = to]
  /\ phase' = [phase EXCEPT ![to] = phase[from]]
  /\ msg' = [msg EXCEPT ![to] = msg[from]] /\ box' = [box EXCEPT ![to] = box[from]]

\* EVP_MD_CTX_reset
dstu_md_cleanup(c) ==
  /\ phase[c] # "none"
  /\ Wiped(c)
  /\ phase' = [phase EXCEPT ![c] = "none"]
  /\ msg' = [msg EXCEPT ![c] = <<>>] /\ box' = [box EXCEPT ![c] = Mixed]

Next ==
  \E c \in Ctx :
    \/ InitPlain(c)
    \/ \E b \in Box : InitWithKey(c, b) \/ dstu_md_ctrl(c, b)
    \/ \E q \in Pieces : dstu_md_update(c, q)
    \/ dstu_md_final(c)
    \/ \E d \in Ctx : dstu_md_copy(c, d)
    \/ dstu_md_cleanup(c)

Spec == Init /\ [][Next]_vars

-----------------------------------------------------------------------------
(* Properties                                                              *)

\* However a message was cut into calls and whatever other contexts it was
\* copied from or to, the context is what the message makes of it: full
\* blocks are hashed, their sum is kept, the rest is in the buffer.
StateIsOfMessage ==
  \A c \in Ctx : phase[c] = "open" /\ box[c] # Mixed =>
    LET m == msg[c]
        n == Len(m) \div BS
    IN  /\ dctx[c].len = n * BS /\ dctx[c].left = Len(m) % BS
        /\ dctx[c].H = HAfter(box[c], m, n) /\ dctx[c].S = SumOf(m, n)
        /\ \A i \in 1 .. dctx[c].left : dctx[c].remainder[i] = m[n * BS + i]

\* The digest a context would give now depends on its message and box alone.
DigestIsOfMessage ==
  \A c \in Ctx : phase[c] = "open" /\ box[c] # Mixed => Digest(c) = Hash(box[c], msg[c])

\* No context uses the cipher of another one: what is done to the original
\* (its box replaced, its data wiped) does not reach the copy.
OwnCipher == \A c \in Ctx : phase[c] = "open" => cipher[c] = c /\ cctx[c] # ZeroBox
=============================================================================
