---------------------------- MODULE LoadPromise -----------------------------
(***************************************************************************)
(* What the headers of keylib promise of a loader (parseJKS, parsePKCS12): *)
(* it either succeeds, and the caller has a store with the keys and the    *)
(* certificates of the container, in their order, or it fails, and nothing *)
(* of what it has built is left; a store the caller frees takes all it     *)
(* owns with it.  A load that never ends only stutters here.               *)
(*                                                                         *)
(* The headers speak of all keys and certificates.  A container has parts, *)
(* and a loader may name some whose keys or certificates it passes over;   *)
(* of every other part it has to give all.                                 *)
(***************************************************************************)
EXTENDS Naturals, Sequences

SE == INSTANCE SequencesExt

CONSTANTS
  KeyParts(_), CertParts(_),               (* of a container, part by part *)
  KeysPassedOver(_), CertsPassedOver(_)    (* numbers of parts             *)

VARIABLES container, status, keys, certs, objects

vars == <<container, status, keys, certs, objects>>

Members(q) == {q[n] : n \in 1 .. Len(q)}

Kept(parts, over) ==
  SE!FlattenSeq([n \in 1 .. Len(parts) |-> IF n \in over THEN <<>> ELSE parts[n]])

Init == status = "loading" /\ keys = <<>> /\ certs = <<>> /\ objects = {}

Succeed ==
  /\ status = "loading" /\ status' = "loaded"
  /\ keys' = Kept(KeyParts(container), KeysPassedOver(container))
  /\ certs' = Kept(CertParts(container), CertsPassedOver(container))
  /\ objects' = Members(keys') \cup Members(certs')
  /\ UNCHANGED container

Fail ==
  /\ status = "loading" /\ status' = "closed"
  /\ UNCHANGED <<container, keys, certs, objects>>

Close ==
  /\ status = "loaded" /\ status' = "closed"
  /\ keys' = <<>> /\ certs' = <<>> /\ objects' = {}
  /\ UNCHANGED container

Next == Succeed \/ Fail \/ Close

Spec == Init /\ [][Next]_vars
=============================================================================
