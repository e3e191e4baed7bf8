------------------------------ MODULE KeyLoads ------------------------------
(***************************************************************************)
(* A caller of keylib that loads a container of any of the three formats:  *)
(* readJKS, readPKCS12, readKey6.  The loaders share the key store and     *)
(* what the headers promise; each has state of its own, which the others   *)
(* leave alone.                                                            *)
(***************************************************************************)
EXTENDS KeyStore

CONSTANTS
  JksFiles, Key6Files,
  Bag, Pkcs12Files     (* bags, and the containers made of them            *)

VARIABLES
  format,                           (* of the container                    *)
  file, heap, ks, ret, pc,          (* of every loader                     *)
  keyPos, certPos,                  (* of the JKS and the PKCS#12 loader   *)
  e, c,                             (* of the JKS loader                   *)
  pass, i, todo, numKeys, numCerts, held,   (* of the PKCS#12 loader       *)
  reads, total                      (* of the key-6 loader                 *)

jksVars    == <<e, c>>
pkcs12Vars == <<pass, i, todo, numKeys, numCerts, held>>
key6Vars   == <<reads, total>>
common     == <<file, heap, ks, ret, pc>>

vars == <<format, common, keyPos, certPos, jksVars, pkcs12Vars, key6Vars>>

Jks    == INSTANCE JksLoad    WITH Files <- JksFiles
Pkcs12 == INSTANCE Pkcs12Load WITH Files <- Pkcs12Files
Key6   == INSTANCE Key6Load   WITH Files <- Key6Files

ASSUME PointerAssumption == NullAssumption
ASSUME JksAssumption     == Jks!FileAssumption
ASSUME Pkcs12Assumption  == Pkcs12!BagAssumption /\ Pkcs12!NestingAssumption
                            /\ Pkcs12!ObjectAssumption
ASSUME Key6Assumption    == Key6!FileAssumption

-----------------------------------------------------------------------------
JksIdle    == e = 0 /\ c = 0
Pkcs12Idle == pass = "count" /\ i = 0 /\ todo = <<>> /\ numKeys = 0 /\ numCerts = 0 /\ held = {}
Key6Idle   == reads = 0 /\ total = 0

Init ==
  \/ format = "jks" /\ Jks!Init /\ Pkcs12Idle /\ Key6Idle
  \/ format = "pkcs12" /\ Pkcs12!Init /\ JksIdle /\ Key6Idle
  \/ format = "key6" /\ Key6!Init /\ JksIdle /\ Pkcs12Idle /\ keyPos = 0 /\ certPos = 0

ReadJKS ==
  /\ format = "jks" /\ Jks!Next
  /\ UNCHANGED <<format, pkcs12Vars, key6Vars>>

ReadPKCS12 ==
  /\ format = "pkcs12" /\ Pkcs12!Next
  /\ UNCHANGED <<format, jksVars, key6Vars>>

ReadKey6 ==
  /\ format = "key6" /\ Key6!Next
  /\ UNCHANGED <<format, keyPos, certPos, jksVars, pkcs12Vars>>

Next == ReadJKS \/ ReadPKCS12 \/ ReadKey6

Spec == Init /\ [][Next]_vars

-----------------------------------------------------------------------------
(* Properties                                                              *)

\* The stores own all keys and certificates: none is lost on an early return,
\* none is freed with the store it was moved out of, none is freed twice or
\* overwritten by another.
StoresOwnAll == OwnedOnce(heap)

\* keyPos and certPos of the JKS loader count the slots of the store, and every
\* slot is filled.
CountersAgree == format = "jks" => Jks!CountersAgree

\* The store of a JKS entry is gone when the entry has been parsed, and the
\* caller's store lives as long as the load goes on or has succeeded.
StoreLives == format = "jks" => Jks!StoreLives

\* A load and its caller use stores, keys and certificates as they should, and of
\* what is wrong in a container they make an error, except in three places of the
\* JKS loader: a part that reaches beyond what was read, a protected key that is
\* too short, and a key that decrypts to no PKCS#8, whose NULL store is freed.
FaultsAreKnown ==
  heap.fault => format = "jks" /\ (Jks!AtCut \/ Jks!DecryptsShort \/ Jks!FreesNull)

\* The passes over a PKCS#12 container agree: a load that succeeds leaves no
\* slot empty, and in the middle of one the slots are filled from the front.
SlotsFilled == format = "pkcs12" => Pkcs12!SlotsFilled

\* Every way out of a PKCS#12 load frees what it has unpacked, and between the
\* safes no bags are held.
NothingHeld == format = "pkcs12" => Pkcs12!NothingHeld

Status ==
  CASE pc = "returned" /\ ret = 1 -> "loaded"
    [] pc = "done" \/ (pc = "returned" /\ ret = 0) -> "closed"
    [] OTHER -> "loading"

KeyParts(k) ==
  CASE k[1] = "jks"    -> Jks!KeyParts(k[2])
    [] k[1] = "pkcs12" -> Pkcs12!KeyParts(k[2])
    [] k[1] = "key6"   -> Key6!KeyParts(k[2])

CertParts(k) ==
  CASE k[1] = "jks"    -> Jks!CertParts(k[2])
    [] k[1] = "pkcs12" -> Pkcs12!CertParts(k[2])
    [] k[1] = "key6"   -> <<>>

KeysPassedOver(k) ==
  CASE k[1] = "jks"    -> Jks!PassedOver(k[2])
    [] k[1] = "pkcs12" -> Pkcs12!PassedOver(k[2])
    [] k[1] = "key6"   -> Key6!PassedOver(k[2])

CertsPassedOver(k) == IF k[1] = "pkcs12" THEN Pkcs12!PassedOver(k[2]) ELSE {}

Promise == INSTANCE LoadPromise WITH
  container <- <<format, file>>,
  status    <- Status,
  keys      <- IF Status = "loaded" THEN heap.stores[ks].keys ELSE <<>>,
  certs     <- IF Status = "loaded" THEN heap.stores[ks].certs ELSE <<>>,
  objects   <- IF Status = "loading" THEN {} ELSE heap.objects

\* A load that succeeds yields all keys and certificates of the container in its
\* order, but for those of the parts it passes over (a JKS key encrypted in a way
\* it does not know, a PKCS#12 safe of another type, a second key of a key-6 file
\* that cannot be built); one that fails leaves nothing, and so does freeing the
\* store.  A load that has gone wrong as FaultsAreKnown says promises nothing.
KeepsPromise == Promise!Spec
=============================================================================
