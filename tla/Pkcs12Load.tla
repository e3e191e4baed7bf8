----------------------------- MODULE Pkcs12Load -----------------------------
(***************************************************************************)
(* parsePKCS12 of keylib/pkcs12.c and a caller of it.                      *)
(*                                                                         *)
(* A container is a sequence of safes; a safe is unpacked into a sequence  *)
(* of bags, and a bag holds a key, a certificate, something else, or bags. *)
(* The loader walks the safes twice: the first pass counts keys and        *)
(* certificates by the types of the bags, the store is made with as many   *)
(* slots, and the second pass, another set of functions, fills them.       *)
(* Recursion into a bag of bags puts its bags in front of what is left.    *)
(***************************************************************************)
EXTENDS KeyStore

SE == INSTANCE SequencesExt

CONSTANTS
  Bag,     (* bags: kind, reads, object, bags                              *)
  Files    (* the containers that may be loaded                            *)

Kinds == {"key", "shrouded", "cert", "safeContents", "other"}

Safe == [type : {"null", "data", "encrypted", "other"}, opens : BOOLEAN, bags : Seq(Bag)]
File == [front : {"badDer", "badMac", "badSafes", "ok"}, safes : Seq(Safe)]

Main == "main"

\* What the loader holds besides the store, all of it to be freed.
Temporary == {"pkcs12", "safes", "bags"}

BagAssumption ==
  /\ \A b \in Bag : /\ b.kind \in Kinds /\ b.reads \in BOOLEAN
                    /\ b.object \in Objects /\ b.bags \in Seq(Bag)
  /\ Files \subseteq File /\ Main \in Stores

VARIABLES
  file, heap,
  ks,                  (* the caller's pointer                             *)
  pass,                (* "count" or "fill"                                *)
  i,                   (* the safe being looked at                         *)
  todo,                (* the bags of it that are left                     *)
  numKeys, numCerts, keyPos, certPos,
  held,                (* temporaries that have not been freed             *)
  ret, pc

counters == <<numKeys, numCerts, keyPos, certPos>>
vars == <<file, heap, ks, pass, i, todo, counters, held, ret, pc>>

Init ==
  /\ file \in Files /\ heap = EmptyHeap /\ ks = Null
  /\ pass = "count" /\ i = 1 /\ todo = <<>>
  /\ numKeys = 0 /\ numCerts = 0 /\ keyPos = 0 /\ certPos = 0
  /\ held = {} /\ ret = 0 /\ pc = "start"

At(l) == pc = l /\ ~heap.fault

Return(r) == ret' = r /\ pc' = "returned" /\ held' = {}

-----------------------------------------------------------------------------
(* d2i_PKCS12, PKCS12_verify_mac and PKCS12_unpack_authsafes               *)

Refuse ==
  /\ At("start") /\ file.front # "ok"
  /\ Return(0)
  /\ UNCHANGED <<file, heap, ks, pass, i, todo, counters>>

Begin ==
  /\ At("start") /\ file.front = "ok"
  /\ held' = {"pkcs12", "safes"} /\ pc' = "safes"
  /\ UNCHANGED <<file, heap, ks, pass, i, todo, counters, ret>>

\* A failure of either pass: bags, safes and container are freed, and in the
\* second pass the store.
Fail ==
  /\ Return(0)
  /\ heap' = IF pass = "fill" THEN KeyStoreFree(heap, ks) ELSE heap
  /\ UNCHANGED <<file, ks, pass, i, todo, counters>>

-----------------------------------------------------------------------------
(* countKeysCerts and fromSafes: the safes                                 *)

Looking == At("safes") /\ i <= Len(file.safes)
Current == file.safes[i]

SkipSafe ==
  /\ Looking /\ Current.type \in {"null", "other"}
  /\ i' = i + 1
  /\ UNCHANGED <<file, heap, ks, pass, todo, counters, held, ret, pc>>

BadSafe ==
  /\ Looking /\ Current.type \in {"data", "encrypted"} /\ ~Current.opens
  /\ Fail

OpenSafe ==
  /\ Looking /\ Current.type \in {"data", "encrypted"} /\ Current.opens
  /\ todo' = Current.bags /\ held' = held \cup {"bags"} /\ pc' = "bags"
  /\ UNCHANGED <<file, heap, ks, pass, i, counters, ret>>

CloseSafe ==
  /\ At("bags") /\ todo = <<>>
  /\ held' = held \ {"bags"} /\ i' = i + 1 /\ pc' = "safes"
  /\ UNCHANGED <<file, heap, ks, pass, todo, counters, ret>>

NothingFound ==
  /\ At("safes") /\ i > Len(file.safes) /\ pass = "count"
  /\ numKeys = 0 /\ numCerts = 0
  /\ Fail

\* The store is made between the passes.
Counted ==
  /\ At("safes") /\ i > Len(file.safes) /\ pass = "count"
  /\ numKeys > 0 \/ numCerts > 0
  /\ heap' = KeyStoreNew(heap, Main, numKeys, numCerts) /\ ks' = Main
  /\ pass' = "fill" /\ i' = 1
  /\ UNCHANGED <<file, todo, counters, held, ret, pc>>

Succeed ==
  /\ At("safes") /\ i > Len(file.safes) /\ pass = "fill"
  /\ Return(1)
  /\ UNCHANGED <<file, heap, ks, pass, i, todo, counters>>

-----------------------------------------------------------------------------
(* countKeysCertsInBags, fromBags: the bags of a safe                      *)

Next1 == Head(todo)

Opening(kinds) == At("bags") /\ todo # <<>> /\ Next1.kind \in kinds

SkipBag ==
  /\ Opening({"other"})
  /\ todo' = Tail(todo)
  /\ UNCHANGED <<file, heap, ks, pass, i, counters, held, ret, pc>>

EnterContents ==
  /\ Opening({"safeContents"})
  /\ todo' = Next1.bags \o Tail(todo)
  /\ UNCHANGED <<file, heap, ks, pass, i, counters, held, ret, pc>>

\* countKeysCertsInBag looks at the type only.
CountKey ==
  /\ pass = "count" /\ Opening({"key", "shrouded"})
  /\ numKeys' = numKeys + 1 /\ todo' = Tail(todo)
  /\ UNCHANGED <<file, heap, ks, pass, i, numCerts, keyPos, certPos, held, ret, pc>>

CountCert ==
  /\ pass = "count" /\ Opening({"cert"})
  /\ numCerts' = numCerts + 1 /\ todo' = Tail(todo)
  /\ UNCHANGED <<file, heap, ks, pass, i, numKeys, keyPos, certPos, held, ret, pc>>

\* fromBag decrypts or decodes it, which may fail.
GetKey ==
  /\ pass = "fill" /\ Opening({"key", "shrouded"}) /\ Next1.reads
  /\ heap' = KeyStoreSetKey(Create(heap, Next1.object), ks, keyPos, Next1.object)
  /\ keyPos' = keyPos + 1 /\ todo' = Tail(todo)
  /\ UNCHANGED <<file, ks, pass, i, numKeys, numCerts, certPos, held, ret, pc>>

\* Mutant: every certificate is put in the slot of the first one.
GetCertFirst ==
  /\ pass = "fill" /\ Opening({"cert"}) /\ Next1.reads
  /\ heap' = KeyStoreSetCert(Create(heap, Next1.object), ks, 0, Next1.object)
  /\ certPos' = certPos + 1 /\ todo' = Tail(todo)
  /\ UNCHANGED <<file, ks, pass, i, numKeys, numCerts, keyPos, held, ret, pc>>

GetCert ==
  /\ pass = "fill" /\ Opening({"cert"}) /\ Next1.reads
  /\ heap' = KeyStoreSetCert(Create(heap, Next1.object), ks, certPos, Next1.object)
  /\ certPos' = certPos + 1 /\ todo' = Tail(todo)
  /\ UNCHANGED <<file, ks, pass, i, numKeys, numCerts, keyPos, held, ret, pc>>

\* Mutant: the bags of the safe are not freed when one of them fails.
BadBagKeeping ==
  /\ pass = "fill" /\ Opening({"key", "shrouded", "cert"}) /\ ~Next1.reads
  /\ ret' = 0 /\ pc' = "returned" /\ held' = {"bags"}
  /\ heap' = KeyStoreFree(heap, ks)
  /\ UNCHANGED <<file, ks, pass, i, todo, counters>>

BadBag ==
  /\ pass = "fill" /\ Opening({"key", "shrouded", "cert"}) /\ ~Next1.reads
  /\ Fail

-----------------------------------------------------------------------------
\* The caller frees the store of a load that has succeeded, as the tests do.
CallerFrees ==
  /\ At("returned") /\ ret = 1
  /\ heap' = KeyStoreFree(heap, ks) /\ pc' = "done"
  /\ UNCHANGED <<file, ks, pass, i, todo, counters, held, ret>>

CallerGivesUp ==
  /\ At("returned") /\ ret = 0
  /\ pc' = "done"
  /\ UNCHANGED <<file, heap, ks, pass, i, todo, counters, held, ret>>

Next ==
  \/ Refuse \/ Begin
  \/ SkipSafe \/ BadSafe \/ OpenSafe \/ CloseSafe
  \/ NothingFound \/ Counted \/ Succeed
  \/ SkipBag \/ EnterContents
  \/ CountKey \/ CountCert \/ GetKey \/ GetCert \/ BadBag
  \/ CallerFrees \/ CallerGivesUp

Spec == Init /\ [][Next]_vars

-----------------------------------------------------------------------------
(* What a container holds: the objects of the bags of some kinds, in order, *)
(* those in bags of bags included.                                          *)

Within(kinds) ==
  LET w[b \in Bag] ==
        IF b.kind = "safeContents" THEN SE!FlattenSeq([n \in 1 .. Len(b.bags) |-> w[b.bags[n]]])
        ELSE IF b.kind \in kinds THEN <<b.object>> ELSE <<>>
  IN  w

Contents(bags, kinds) == SE!FlattenSeq([n \in 1 .. Len(bags) |-> Within(kinds)[bags[n]]])

SafeContents(s, kinds) ==
  IF s.type \in {"data", "encrypted"} THEN Contents(s.bags, kinds) ELSE <<>>

FileContents(f, kinds) ==
  SE!FlattenSeq([n \in 1 .. Len(f.safes) |-> SafeContents(f.safes[n], kinds)])

FileKeys(f)  == FileContents(f, {"key", "shrouded"})
FileCerts(f) == FileContents(f, {"cert"})

\* The same safe by safe, and the safes that a load leaves out: those that hold no
\* data, and those that are not encrypted with a password.
KeyParts(f)   == [n \in 1 .. Len(f.safes) |-> Contents(f.safes[n].bags, {"key", "shrouded"})]
CertParts(f)  == [n \in 1 .. Len(f.safes) |-> Contents(f.safes[n].bags, {"cert"})]
PassedOver(f) == {n \in 1 .. Len(f.safes) : f.safes[n].type \notin {"data", "encrypted"}}

\* Bags are nested to some depth, so that all that is in a bag can be told.
NestingAssumption ==
  \A kinds \in {{"key", "shrouded"}, {"cert"}}, b \in Bag :
    /\ Within(kinds)[b] \in Seq(Objects)
    /\ Within(kinds)[b] = IF b.kind = "safeContents" THEN Contents(b.bags, kinds)
                          ELSE IF b.kind \in kinds THEN <<b.object>> ELSE <<>>

\* Every bag of a container becomes an object of its own.
ObjectAssumption ==
  \A f \in Files : /\ Distinct(FileKeys(f)) /\ Distinct(FileCerts(f))
                   /\ Held(FileKeys(f)) \cap Held(FileCerts(f)) = {}

-----------------------------------------------------------------------------
(* Properties                                                              *)

\* The passes agree: a load that succeeds leaves no slot empty, and in the
\* middle of one the slots are filled from the front.
SlotsFilled ==
  /\ pc = "returned" /\ ret = 1 => keyPos = numKeys /\ certPos = numCerts
  /\ heap.stores[Main].live =>
       /\ \A n \in 1 .. numKeys  : heap.stores[Main].keys[n] # Null <=> n <= keyPos
       /\ \A n \in 1 .. numCerts : heap.stores[Main].certs[n] # Null <=> n <= certPos

\* Every way out of the load frees what it has unpacked, and between the
\* safes no bags are held.
NothingHeld ==
  /\ pc \in {"returned", "done"} => held = {}
  /\ pc = "safes" => held = {"pkcs12", "safes"}
=============================================================================
