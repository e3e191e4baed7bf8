------------------------------ MODULE Key6Load ------------------------------
(***************************************************************************)
(* readKey6 of keylib/key6.c, from the BIO to the store, and a caller.      *)
(*                                                                         *)
(* A file comes in chunks of the size of the buffer, and reading may fail  *)
(* at any of them.  BIO_read_ex returns 0 at the end of the file and on an *)
(* error alike; once there is some data the loop takes either for the end  *)
(* and parses what it has.  The loops of readJKS_bio and readPKCS12_bio    *)
(* are the same.  The parser is d2i_IITStore, some checks, decryption and  *)
(* keysFromPKCS8, which makes one key, or two if there is a second one in  *)
(* the attributes and it can be built.                                     *)
(***************************************************************************)
EXTENDS KeyStore

CONSTANT Files       (* the files that may be loaded                       *)

\* What is in a file that has been read as a whole.
Contents == {"badDer", "noHeader", "badType", "noPkcs8",
             "oneKey", "twoKeys", "badSecond"}

File ==
  [chunks  : Nat,
   broken  : Nat,            (* the number of the read that fails, 0 if none *)
   content : Contents]

Main == "main"
Key(n) == <<"key", n>>

FileAssumption ==
  /\ Files \subseteq File
  /\ Main \in Stores /\ Key(1) \in Objects /\ Key(2) \in Objects

VARIABLES
  file, heap,
  ks,         (* the caller's pointer                                      *)
  reads,      (* calls of BIO_read_ex                                      *)
  total,      (* chunks that have been read                                *)
  ret, pc

vars == <<file, heap, ks, reads, total, ret, pc>>

Init ==
  /\ file \in Files /\ heap = EmptyHeap /\ ks = Null
  /\ reads = 0 /\ total = 0 /\ ret = 0 /\ pc = "read"

At(l) == pc = l /\ ~heap.fault

-----------------------------------------------------------------------------
(* The loop of readKey6_bio                                                *)

Fails == reads + 1 = file.broken
AtEnd == ~Fails /\ total = file.chunks

ReadChunk ==
  /\ At("read") /\ ~Fails /\ ~AtEnd
  /\ reads' = reads + 1 /\ total' = total + 1
  /\ UNCHANGED <<file, heap, ks, ret, pc>>

ReadNothing ==
  /\ At("read")
  /\ Fails \/ AtEnd
  /\ total = 0
  /\ ret' = 0 /\ pc' = "returned"
  /\ UNCHANGED <<file, heap, ks, reads, total>>

ReadStops ==
  /\ At("read")
  /\ Fails \/ AtEnd
  /\ total > 0
  /\ pc' = "parse"
  /\ UNCHANGED <<file, heap, ks, reads, total, ret>>

-----------------------------------------------------------------------------
(* parseKey6, decryptKey6, keysFromPKCS8                                   *)

Readable == {"oneKey", "twoKeys", "badSecond"}

\* pkeyFromAttributes returns NULL alike for attributes without a key and for
\* a key or a curve that cannot be made.
Built(f) == IF f.content = "twoKeys" THEN 2 ELSE 1

\* DER tells its length: d2i fails on a part of the file.
Cut == total < file.chunks

ParseFails ==
  /\ At("parse")
  /\ Cut \/ file.content \notin Readable
  /\ ret' = 0 /\ pc' = "returned"
  /\ UNCHANGED <<file, heap, ks, reads, total>>

ParseSucceeds ==
  /\ At("parse") /\ ~Cut /\ file.content \in Readable
  /\ LET n  == Built(file)
         h1 == KeyStoreSetKey(KeyStoreNew(Create(heap, Key(1)), Main, n, 0), Main, 0, Key(1))
     IN  heap' = IF n = 1 THEN h1 ELSE KeyStoreSetKey(Create(h1, Key(2)), Main, 1, Key(2))
  /\ ks' = Main /\ ret' = 1 /\ pc' = "returned"
  /\ UNCHANGED <<file, reads, total>>

-----------------------------------------------------------------------------
CallerFrees ==
  /\ At("returned") /\ ret = 1
  /\ heap' = KeyStoreFree(heap, ks) /\ pc' = "done"
  /\ UNCHANGED <<file, ks, reads, total, ret>>

CallerGivesUp ==
  /\ At("returned") /\ ret = 0
  /\ pc' = "done"
  /\ UNCHANGED <<file, heap, ks, reads, total, ret>>

Next ==
  \/ ReadChunk \/ ReadNothing \/ ReadStops
  \/ ParseFails \/ ParseSucceeds
  \/ CallerFrees \/ CallerGivesUp

Spec == Init /\ [][Next]_vars

-----------------------------------------------------------------------------
\* What a load gives: all keys that can be built, however the file was read.
FileKeys(f)  == IF f.content \in Readable THEN [n \in 1 .. Built(f) |-> Key(n)] ELSE <<>>
FileCerts(f) == <<>>

\* The keys that are in a file, and the one that is left out: a second one that
\* cannot be built.
KeyParts(f) ==
  CASE f.content = "oneKey" -> << <<Key(1)>> >>
    [] f.content \in {"twoKeys", "badSecond"} -> << <<Key(1)>>, <<Key(2)>> >>
    [] OTHER -> <<>>
PassedOver(f) == IF f.content = "badSecond" THEN {2} ELSE {}
=============================================================================
