------------------------------ MODULE JksLoad -------------------------------
(***************************************************************************)
(* parseJKS of keylib/jks.c and a caller of it.                            *)
(*                                                                         *)
(* A JKS file is a header, a sequence of entries (a private key with its   *)
(* chain of certificates, or one certificate) and a digest.  The loader    *)
(* builds the caller's store entry by entry: what an entry holds is put in *)
(* a store of its own first and moved from there.  Every early return is   *)
(* here; what makes a decoder of OpenSSL fail is a field of the file.      *)
(* The cost of a failed parse, the leaked copy of the password, is not.    *)
(*                                                                         *)
(* The file is what readJKS_bio hands over: all of it, or what came before *)
(* a read error, which it takes for the end.  parseJKS does not use the    *)
(* size; a part that is "cut" reaches beyond it, by where the file ends or *)
(* by what its own lengths say.  What C leaves undefined sets the fault of *)
(* the heap, and nothing is said of what follows it.                       *)
(***************************************************************************)
EXTENDS KeyStore

SE == INSTANCE SequencesExt

CONSTANT Files   (* the files that may be loaded                           *)

\* The private key of an entry: where parseKey and decryptKey stop, or "good".  One
\* that is "short" has less than the 40 bytes of a salt and a checksum.
Blobs == {"cut", "badPassword", "badDer", "short", "badChecksum", "pbes1", "unknown",
          "notPkcs8", "good"}

Entry ==
  [tag   : {"key", "cert", "other", "cut"},
   blob  : Blobs,
   keys  : 1 .. 2,                  (* one key, or a second in the attributes *)
   certs : Seq({"good", "bad", "cut"})]

File ==
  [header  : {"ok", "nothing", "cut", "badMagic", "badVersion", "badPassword"},
   entries : Seq(Entry),
   digest  : {"ok", "mismatch", "failed", "cut"}]   (* cut: equal as far as it goes *)

Main == "main"     \* the store the caller gets
Temp == "temp"     \* the store of an entry

Key(e, n)  == <<e, "key", n>>
Cert(e, n) == <<e, "cert", n>>

FileAssumption ==
  /\ Stores = {Main, Temp}
  /\ Files \subseteq File
  /\ \A f \in Files : \A e \in 1 .. Len(f.entries) :
       /\ f.entries[e].tag = "cert" => Len(f.entries[e].certs) = 1
       /\ \A n \in 1 .. 2 : Key(e, n) \in Objects
       /\ \A n \in 1 .. Len(f.entries[e].certs) : Cert(e, n) \in Objects

VARIABLES
  file, heap,
  ks,               (* the caller's pointer                                *)
  e,                (* the entry being parsed                              *)
  c,                (* certificates of it that have been parsed            *)
  keyPos, certPos,  (* what the loader counts                              *)
  ret, pc

vars == <<file, heap, ks, e, c, keyPos, certPos, ret, pc>>

Init ==
  /\ file \in Files /\ heap = EmptyHeap /\ ks = Null
  /\ e = 1 /\ c = 0 /\ keyPos = 0 /\ certPos = 0 /\ ret = 0 /\ pc = "start"

At(l)   == pc = l /\ ~heap.fault
Current == file.entries[e]

\* Mutant: an early return that does not free the store.
GiveUpKeeping ==
  /\ ret' = 0 /\ pc' = "returned"
  /\ UNCHANGED <<file, heap, ks, e, c, keyPos, certPos>>

\* The store is thrown away with what is in it; the caller's pointer stays.
GiveUp ==
  /\ heap' = KeyStoreFree(heap, ks) /\ ret' = 0 /\ pc' = "returned"
  /\ UNCHANGED <<file, ks, e, c, keyPos, certPos>>

-----------------------------------------------------------------------------
(* parseJKS, up to the entries                                             *)

\* Nothing has been read (readJKS_bio), or what has been is no store.
Refuse ==
  /\ At("start") /\ file.header \in {"nothing", "badMagic", "badVersion", "badPassword"}
  /\ ret' = 0 /\ pc' = "returned"
  /\ UNCHANGED <<file, heap, ks, e, c, keyPos, certPos>>

Begin ==
  /\ At("start") /\ file.header = "ok"
  /\ heap' = KeyStoreNew(heap, Main, 0, 0) /\ ks' = Main
  /\ pc' = "entry"
  /\ UNCHANGED <<file, e, c, keyPos, certPos, ret>>

-----------------------------------------------------------------------------
(* parseEntry, parseKey, decryptKey, fromKeyProtector                      *)

More == e <= Len(file.entries)

BadTag ==
  /\ At("entry") /\ More /\ Current.tag = "other"
  /\ GiveUp

\* A certificate entry is a chain of one.
CertEntry ==
  /\ At("entry") /\ More /\ Current.tag = "cert"
  /\ pc' = "certs"
  /\ UNCHANGED <<file, heap, ks, e, c, keyPos, certPos, ret>>

KeyEntry(blobs) ==
  /\ At("entry") /\ More /\ Current.tag = "key"
  /\ Current.blob \in blobs

NoKey == KeyEntry({"badPassword", "badDer", "badChecksum", "pbes1"}) /\ GiveUp

\* An algorithm decryptKey does not know: the key is passed over.
SkipKey ==
  /\ KeyEntry({"unknown"})
  /\ pc' = "certs"
  /\ UNCHANGED <<file, heap, ks, e, c, keyPos, certPos, ret>>

\* The length of the key proper, the size less 40, wraps around: so much memory is
\* not to be had, and the decrypted bytes are written through NULL.
DecryptShort ==
  /\ KeyEntry({"short"})
  /\ heap' = Fault(heap)
  /\ UNCHANGED <<file, ks, e, c, keyPos, certPos, ret, pc>>

\* keysFromPKCS8 fails and leaves tks NULL; tks is freed all the same.
FreeNull ==
  /\ KeyEntry({"notPkcs8"})
  /\ heap' = KeyStoreFree(heap, Null)
  /\ UNCHANGED <<file, ks, e, c, keyPos, certPos, ret, pc>>

\* Mutant: room for one key only.
KeysFromPKCS8Short(h) ==
  LET h1 == KeyStoreSetKey(KeyStoreNew(Create(h, Key(e, 1)), Temp, 1, 0), Temp, 0, Key(e, 1))
  IN  IF Current.keys = 1 THEN h1
                          ELSE KeyStoreSetKey(Create(h1, Key(e, 2)), Temp, 1, Key(e, 2))

\* What keysFromPKCS8 makes of a key that has been decrypted.
KeysFromPKCS8(h) ==
  LET h1 == KeyStoreSetKey(KeyStoreNew(Create(h, Key(e, 1)), Temp, Current.keys, 0), Temp, 0, Key(e, 1))
  IN  IF Current.keys = 1 THEN h1
                          ELSE KeyStoreSetKey(Create(h1, Key(e, 2)), Temp, 1, Key(e, 2))

GetKey ==
  /\ KeyEntry({"good"})
  /\ LET h == KeyStoreAppend(KeysFromPKCS8(heap), ks, Temp)
     IN  /\ keyPos' = keyPos + KeyStoreKeyNum(h, Temp)
         /\ certPos' = certPos + KeyStoreCertNum(h, Temp)
         /\ heap' = KeyStoreFree(h, Temp)
  /\ pc' = "certs"
  /\ UNCHANGED <<file, ks, e, c, ret>>

-----------------------------------------------------------------------------
(* parseCert                                                               *)

Parsing == At("certs") /\ c < Len(Current.certs)

\* Mutant: the certificate is not counted.
GetCertUncounted ==
  /\ Parsing /\ Current.certs[c + 1] = "good"
  /\ LET h == KeyStoreNew(Create(heap, Cert(e, c + 1)), Temp, 0, 1)
         g == KeyStoreAppend(KeyStoreSetCert(h, Temp, 0, Cert(e, c + 1)), ks, Temp)
     IN  heap' = KeyStoreFree(g, Temp)
  /\ c' = c + 1
  /\ UNCHANGED <<file, ks, e, keyPos, certPos, ret, pc>>

GetCert ==
  /\ Parsing /\ Current.certs[c + 1] = "good"
  /\ LET h == KeyStoreNew(Create(heap, Cert(e, c + 1)), Temp, 0, 1)
         g == KeyStoreAppend(KeyStoreSetCert(h, Temp, 0, Cert(e, c + 1)), ks, Temp)
     IN  heap' = KeyStoreFree(g, Temp)
  /\ certPos' = certPos + 1
  /\ c' = c + 1
  /\ UNCHANGED <<file, ks, e, keyPos, ret, pc>>

BadCert == Parsing /\ Current.certs[c + 1] = "bad" /\ GiveUp

NextEntry ==
  /\ At("certs") /\ c = Len(Current.certs)
  /\ e' = e + 1 /\ c' = 0 /\ pc' = "entry"
  /\ UNCHANGED <<file, heap, ks, keyPos, certPos, ret>>

-----------------------------------------------------------------------------
(* The end of what was handed over.  The header is read before anything of *)
(* it is checked, the number of certificates before the key is decrypted.  *)

AtCut ==
  \/ pc = "start" /\ file.header = "cut"
  \/ pc = "entry" /\ More /\ Current.tag = "cut"
  \/ pc = "entry" /\ More /\ Current.tag = "key" /\ Current.blob = "cut"
  \/ pc = "certs" /\ c < Len(Current.certs) /\ Current.certs[c + 1] = "cut"
  \/ pc = "entry" /\ ~More /\ file.digest = "cut"

ReadPastEnd ==
  /\ AtCut /\ ~heap.fault
  /\ heap' = Fault(heap)
  /\ UNCHANGED <<file, ks, e, c, keyPos, certPos, ret, pc>>

-----------------------------------------------------------------------------
(* The digest, and the caller                                              *)

BadDigest == At("entry") /\ ~More /\ file.digest \in {"mismatch", "failed"} /\ GiveUp

Succeed ==
  /\ At("entry") /\ ~More /\ file.digest = "ok"
  /\ ret' = 1 /\ pc' = "returned"
  /\ UNCHANGED <<file, heap, ks, e, c, keyPos, certPos>>

\* The caller looks at the result, as the tests do: it frees the store of a
\* load that has succeeded, and leaves the pointer of a failed one alone.
CallerFrees ==
  /\ At("returned") /\ ret = 1
  /\ heap' = KeyStoreFree(heap, ks) /\ pc' = "done"
  /\ UNCHANGED <<file, ks, e, c, keyPos, certPos, ret>>

CallerGivesUp ==
  /\ At("returned") /\ ret = 0
  /\ pc' = "done"
  /\ UNCHANGED <<file, heap, ks, e, c, keyPos, certPos, ret>>

Next ==
  \/ Refuse \/ Begin
  \/ BadTag \/ CertEntry \/ NoKey \/ SkipKey \/ DecryptShort \/ FreeNull \/ GetKey
  \/ GetCert \/ BadCert \/ NextEntry
  \/ ReadPastEnd \/ BadDigest \/ Succeed
  \/ CallerFrees \/ CallerGivesUp

Spec == Init /\ [][Next]_vars

-----------------------------------------------------------------------------
(* What a file holds: the keys and certificates of its entries, in order.  *)

EntryKeys(f, n) ==
  IF f.entries[n].tag = "key" THEN [k \in 1 .. f.entries[n].keys |-> Key(n, k)] ELSE <<>>
EntryCerts(f, n) == [k \in 1 .. Len(f.entries[n].certs) |-> Cert(n, k)]

KeyParts(f)  == [n \in 1 .. Len(f.entries) |-> EntryKeys(f, n)]
CertParts(f) == [n \in 1 .. Len(f.entries) |-> EntryCerts(f, n)]

\* The entries whose keys a load leaves out: encrypted some way it does not know.
PassedOver(f) ==
  {n \in 1 .. Len(f.entries) : f.entries[n].tag = "key" /\ f.entries[n].blob = "unknown"}

\* What a load that succeeds gives.
KeptKeys(f, n) == IF n \in PassedOver(f) THEN <<>> ELSE EntryKeys(f, n)
FileKeys(f)    == SE!FlattenSeq([n \in 1 .. Len(f.entries) |-> KeptKeys(f, n)])
FileCerts(f)   == SE!FlattenSeq(CertParts(f))

-----------------------------------------------------------------------------
(* Properties                                                              *)

\* keyPos and certPos count the slots of the store, and every slot is filled.
CountersAgree ==
  pc \in {"entry", "certs"} =>
    /\ keyPos = KeyStoreKeyNum(heap, ks) /\ certPos = KeyStoreCertNum(heap, ks)
    /\ \A n \in 1 .. keyPos : heap.stores[ks].keys[n] # Null
    /\ \A n \in 1 .. certPos : heap.stores[ks].certs[n] # Null

\* The store of an entry is gone when the entry has been parsed, and the
\* caller's store lives as long as the load goes on or has succeeded.
StoreLives ==
  /\ ~heap.stores[Temp].live
  /\ heap.stores[Main].live <=>
       pc \in {"entry", "certs"} \/ (pc = "returned" /\ ret = 1)

\* A key that decrypts to no PKCS#8 is about to be looked at, whose store does not
\* exist and is freed; or one that is too short to be decrypted.
FreesNull     == pc = "entry" /\ More /\ Current.tag = "key" /\ Current.blob = "notPkcs8"
DecryptsShort == pc = "entry" /\ More /\ Current.tag = "key" /\ Current.blob = "short"

\* "@return 1 for success, 0 in case of failure": every load returns.
LoadReturns == ~heap.fault
=============================================================================
