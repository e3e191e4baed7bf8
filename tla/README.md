# TLA+ models of dstu-engine

dstu-engine is a loadable OpenSSL engine with the Ukrainian DSTU algorithms (random
bit generator, hash, stream cipher, signatures on curves over binary fields) and a
library, keylib, that reads keys from JKS, PKCS#12 and key-6 containers.  This
directory models the parts of it that keep state, checks them with TLC on small
instances and proves the invariants that matter for all values of the constants with
TLAPS.  `PROJECT.json` lists the runs, the mutants, the source lines of each
definition, the hazards, the findings and the theorems.

## 1. Inventory

| Component | Source | State | Operations |
|---|---|---|---|
| Symmetric cipher | `engine/cipher.c`, `gost_enc_cfb`, `gost_dec_cfb` | per context: key and sbox, original IV, feedback register `iv`, keystream block `buf`, unused bytes `num` | init, data call, sbox control, ASN.1 parameters out and in, cleanup |
| Random bit generator | `engine/rbg.c` | static: `I`, `s`, `cryptor`, `initialized`, a lock created once | bytes, status, cleanup (add and seed pass through to OpenSSL) |
| Hash | `dstulib/gost/gosthash.c`, `engine/md.c` | per context: H, checksum S, length, buffer of a partial block, a pointer to a cipher context, that cipher context | init, update, final, copy, cleanup, sbox control |
| Block cipher | `dstulib/gost/gost89.c` | expanded sbox, key, mask | encrypt, decrypt, key set-up, modes |
| Key store | `keylib/keystore.c` | two arrays of pointers, with their lengths | new, append, free, set, get |
| JKS loader | `keylib/jks.c` | the store under construction, entry and certificate counters | parse, and a read loop over a BIO |
| PKCS#12 loader | `keylib/pkcs12.c` | the same, sized by a counting pass | count pass, fill pass, parse |
| key-6 loader | `keylib/key6.c` | one decrypted blob, a store | decrypt, parse |
| Key construction | `keylib/utils.c` | EVP keys, groups and parameters under construction | PKCS#8 to key, the second key in the attributes |
| Engine life cycle | `engine/dstu.c`, `engine/err.c` | cached digest, cipher and pkey methods; loaded flags of the error strings | bind, init, finish, destroy, getters |
| Signatures | `engine/sign.c` | none between calls; retry loops inside | sign, verify |
| Public key methods | `engine/pmeth.c`, `engine/ameth.c` | per context: curve, sbox; per key: parameters | copy, control, key generation, encode, decode, compare |
| Keys and parameters | `dstulib/key.c`, `dstulib/params.c` | DSTU_KEY (EC key, sbox), DSTU_AlgorithmParameters | new, set, copy, free, conversions |
| Point compression | `dstulib/compress.c` | none | compress, expand |
| Documentation search | `docs/search/search.js` and the attributes that call it (`docs/menu.js`, `docs/index.html`) | of the panel: text, what is displayed, the section, the text searched last, two timers; of a results page: rows displayed and open, the key held | the handlers of focus, keys, mouse and timers; loading a page |
| Tests, other docs, build | `tests/`, `docs/`, `CMakeLists.txt` | - | - |

How they interact: the cipher, the hash and the generator all use the block cipher,
each with a context of its own.  `gost_key` asks OpenSSL's default generator for a
mask, and that generator is ours once the engine is the default one, so the generator
sets its own key with `gost_key_nomask`.  A digest context takes its sbox from the
key of the signature it is part of.  The loaders build keys through OpenSSL's decoders,
which call the engine's ASN.1 methods, and hand a key store to the caller, who owns it.
Keys and key contexts each own a curve and perhaps an sbox, and key generation and the
ASN.1 methods copy them from one to the other.  The documentation pages that Doxygen
generated are in the repository with their scripts; they share nothing with the engine,
but their search panel is a program of its own, with a page in a frame that calls back
into the page around it.

What is hard here: data calls of any length against a context that remembers a part of
a block (cipher and hash); contexts that are copied while they are in use; threads that
share one static generator with lazily created lock and lazily drawn seed, with failures
of either; containers that turn out to be broken when half of them has been loaded; an
engine that is finished and initialised again; functions that allocate three or four
things and may fail after each; a panel whose text, section, timers and results page all
change at their own times.  `hazards` in `PROJECT.json` has one entry
per place, and the property that would notice it going wrong.

## 2. Modules

| Module | Models |
|---|---|
| `CfbCipher` | a cipher context and its data calls, one step per loop iteration |
| `CipherTransfer` | sender and receiver of a message, each with a `CfbCipher` context |
| `Gost89` | the block cipher: key set-up with its mask, substitution blocks and their packing, encryption, decryption |
| `Rbg` | the generator, its lock and the threads that call it |
| `GostHash` | the streaming hash as operators, and what the hash of a whole message is |
| `DigestContext` | several digest contexts driven through the EVP interface |
| `KeyStore` | the key store as operators on a heap with faults |
| `LoadPromise` | abstract: what a loader promises its caller |
| `JksLoad`, `Pkcs12Load`, `Key6Load` | the three loaders with all their early returns, each with a caller |
| `KeyLoads` | a caller that loads a container of any of the three formats; refines `LoadPromise` |
| `EngineLifecycle` | bind, init, finish, destruction, the methods handed out, error strings, and threads that use the engine |
| `SignVerify` | signing with its retries, verifying, and the encoding of signatures |
| `KeyParams` | who owns the curve and the sbox of keys and key contexts, through all methods and their failures |
| `Compress` | point compression over a binary field, as operators |
| `Positional` | numbers as sequences of digits: what big-number and checksum code does with bytes |
| `SearchText` | the text operations of the documentation search |
| `SearchResults` | a results page: what matches, what is open, where the keys lead |
| `SearchBox` | the search panel: its handlers as operators on a record |
| `SearchPanel` | panel, results page, user, timers and page loads together |
| `CfbCipher_proofs` | theorems about `CfbCipher` and `CipherTransfer` |
| `Dstulib_proofs` | theorems about `Gost89`, `Compress`, `GostHash` and `DigestContext` |
| `KeyLoads_proofs` | theorems about `KeyLoads` and with it `JksLoad`, `Pkcs12Load`, `Key6Load`, `KeyStore` and `LoadPromise` |
| `EngineKeys_proofs` | theorems about `KeyParams` and `SignVerify` |
| `Numbers_proofs` | facts about numbers, sums, recursive functions and sequences of sequences that the others cite |
| other `*_proofs` | theorems about the module of that name |
| `MC*` | instances for TLC |

`CfbCipher` follows `dstu_cipher_do_cipher` loop by loop.  `DoCipher` enters a call,
`HeadByte`/`HeadEnd` use up the keystream that the last call left, `CfbBlock` is an
iteration of `gost_enc_cfb` or `gost_dec_cfb` (which have a register of their own),
`BlocksEnd` writes the register back, `TailByte` starts a new keystream block and
`DoCipherReturn` sets `num`.  The block cipher `E`, the exclusive or and the sizes are
constants.  EVP sets `num` to 0 neither in an init without IV nor in a control, and calls
the init callback for every init (the flags CUSTOM_IV and ALWAYS_CALL_INIT).  History
variables record the stream the context should be in: which parameters it was opened with
and the plaintext and ciphertext so far.  A call that changes the key, the sbox or the
keystream under a stream closes it, and the properties speak of open streams.

`Gost89` is a set of operators with the rounds unrolled as in the code, over words of any
size.  `CfbCipher` treats a substitution block as a value that goes into ASN.1 parameters
and comes out of them unchanged; that it does, although it is unpacked, expanded into
tables, collected from the tables and packed again, is evaluated by TLC in `MCKeyLoads` and
proved in `Dstulib_proofs` (`SboxComesBack`).

`Rbg` has a program counter per thread.  A bit is drawn in two steps (read the state, write
its successor), so that a missing lock shows as a state drawn from twice.  A state is
the pair of the number of its seed and a position; seed 0 is the zero state of static
memory.  OpenSSL's own generator answers without entropy or fails at any time.

`KeyLoads` instantiates the three loaders and lets a caller load a container of one of the
formats; the loaders share the heap, the store and the promise, and what one of them keeps
for itself stays as it is while another runs.  `LoadPromise` says what the headers say, of the
keys and certificates of all parts of a container (`KeyParts`, `CertParts`), and lets a loader
name parts that it passes over (`KeysPassedOver`, `CertsPassedOver`): a JKS key that is
encrypted in a way the loader does not know, a PKCS#12 safe that holds no
data or is not encrypted with a password, the second key of a key-6 file when it cannot be
built.  `KeyLoads` states the properties, those of a
single loader by the name they have there.

`JksLoad`, `Pkcs12Load` and `Key6Load` keep a heap: which stores are live, what their slots
point to, which keys and certificates are live.  Undefined behaviour of C (a NULL or freed
store, a slot outside of the array, an object freed twice, a read beyond the end) sets a
fault, and nothing is said of what follows it.  The content of a
file is a record that says which decoder fails where.  `JksLoad` gets what `readJKS_bio` hands
over, which is nothing, a whole file or the beginning of one: a part of it that is "cut", by a read error, by
where the file ends or by what its own lengths say, is read beyond the end (`AtCut`,
`ReadPastEnd`), because `parseJKS` does not use the size.  A protected key of less than 40 bytes
("short") makes a length wrap around (`DecryptShort`).  `Pkcs12Load` walks the same
container twice: `CountKey` and `CountCert` in the first pass, `GetKey` and `GetCert` in the
second, with `EnterContents` for a bag of bags in both.  `Key6Load` has the read loop too,
which takes an error after some data for the end of the file, as those of the other two
loaders do.

`DigestContext` models the pointer from the hash context to the cipher context explicitly,
because `dstu_md_copy` copies bytes.

In `EngineLifecycle` a method is an address, `static` holds the pointers of `dstu.c`, and
`table` is what OpenSSL was given by `EVP_add_digest` and `EVP_add_cipher`.  OpenSSL counts
functional references under a lock but calls the finish handler without it (`Release`,
then `Finish`), and a getter looks (`Missing`) and makes (`Make`) in two steps.  The constant
`Again` says whether the application goes on after its last `ENGINE_finish`.

`SignVerify` represents a point by its factor, so that `s * G + r * Q` is a number modulo
the order; the x coordinates come from a table.  Keys have either byte order.

In `KeyParams` each method is one step on a memory of blocks, written as the sequence of its
allocations, frees and pointer moves (`Copied`, `Set`, `Assign`, `Free`, `Destroy`).  The
parameter `fails` of a step says which of its calls fails.  `Leave` ends the step: a
pointer without a block of its own is a fault, and blocks without a pointer are what the
step has leaked.  `meant` is a history variable with the parameters a key was given by
whoever made it.

`Compress` works on field elements as numbers, with the arithmetic of the field as
constants and the axioms of a field as assumptions.  Its definitions follow
`dstu_point_compress` and `dstu_point_expand`; `MCKeyParams` evaluates them over a field of
8 elements.  An x that would be written as 0 is not: `bn_encode` returns the number of bytes
of what it writes, 0 for the number 0, and `dstu_point_compress` takes that for a failure.

`SearchBox` has an operator per handler of the panel, which takes the panel and yields it
after the call, because handlers call each other and move the focus, which calls handlers.
`SearchResults` does the same for a results page.  `SearchPanel` makes events of them: keys
that go down, repeat and come up, clicks, the pointer over the list of sections, timers
that fire and pages that load, in any order.  A timer whose number the panel has
overwritten still runs (`lostSearches`, `lostHides`; the second never happens, since the
pointer enters and leaves in turn).  `owed` is a history variable: text or
a section that no search has been made for yet.  Time is not modelled: the half second of
the search timer may be as long as it likes.  The field's own handling of keys is the
browser's; a key that goes down there is one of Down, Enter and Escape, or types a text.

Definitions named as mutants by their comments are not part of the model: each is the
form a plausible bug would give the definition after it, and the property named in
`PROJECT.json` fails with it in place.

## 3. Runs

| Run | Instance | Shows |
|---|---|---|
| `cfb_cipher` | bits, blocks of 3, 2 keys, 2 sboxes, 2 IVs, chunks of 1, 2, 4 and 7, streams up to 9 | type, CFB of every stream, byte counts, published parameters, fresh keystream |
| `cipher_transfer` | the same; key first | what is decrypted is a prefix of what was encrypted |
| `cipher_params_first` | the same; parameters first | finding: the message does not come back |
| `rbg` | 2 threads, 3 calls, 2 bits per call, lock available or not, fairness | exclusion, atomic calls, no state drawn from twice, seeded once, success means seeded, the lock is freed when it is quiet, every call returns or the process is dead |
| `digest_context` | 2 symmetric contexts, bytes of 2 bits, blocks of 2, pieces of 0, 1, 2 and 5, messages up to 6 | state and digest depend on message and box only, own cipher |
| `key_loads` | all JKS files of up to 2 entries, chains up to 2, 1 or 2 keys per entry, cut in any part of an entry, in the header or in the digest, with keys that are too short; all PKCS#12 containers of up to 2 safes with bags in bags; key-6 files of up to 3 chunks, an error at any read | ownership, counters, life of the store, the second pass fills what the first one counted, nothing stays unpacked, undefined behaviour in three places of the JKS loader only, refinement of `LoadPromise`; the block cipher on words of 4 bits |
| `jks_returns` | JKS files that are whole | finding: `KeyStoreFree(NULL)` |
| `key_params` | 2 keys and 2 contexts (symmetric), 2 curves, the default sbox and another, a failure of any call | keys and contexts own what they use, work with the parameters they were given, compare as they should, and leak in three known places only; points over a field of 8 elements |
| `search_panel` | 2 sections, a row with 2 children and a row without, 2 texts, 1 lost timer | results catch up with text and section, what is displayed agrees, the list stays under the pointer, Up and Down walk the lines, the text is the user's |
| `engine_lifecycle` | 3 symmetric threads, 3 methods, 4 sessions, configured or not | whoever has a method can use it, what is created is freed, methods and strings are there while the engine is held |
| `engine_again` | the same, the application goes on after its last finish | finding: freed methods are handed out |
| `sign_verify` | a curve of order 11 over 16 elements, 3 keys, 6 hashes, both byte orders, bytes of 2 bits, all signatures of 2, 3 and 4 bytes and padded ones | what is signed verifies, what verifies can have been signed, signing ends unless the hash is cut to 0 |

Why the bounds are enough.  Cipher and hash: the code distinguishes where in a block a
call begins, whether it ends in the same block, and whether whole blocks lie in between;
blocks of 3 (2 for the hash), a chunk longer than two blocks and streams of three blocks
give every combination, and 9 bytes leave room for a second and third call after a long
one.  The toy block cipher is not linear and tells key, sbox and position apart; the toy
compression function is a term that records its arguments, so two hashes agree only if
they were computed from the same things.  Generator: one thread holds the lock while the
other waits or starts; two bits per call are needed to see a call interrupted, and the
theorems hold for any number of threads.  Loaders: a loader forgets an entry (a safe, a
bag) when it goes to the next, except for what is in the store, so failures in a second one
after each kind of first one cover the shapes.  Engine: two threads race for one method, and
a third takes or gives back a reference meanwhile; the theorems hold for any number.
Keys: methods work on at most two holders, so two keys and two contexts give every pair,
a holder and itself included; the default curve and sbox are told from one other each.
Compression: the field of 8 elements is the smallest one that has points of every kind on
curves with a = 0 and with a = 1 (`PointsOfAllKinds`), and the theorems hold for all.
Panel: two sections, so that a section can be wrong and Down can go past the last one; a
first row with two children and another after it, which one of the two texts hides; texts
that need lower case, stripping and an escape in the id.  `MaxLost` keeps one overwritten timer beside
the one that is known; any more would only search again for the same text.
Signatures: the curve is a real one (its table is checked by an assumption: the factors
are the points), small enough that all values of r and s occur, 0 and the order and beyond
included, and hashes that exceed the field, one of which (16) is 0 in it.

Two properties of the panel are qualified by what the code does.  `ResultsCatchUp` leaves out
texts with spaces between other characters, because `OnSearchFieldChange` compares the text
without spaces and `Search` remembers it with them; and the index one past the last
section, which Down reaches in the list and for which `Search` throws.  Both are visible in the model (`Spaced`,
`SearchThrows`).  It also waits until a key has come up and a
changed section or text has been looked at (`Quiet`).

`CHECK_DEADLOCK FALSE` is set where the modelled activity ends: the bounded calls of the
generator have been made, the load is over, the message is complete, the signature has been
verified, the engine is gone.

Fairness.  `FairSpec` of `Rbg` is weak fairness of each thread's steps inside a call: the
scheduler runs every thread that can run.  For the lock this says only that a thread is
not kept waiting while the lock stays free; that suffices because there are finitely many
calls.  Nothing is assumed about OpenSSL's generator, which may fail each time.
`FairSpec` of `SignVerify` says that the signer runs and that the generator does not avoid
the acceptable numbers for ever; it does not say that there are any.  That there are is
what `SignReturns` finds out, and with the hash 0 left as it is there would be none.  For a hash
that is not 0 but is cut to 0 in the field there are none: `SignReturns` leaves such hashes out by
name (`CutToZero`), and fails with 16 among `Hashes` when it does not.

## 4. Findings

* `cipher_params_first`: with the IV and the sbox taken from ASN.1 parameters before the
  key is set, `dstu_cipher_init` (key, no IV) goes back to the default sbox and leaves the
  keystream block made with the zero key in place, so decryption does not give the message.
* `jks_returns`: a key entry that decrypts, passes its checksum and is no PKCS#8 makes
  `fromKeyProtector` free a NULL store, although `jks.h` promises 0 on failure.
* `engine_again`: `dstu_engine_finish` frees the digest and the cipher and leaves the
  pointers; an engine that is initialised again, without a configuration that holds it,
  hands them out, and its error strings are gone.

What `key_params` shows to leak is known to no doc of the repository and so is no finding:
`makePKey` loses the group when there is no private key and the EVP_PKEY when the key cannot
be completed, and a copy of parameters to a key with an sbox loses that sbox
(`LeaksAreKnown` names the three; every other step is free of leaks).  A copy from a key without an sbox leaves the
old one in use (`stale`), and a key that holds the default sbox does not compare like its
decoded copy, which holds none (`CompareTells`).  `dstu_asn1_param_copy` whose group cannot
be set leaves a key without a group, with which `dstu_asn1_param_cmp` must not be called.
A point with x = 1 on a curve with a = 1 cannot be compressed when the trace of y is 0
(`OthersDoNot`): its x would become 0, for which `bn_encode` tells the same as for a failure.

The panel, where the model shows what a reader of `search.js` may not expect: a timer that
was started before the field lost the focus searches for whatever is in the field when it
fires, the label included, and opens the results again; `OnSelectItem` makes the panel
forget a running timer, which still fires; Shift and Down leave for the list of sections
before the text is compared; a section chosen while the field is empty is not searched in
when the same text as last is typed again; Escape in a results page moves the focus to the
field, where the key comes up and closes the panel.

More places where code and headers do not quite agree are in the models and named in a
property that passes, but have no run of their own.  `FaultsAreKnown` names two where a JKS load does
not return 0: `parseJKS` reads beyond the end of a file that is cut short or whose lengths say
too much (`AtCut`), and a protected key of less than 40 bytes makes a length wrap around
(`DecryptsShort`).  `KeepsPromise` names three where a load that succeeds leaves something
out: a JKS key with an unknown algorithm (`SkipKey`), a PKCS#12 safe of another type
(`SkipSafe`), a second key of a key-6 file that cannot be built (`badSecond`).  `SignReturns`
names the hashes for which `dstu_do_sign` draws for ever: `hash_to_field` replaces a zero hash
before it cuts the hash to the field, not after, and one that is cut to 0 stays 0.

## 5. Proofs

All theorems hold for every value of the constants under the named assumptions of the
modules, which TLC evaluates on the instances.  Those of `EngineLifecycle_proofs` assume
`~Again` in addition, without which they are false (`engine_again`), and `TransferCorrect`
assumes `~ParamsFirst` (`cipher_params_first`).  Three assumptions deserve a word: a
signature can be written because the order has at most as many digits as half a signature
(`N <= Base ^ Length`); the length of a message in bits fits into the block that the hash
appends (`Bits * MaxLen < B ^ BS`, the capacity of 2^256 bits); the keys and the key contexts are
finitely many, so that pointers and the blocks they point to can be counted.

* `Numbers_proofs`: a theorem of the library that takes a predicate as a parameter cannot
  be used with the provers at hand, so induction is done here by least counterexample: a
  set of numbers that is not empty has a least element (`Smallest`), a set that has 0 and
  the successor of each of its members is all of Nat (`AllNat`), and a recursive function
  over Nat satisfies its equation (`RunExists`, from which those of powers, sums and the hash over blocks
  follow).  `FlattenIs` says in the same way what sequences of any number are put together.  The
  rest is division with remainder and the value of a sequence of digits.
* `CfbCipher_proofs`: type correctness and all four safety invariants.  The inductive
  invariant `CfbInv` adds to the type invariant where the control is (`Control`) and how
  the context relates to the history inside a call: `Synced` (key, sbox and original
  IV are those of the stream), `Aligned` (position in the block, by loop), `Register`
  (the feedback register holds the ciphertext so far over the previous block), and
  `Keystream` (`buf` is the encryption of the previous block, except in the block loop,
  which does not use it).  Without `Register` the keystream at the next block boundary
  could be anything, and without `Keystream` a byte of the tail.
* `CfbCipher_proofs`, second part: `RoundTrip` of `CipherTransfer`, for messages of any
  length sent and received in any pieces (`TransferCorrect`).  The sender's stream satisfies the CFB
  relation between plaintext and ciphertext, and so does the receiver's; `CfbTextUnique` says
  that key, IV and ciphertext leave one plaintext.  `TransferInv` adds that the two
  contexts have the same parameters and that the text they remember in blocks
  is the text of the message, byte by byte (`Carries`).
* `Rbg_proofs`: type correctness and the six safety invariants for any set of threads and
  any bounds.  `RbgInv` has a control half (who may hold the lock: `Wanted`, `LockLife`,
  `Cleaner`, `Freed`, `Owner`) that gives mutual exclusion, and a data half that holds
  while the lock is live: `Seeding` (a seed is out only if the generator is not seeded),
  `IssuedBehind` (every state drawn from is behind the current one) and `Drawing` (what a
  thread has read is still the current state).
* `Dstulib_proofs`, digest contexts: an open context uses its own cipher and one that has a box;
  whatever the pieces, its state is that of the message so far (`StateIsOfMessage`), and the
  digest is that of the message (`DigestIsOfMessage`, both in `DigestCorrect`).  The invariant
  `DataInv` says of every open context that it has hashed some number of whole blocks of its message,
  that its checksum is their sum, and that the rest of the message is at the front of its
  buffer (`Holds`).  `FeedBlock` is the heart: `hash_block` keeps that relation when it
  fills up the buffer, hashes whole blocks and keeps what is left (`FeedRest`).  `FinishIs`
  takes the padding, the length and the checksum, with its carries (`AddNumber`), to
  the definition of the hash of a whole message.
* `Dstulib_proofs`, block cipher: decryption undoes encryption for every substitution, because a round on
  swapped halves undoes that round (`RoundUndone`) and the unrolled key order of one
  routine is the reverse of the other's (`UpDown`); the key mask cancels out of all results
  (`MaskCancels`), because what is subtracted modulo the word size comes back (`TakenBack`).
  The same holds for the bytes of a block and for any number of blocks (`ContainerComesBack`):
  a word is read from its bytes and written to them in the same order (`LoadIs`, `StoreIs`), a word
  made of digits has those digits (`WordOfIs`), and the word of a word's digits is that word
  (`WordOfDigits`).  A
  substitution block comes back from the tables and from its packed form (`SboxComesBack`):
  `TableIs` says which digit of a table's entry comes from which row, and `PackedAgain` that a
  row of an even number of digits fills whole bytes of two.
* `Dstulib_proofs`, compression: a point of a curve over any binary field of odd degree comes back if
  its x is 0, or has the trace of a and would not be written as 0 (`PointsComeBack`).  No other
  point does (`OthersAreLost`): it is refused if its x would be written as 0, and read as another
  point or not at all if its x has the other trace.  The field's axioms, square roots, solutions of z^2 + z = u and
  two facts about the trace (0 or 1 everywhere, different for u and u + 1) are assumptions;
  the last is where the odd degree is used.  The argument: y / x and its sum with 1 are the two
  solutions of the quadratic (`Quadratic`), and the trace tells which.
* `EngineKeys_proofs`, signatures: the verifier accepts exactly what the signer can make, and what the
  signer writes is accepted when it is read back (`SignedVerifies`).  The first
  argument is `SameEquation`, that the signer's
  equation for s and the verifier's for the point are the same modulo the order, and
  `VerifyIffSigned`, which takes the point that the verifier computes for the number that
  the signer drew and back.  The second is `ReadBack`: two numbers below the order, written
  in digits of fixed width and in the byte order of the key, are read as the same numbers
  (`DecodeEncoded`).
* `EngineKeys_proofs`, parameters: for any number of keys, contexts, curves and sboxes, keys and contexts own what they point to and
  share nothing (`OwnsItsOwn`), keys work with the parameters they were given
  (`WorksAsMeant`), comparison tells what it should (`CompareTells`), and a step leaks in the three known places only
  (`LeaksAreKnown`).  The state does not show the heap, so the inductive invariant is short
  (no fault so far, types, `WorksAsMeant`); the work is in the steps, which are
  sequences of allocations, frees and pointer moves of any outcome.  `Is` relates the memory in the middle of a step to what
  it means: which holders have a structure, what each field reads, which blocks have no
  pointer yet.  Each operation has a lemma that says what it makes of that (`DestroyIs`,
  `AssignIs`, ...), and each method a proof that strings them together along each of its failures.
* `KeyLoads_proofs`: the six invariants of the loaders and the refinement of `LoadPromise`,
  for files with any number of entries, certificates, safes and chunks, and bags nested to
  any depth.  None of the six is inductive: that a slot is free when it is written needs the
  number of slots that are filled, that number needs how far the walk through the file has
  come, and the second pass over a PKCS#12 container fits the first only because both see
  the same bags.  The inductive invariant `LoadInv` therefore says at every step what
  exactly the heap is: one store (`Built`) whose slots hold what the part of the file that
  has been read contains, the counters are their numbers, and nothing else is live.  For
  JKS that part is the entries before `e` and the first `c` certificates of the current one
  (`JksKeysTo`, `JksCertsAt`), for PKCS#12 the safes before `i` and the bags of the current
  one that are no longer in `todo` (`SafesTo`, `Left`): what has been seen and what `todo`
  still holds are together what the safe holds.  `FrontNext` says what the first
  sequences of any number are put together, `ContentsConcat` that bags of bags may be put
  in front of what is left (as recursion does), and `AppendIs`, `SetKeyIs`, `SetCertIs` and `FreeIs`
  what the operations of the store make of a heap of that form.  `PromiseStep` takes a step of a
  loader to one of `LoadPromise` or to none: only the step that returns shows.
  `FaultsOnlyKnown` bounds the undefined behaviour: the invariant keeps a fault together with
  the place where it was set (`JksSound`), and everywhere else every use of a store, a slot or an
  object is shown to be a proper one.  `LoadersKeepPromise` is about the parts of a container that
  are not passed over, and about loads that have not gone wrong in such a place: those stutter.
  Assumed of the files: the objects that come out of the bags of a container are different
  ones (`ObjectAssumption`: every decoder makes a new one), and bags nest to some depth
  (`NestingAssumption`: what a bag contains satisfies its recursive equation, since a file
  is finite).
* `EngineLifecycle_proofs`: `NoDangling`, `MethodsFreed` and `UsableWhenHeld` for any number
  of threads and sessions, when the application does not go on after its last reference.
  The inductive invariant relates the count of references to the set of threads that hold
  one (hence the cardinality lemmas), says that the digest and the cipher live from bind to
  the last reference and that every method handed out by a getter is live until the engine
  is destroyed, and that a thread in a session knows no method from before it.
* `SearchPanel_proofs`: the type invariant, the four safety invariants and `TextKept` for all
  sections, pages and texts, in three parts.  What is displayed: a lemma per handler says
  what it does not disturb (`Fine`); the invariant `PanelInv` adds to `PanelAgrees` and
  `PointerKeepsList` that the panel is a record with the fields it should have, that no timer
  of the list is lost and that none runs under the pointer.  `Then` composes two calls.
  The keys: the rows that match a text follow each other since they are sorted
  (`MatchesBlock`), and in a page whose rows do (`Walkable`) `Nav` goes down through the lines
  and up again (`DownIs`, `UpIs`, `Reached`).  The results: a lemma per handler, once more,
  says that it keeps `Sound`, which adds to `ResultsCatchUp` what is true before everything
  has come: while results are displayed, those of the last search are in the frame or on their
  way, in some section (`Found`); that section is the one chosen unless `owed` or a section
  that does not exist says otherwise (`InSection`); and the last search was for the text, with or
  without the spaces in it, unless a timer or a keyup is still to come (`TextSeen`).  Only
  `Search` needs less than that before it is called.  `SameSearch` says that a text
  finds the same with and without the spaces around it.
  Assumed of the documentation's data: sections have characters, each with a page, and
  texts, labels and names consist of the characters (`ContentAssumption`,
  `RowsAssumption`, `TextAssumption`, `CharAssumption`); rows are sorted (`RowsSorted`).

Only model-checked: liveness (`EveryCallReturns`, `SignReturns`), which the prover does not
do.

## 6. Not modelled

Overlapping input and output of the cipher, allocation failures other than those of the
lock, inside signing and of the key methods, passwords and their buffers (with the
conversion of the JKS password), the arithmetic of curves and fields and the coefficients of
curves in ASN.1, encoding and printing of keys, ASN.1 templates, curve tables, the known-answer tests and the build.
Of `gost89.c` the MAC, key meshing and magma functions, which nothing calls.  The hash's
length in bits is kept below the capacity of its block.

Of the documentation the search is modelled; positions on the screen, characters outside
the basic plane, the count of matches, links that are followed and keys without a meaning
to the panel are left out, and so are `dynsections.js` (it shows and hides sections of a
page), `jquery.js` (vendored and minified) and the data files.  A measure of this project
that counts lines of JavaScript counts only these scripts; the engine and keylib are in C,
and most of the models and proofs are about them.

## 7. Plan

Done: the symmetric cipher, the generator, the hash, the block cipher, the loaders, the life
cycle, signatures, keys and parameters, point compression, the documentation search.  Left,
in this order:

1. The password conversion of `jks.c` as a state machine over buffer sizes.
2. The cipher with overlapping buffers, to see which overlaps the order of its reads and
   writes allows.
3. Encoding of private and public keys in `ameth.c`, composed with `Compress`.

Theorems worth proving next are those about these parts: that the conversion never writes
past its buffer, and that a key that has been encoded is decoded as itself.
