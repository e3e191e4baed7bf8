----------------------------- MODULE MCKeyLoads -----------------------------
(* JKS files of up to two entries, with chains of up to two certificates,  *)
(* whole or cut at any of their parts;                                     *)
(* PKCS#12 containers of up to two safes, of up to two bags, one of which  *)
(* may hold up to two bags; key-6 files of up to three chunks, of which    *)
(* the reading may fail at any.                                            *)
(*                                                                         *)
(* A key-6 container is decrypted with gost_dec; here the block cipher has *)
(* words of two digits and two bytes of two bits.                          *)
EXTENDS KeyLoads, Gost89

\* The constants are made of what the loaders' modules define, which must not
\* depend on the constants in turn.
JksForm  == INSTANCE JksLoad WITH Files <- {}, Objects <- {}, Stores <- {}
Key6Form == INSTANCE Key6Load WITH Files <- {}, Objects <- {}, Stores <- {}

Chains == {<<>>, <<"good">>, <<"bad">>, <<"good", "good">>, <<"good", "bad">>}

KeyOf(b, q) == [tag |-> "key", blob |-> b, keys |-> 1, certs |-> q]

Entries ==
  {KeyOf(b, q) : b \in JksForm!Blobs \ {"cut"}, q \in Chains}
  \cup {[KeyOf("good", q) EXCEPT !.keys = 2] : q \in Chains}
  \cup {[KeyOf("good", <<q>>) EXCEPT !.tag = "cert"] : q \in {"good", "bad"}}
  \cup {[KeyOf("good", <<>>) EXCEPT !.tag = "other"]}

Bodies == {<<>>} \cup {<<m>> : m \in Entries} \cup {<<m, n>> : m, n \in Entries}

\* After a part that is cut there is nothing.
CutEntries ==
  {KeyOf("cut", <<>>), KeyOf("good", <<"cut">>), KeyOf("unknown", <<"good", "cut">>),
   [KeyOf("good", <<"cut">>) EXCEPT !.tag = "cert"], [KeyOf("good", <<>>) EXCEPT !.tag = "cut"]}

CutBodies == {<<m>> : m \in CutEntries} \cup {<<m, n>> : m \in Entries, n \in CutEntries}

MCJksFiles ==
  {[header |-> "ok", entries |-> b, digest |-> d] :
     b \in Bodies, d \in {"ok", "mismatch", "failed", "cut"}}
  \cup {[header |-> "ok", entries |-> b, digest |-> "cut"] : b \in CutBodies}
  \cup {[header |-> h, entries |-> <<>>, digest |-> "ok"] :
          h \in {"nothing", "cut", "badMagic", "badVersion", "badPassword"}}

MCStores  == {JksForm!Main, JksForm!Temp}
MCJksObjects == {JksForm!Key(m, n) : m, n \in 1 .. 2} \cup {JksForm!Cert(m, n) : m, n \in 1 .. 2}

-----------------------------------------------------------------------------
Leaf(kind, ok, object) == [kind |-> kind, reads |-> ok, object |-> object, bags |-> <<>>]
Nest(bags, object) == [kind |-> "safeContents", reads |-> TRUE, object |-> object, bags |-> bags]

Leaves(o) ==
  {Leaf(k, r, o) : k \in {"key", "cert"}, r \in BOOLEAN}
  \cup {Leaf("shrouded", FALSE, o), Leaf("shrouded", TRUE, o), Leaf("other", TRUE, o)}

Inner(o, p) ==
  {<<>>} \cup {<<x>> : x \in Leaves(o)}
  \cup {<<x, y>> : x \in Leaves(o), y \in {Leaf("key", TRUE, p), Leaf("cert", FALSE, p)}}

FirstBags(o, p, q) ==
  {<<>>} \cup {<<x>> : x \in Leaves(o)} \cup {<<x, y>> : x \in Leaves(o), y \in Leaves(q)}
  \cup {<<Nest(z, o), y>> : z \in Inner(o, p), y \in Leaves(q)}

SecondBags(o) == {<<x>> : x \in {Leaf("shrouded", TRUE, o), Leaf("cert", TRUE, o), Leaf("key", FALSE, o)}}

Unpacked(type, bags) == [type |-> type, opens |-> TRUE, bags |-> bags]
Others ==
  {[type |-> t, opens |-> FALSE, bags |-> <<>>] : t \in {"null", "data", "encrypted"}}
  \cup {Unpacked("other", <<Leaf("key", TRUE, <<1>>), Leaf("cert", TRUE, <<2>>)>>)}

First  == {Unpacked("data", b) : b \in FirstBags(<<1>>, <<2>>, <<3>>)} \cup Others
Second == {Unpacked("encrypted", b) : b \in SecondBags(<<4>>)} \cup Others

MCPkcs12Files ==
  {[front |-> d, safes |-> <<>>] : d \in {"badDer", "badMac", "badSafes", "ok"}}
  \cup {[front |-> "ok", safes |-> <<s>>] : s \in First}
  \cup {[front |-> "ok", safes |-> <<s, t>>] : s \in First, t \in Second}

AllLeaves == UNION {Leaves(o) : o \in {<<1>>, <<2>>, <<3>>, <<4>>}}
MCBag     == AllLeaves \cup {Nest(z, <<1>>) : z \in Inner(<<1>>, <<2>>)}
MCPkcs12Objects == {<<1>>, <<2>>, <<3>>, <<4>>}

-----------------------------------------------------------------------------
MCKey6Files   == [chunks : 0 .. 3, broken : 0 .. 4, content : Key6Form!Contents]
MCKey6Objects == {Key6Form!Key(1), Key6Form!Key(2)}
MCObjects     == MCJksObjects \cup MCPkcs12Objects \cup MCKey6Objects

-----------------------------------------------------------------------------
Bit(x, n)       == (x \div 2 ^ n) % 2
MCWordXor(a, b) ==
  LET differ(n) == 2 ^ n * ((Bit(a, n) + Bit(b, n)) % 2)
  IN  differ(0) + differ(1) + differ(2) + differ(3)

\* Packed substitution blocks: two bytes to a row.
MCPacked == {[n \in 0 .. 3 |-> <<4, 11, 14, 1>>[n + 1]],
             [n \in 0 .. 3 |-> <<13, 2, 7, 8>>[n + 1]]}

MCKeys  == {NoMask, [n \in KeyIndex |-> (5 * n + 7) % W]}
MCMasks == {NoMask, [n \in KeyIndex |-> (11 * n + 9) % W]}
MCBlocks == [0 .. 3 -> 0 .. 3]

MCClear  == <<[n \in 0 .. 3 |-> n], [n \in 0 .. 3 |-> 3], [n \in 0 .. 3 |-> n]>>

EmptyContext == [key |-> NoMask, mask |-> NoMask, k |-> [x \in Word |-> 0]]

\* A container that has been encrypted comes back, one block or several, and
\* the mask makes no difference.  A quantifier over a set of one has TLC compute
\* a value before it goes on with it.
ASSUME BlocksComeBack ==
  \A packed \in MCPacked, key \in MCKeys, mask \in MCMasks :
    \A empty \in {gost_init(EmptyContext, unpack_sbox(packed))} :
      \A cc \in {gost_key(empty, key, mask)}, plain \in {gost_key_nomask(empty, key)} :
        /\ cc \in Context
        /\ gost_get_key(cc) = key
        /\ \A b \in MCBlocks : \A crypted \in {gostcrypt(cc, b)} :
             /\ gostdecrypt(cc, crypted) = b
             /\ gostcrypt(plain, b) = crypted
        /\ \A cipher \in {gost_enc(cc, MCClear)} : gost_dec(cc, cipher) = MCClear

\* The substitution block that is published in the ASN.1 parameters of a cipher
\* is the one that the context was given, although it has been unpacked,
\* expanded, collected from the tables and packed again.
ASSUME SboxComesBack ==
  \A packed \in MCPacked :
    pack_sbox(dstu_get_sbox(kboxinit(unpack_sbox(packed)))) = packed
=============================================================================
