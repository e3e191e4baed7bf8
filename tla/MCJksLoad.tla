----------------------------- MODULE MCJksLoad ------------------------------
(* Files of up to two entries, with chains of up to two certificates,      *)
(* which come in one piece.                                                *)
EXTENDS JksLoad

Chains == {<<>>, <<"good">>, <<"bad">>, <<"good", "good">>, <<"good", "bad">>}

KeyOf(b, q) == [tag |-> "key", blob |-> b, keys |-> 1, certs |-> q]

Entries ==
  {KeyOf(b, q) : b \in Blobs \ {"cut", "short"}, q \in Chains}
  \cup {[KeyOf("good", q) EXCEPT !.keys = 2] : q \in Chains}
  \cup {[KeyOf("good", <<q>>) EXCEPT !.tag = "cert"] : q \in {"good", "bad"}}
  \cup {[KeyOf("good", <<>>) EXCEPT !.tag = "other"]}

Bodies == {<<>>} \cup {<<m>> : m \in Entries} \cup {<<m, n>> : m, n \in Entries}

MCFiles ==
  {[header |-> "ok", entries |-> b, digest |-> d] : b \in Bodies, d \in {"ok", "mismatch", "failed"}}
  \cup {[header |-> h, entries |-> <<>>, digest |-> "ok"] : h \in {"badMagic", "badVersion", "badPassword"}}

MCStores  == {Main, Temp}
MCObjects == {Key(m, n) : m, n \in 1 .. 2} \cup {Cert(m, n) : m, n \in 1 .. 2}
=============================================================================
