----------------------------- MODULE MCCfbCipher -----------------------------
(* CfbCipher on bits and blocks of three bits: a chunk can end in the      *)
(* head, on a block boundary, after two whole blocks and in the tail.      *)
EXTENDS CfbCipher

MCXor(a, b) == (a + b) % 2

\* A permutation-like toy cipher that is not linear and tells keys, sboxes
\* and positions apart.
MCE(k, s, b) ==
  [j \in 0 .. 2 |-> (b[(j + 1) % 3] + b[j] * b[(j + 2) % 3] + k * (j + 1) + s * j * j + 1) % 2]

MCIVs == {[j \in 0 .. 2 |-> 0], [j \in 0 .. 2 |-> j % 2]}

Pattern == <<1, 0, 0, 1, 1, 0, 1, 1>>
MCInputs == {SubSeq(Pattern, 1, n) : n \in {1, 2, 4, 7}} \cup {<<0, 1>>}
=============================================================================
