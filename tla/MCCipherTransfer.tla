-------------------------- MODULE MCCipherTransfer --------------------------
(* CipherTransfer on bits and blocks of three bits.                        *)
EXTENDS CipherTransfer

MCXor(a, b) == (a + b) % 2

MCE(k, s, b) ==
  [j \in 0 .. 2 |-> (b[(j + 1) % 3] + b[j] * b[(j + 2) % 3] + k * (j + 1) + s * j * j + 1) % 2]

MCIVs == {[j \in 0 .. 2 |-> 0], [j \in 0 .. 2 |-> j % 2]}

Pattern == <<1, 0, 0, 1, 1, 0, 1, 1>>
MCInputs == {SubSeq(Pattern, 1, n) : n \in {1, 4, 7}} \cup {<<0, 1>>}
=============================================================================
