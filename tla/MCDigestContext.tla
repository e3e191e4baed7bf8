-------------------------- MODULE MCDigestContext ---------------------------
(* Bytes of two bits, blocks of two bytes; the compression function is a   *)
(* term that records its arguments, so that no two hashes agree by chance. *)
EXTENDS DigestContext, TLC

CONSTANTS c1, c2

MCHashStep(b, h, m) == Append(h, <<b, m>>)
MCZeroH  == <<>>
MCPieces == {<<>>, <<3>>, <<1, 3>>, <<2, 1, 3, 3, 3>>}
Swap     == Permutations(Ctx)
=============================================================================
