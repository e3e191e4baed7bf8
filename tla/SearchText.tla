----------------------------- MODULE SearchText -----------------------------
(***************************************************************************)
(* The text operations of docs/search/search.js.  A text is a sequence of  *)
(* characters.                                                             *)
(***************************************************************************)
EXTENDS Naturals, Sequences, SequencesExt

CONSTANTS
  Chars,       (* the characters                                           *)
  Space,       (* the character that is stripped                           *)
  LowerOf(_),  (* a character in lower case                                *)
  IdOf(_)      (* how a character is written in the id of a row: itself,   *)
               (* or "_" and its code                                      *)

ASSUME CharAssumption ==
  \A ch \in Chars : LowerOf(ch) \in Chars /\ IdOf(ch) \in Seq(Chars)

\* replace(/ +/g, ""), replace(/^ +/, ""), replace(/ +$/, "")
Strip(t) == FlattenSeq([n \in 1 .. Len(t) |-> IF t[n] = Space THEN <<>> ELSE <<t[n]>>])

StripLeading(t) ==
  LET solid == {n \in 1 .. Len(t) : t[n] # Space}
  IN  IF solid = {} THEN <<>> ELSE SubSeq(t, Min(solid), Len(t))

StripTrailing(t) == Reverse(StripLeading(Reverse(t)))

LowerCase(t) == [n \in 1 .. Len(t) |-> LowerOf(t[n])]

ConvertToId(t) == FlattenSeq([n \in 1 .. Len(t) |-> IdOf(t[n])])
=============================================================================
