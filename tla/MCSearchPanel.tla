--------------------------- MODULE MCSearchPanel ----------------------------
(* Two sections; a page with a row that has children, which one of the     *)
(* texts typed matches and the other does not.                             *)
EXTENDS SearchPanel

MCChars == {" ", "K", "S", "a", "j", "k", "s", "_", "2", "0"}

MCLowerOf(ch) == IF ch = "K" THEN "k" ELSE ch
MCIdOf(ch)    == IF ch = " " THEN <<"_", "2", "0">> ELSE <<ch>>

MCLabel   == <<"S">>
MCContent == (0 :> <<"k">>) @@ (1 :> <<"j">>)

R(name, kids) == [name |-> name, kids |-> kids]
MCRows ==
  (<<0, "k">> :> <<R(<<"k", "a">>, 2), R(<<"k", "s">>, 0)>>)
  @@ (<<1, "j">> :> <<R(<<"j">>, 0)>>)

MCTexts == {<<" ", "K">>, <<"k", "s">>}
=============================================================================
