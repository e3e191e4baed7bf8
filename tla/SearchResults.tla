--------------------------- MODULE SearchResults ----------------------------
(***************************************************************************)
(* The results page of the documentation search (SearchResults and         *)
(* createResults of docs/search/search.js), loaded into a frame of the     *)
(* documentation page.                                                     *)
(*                                                                         *)
(* A page lists rows; a row with several results has a line for each of    *)
(* them, its children, which are displayed when it is open.  The operators *)
(* take a frame and yield the frame or the place the focus goes to after   *)
(* the call.  Rows and children are counted from 0, as in the code.        *)
(***************************************************************************)
EXTENDS SearchText

CONSTANT
  Rows   (* the searchData of each page: a sequence of [name, kids], where *)
         (* kids is 0 for a row with a single result                       *)

Blank     == <<"blank">>       \* the frame before the first search
NoMatches == <<"nomatches">>   \* the page without results

ASSUME RowsAssumption ==
  \A p \in DOMAIN Rows : Rows[p] \in Seq([name : Seq(Chars), kids : Nat])

\* Rows are sorted by name: those that match a text follow each other.
ASSUME RowsSorted ==
  \A p \in DOMAIN Rows : \A l, m, n \in 1 .. Len(Rows[p]) :
    l < m /\ m < n =>
      \A t \in {SubSeq(Rows[p][l].name, 1, k) : k \in 0 .. Len(Rows[p][l].name)} :
        IsPrefix(t, Rows[p][n].name) => IsPrefix(t, Rows[p][m].name)

Keys == {"up", "down", "left", "right", "enter", "esc"}

\* Where the focus is, or goes to.
Field       == <<"field">>
Item(i)     == <<"item", i>>
Child(i, c) == <<"child", i, c>>
Nowhere     == <<"none">>

\* A frame with its page: the rows that are displayed, those that are open,
\* and what ProcessKeys remembers.
FrameOf(page, shown) ==
  [page |-> page, shown |-> shown, open |-> {}, lastKey |-> "none", repeatOn |-> FALSE]

HasResults(f) == f.page \in DOMAIN Rows
Row(f, i)     == Rows[f.page][i + 1]
Indices(f)    == {n - 1 : n \in DOMAIN Rows[f.page]}

\* The rows a text matches: it starts their names.
SearchId(t) == ConvertToId(LowerCase(StripTrailing(StripLeading(t))))
Matches(page, t) ==
  {i \in {n - 1 : n \in DOMAIN Rows[page]} : IsPrefix(SearchId(t), Rows[page][i + 1].name)}

\* The scripts of a page run when it is loaded: createResults, then Search with
\* the text of the query.
Loaded(page, t) ==
  FrameOf(page, IF page \in DOMAIN Rows THEN Matches(page, t) ELSE {})

\* FindChildElement, and whether what it finds is displayed.
HasChildren(f, i) == Row(f, i).kids > 0
IsOpen(f, i)      == HasChildren(f, i) /\ i \in f.open

Open(f, i)   == IF HasChildren(f, i) THEN [f EXCEPT !.open = @ \cup {i}] ELSE f
Close(f, i)  == [f EXCEPT !.open = @ \ {i}]
Toggle(f, i) == IF IsOpen(f, i) THEN Close(f, i) ELSE Open(f, i)

\* NavNext, NavPrev: the nearest row displayed from index on, or Nowhere.
NavNext(f, index) ==
  LET after == {i \in f.shown : i >= index}
  IN  IF after = {} THEN Nowhere ELSE Item(Min(after))

NavPrev(f, index) ==
  LET before == {i \in f.shown : i <= index}
  IN  IF before = {} THEN Nowhere ELSE Item(Max(before))

-----------------------------------------------------------------------------
(* ProcessKeys: a key acts when it goes down, and again with every keypress *)
(* after the first.                                                         *)

ProcessKeys(f, type, key) ==
  CASE type = "keydown"  -> [f EXCEPT !.lastKey = key, !.repeatOn = FALSE]
    [] type = "keypress" -> [f EXCEPT !.repeatOn = @ \/ f.lastKey # "none"]
    [] type = "keyup"    -> [f EXCEPT !.lastKey = "none", !.repeatOn = FALSE]

Acts(f, type, key) ==
  \/ type = "keydown"
  \/ type = "keypress" /\ f.repeatOn /\ f.lastKey # "none"

-----------------------------------------------------------------------------
(* Nav and NavChild: what an acting key does to the page, and where the     *)
(* focus goes.                                                              *)

LastChild(f, i) == Child(i, Row(f, i).kids - 1)

\* Mutant: Up goes to the row, past its open children.
UpRowOnly(f, i) ==
  LET above == IF i = 0 THEN Nowhere ELSE NavPrev(f, i - 1)
  IN  IF above = Nowhere THEN Field ELSE above

\* Up: the row above, or its last child if it is open.  The children are
\* those of row i - 1, whichever row NavPrev has found.
Up(f, i) ==
  LET above == IF i = 0 THEN Nowhere ELSE NavPrev(f, i - 1)
  IN  CASE above = Nowhere -> Field
        [] above # Nowhere /\ IsOpen(f, above[2]) /\ HasChildren(f, i - 1) -> LastChild(f, i - 1)
        [] OTHER -> above

OrStay(target, place) == IF target = Nowhere THEN place ELSE target

Down(f, i) == IF IsOpen(f, i) THEN Child(i, 0) ELSE OrStay(NavNext(f, i + 1), Item(i))

UpChild(f, i, c)   == IF c > 0 THEN Child(i, c - 1) ELSE Item(i)
DownChild(f, i, c) ==
  IF c + 1 < Row(f, i).kids THEN Child(i, c + 1) ELSE OrStay(NavNext(f, i + 1), Child(i, c))

\* Where the key takes the focus from an item or a child; Escape is left to
\* the panel.
Nav(f, place, key) ==
  LET i == place[2]
  IN  IF place[1] = "item"
      THEN CASE key = "up" -> Up(f, i) [] key = "down" -> Down(f, i) [] OTHER -> place
      ELSE CASE key = "up" -> UpChild(f, i, place[3]) [] key = "down" -> DownChild(f, i, place[3])
             [] OTHER -> place

\* What the key does to the page: an item opens and closes.
NavPage(f, place, key) ==
  CASE place[1] = "item" /\ key = "right" -> Open(f, place[2])
    [] place[1] = "item" /\ key = "left"  -> Close(f, place[2])
    [] OTHER -> f

\* The lines of the page that are displayed.
Lines(f) ==
  {Item(i) : i \in f.shown}
    \cup UNION {{Child(i, c) : c \in 0 .. Row(f, i).kids - 1} : i \in f.shown \cap f.open}
=============================================================================
