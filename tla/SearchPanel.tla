---------------------------- MODULE SearchPanel -----------------------------
(***************************************************************************)
(* The documentation search at work: a user with a keyboard and a mouse,   *)
(* the timers of the panel, and the frame that loads results pages.  Each  *)
(* event is one step; timers and pages come when they come, so every       *)
(* order of them is here.                                                  *)
(*                                                                         *)
(* Keys without a meaning to the panel are left out, and so is a link that *)
(* is followed, for it leaves the page.                                    *)
(***************************************************************************)
EXTENDS SearchBox

CONSTANTS
  Texts,     (* what the user types                                        *)
  MaxLost    (* bound: running timers the panel has lost the number of     *)

ASSUME TextAssumption == Texts \subseteq Seq(Chars) /\ MaxLost \in Nat

VARIABLES
  box,       (* the panel                                                  *)
  frame,     (* the page in its frame                                      *)
  hover,     (* the pointer is over the list of sections or its icon       *)
  down       (* the key held, or "none"                                    *)

vars == <<box, frame, hover, down>>

Init ==
  /\ box = OnSelectItem(NewBox, 0)
  /\ frame = FrameOf(Blank, {})
  /\ hover = FALSE /\ down = "none"

\* The panel becomes b.
Panel(b) == box' = b /\ b.lostSearches <= MaxLost

InField   == box.focus = Field
InSelect  == box.focus = Select
InFrame   == InResults(box.focus)

\* A key goes down, or is held and repeats.
Press(key) == down \in {"none", key} /\ down' = key

-----------------------------------------------------------------------------
(* Keys                                                                    *)

Type(t) ==
  /\ InField /\ Press("text") /\ t # box.value
  /\ Panel([box EXCEPT !.value = t, !.owed = @ \cup {"text"}])
  /\ UNCHANGED <<frame, hover>>

\* The field has no handler for a key that goes down; a key that does not move
\* the focus comes up as a typed one does.
FieldKeyDown(key) ==
  /\ InField /\ key \in {"down", "enter", "esc"} /\ Press(key)
  /\ UNCHANGED <<box, frame, hover>>

FieldKeyUp(shift) ==
  /\ InField /\ down # "none" /\ down' = "none"
  /\ shift => down \in {"down", "enter"}
  /\ Panel(OnSearchFieldChange(box, frame, down, shift))
  /\ UNCHANGED <<frame, hover>>

SelectKeyDown(key) ==
  /\ InSelect /\ Press(key)
  /\ Panel(OnSearchSelectKey(box, key))
  /\ UNCHANGED <<frame, hover>>

\* Nav and NavChild return before ProcessKeys for Enter.
FrameKey(type, key) ==
  /\ InFrame /\ key # "enter"
  /\ frame' = LET f == ProcessKeys(frame, type, key)
              IN  IF Acts(f, type, key) /\ Acts(frame, type, key)
                  THEN NavPage(f, box.focus, f.lastKey) ELSE f
  /\ Panel(CASE ~Acts(frame, type, key) -> box
             [] Acts(frame, type, key) /\ frame'.lastKey = "esc" ->
                  MoveFocus(CloseResultsWindow(box), Field)
             [] OTHER -> MoveFocus(box, Nav(frame, box.focus, frame'.lastKey)))
  /\ UNCHANGED hover

FrameKeyDown(key)  == Press(key) /\ FrameKey("keydown", key)
FrameKeyPress(key) == down = key /\ down' = key /\ FrameKey("keypress", key)
FrameKeyUp(key)    == down = key /\ down' = "none" /\ FrameKey("keyup", key)

\* The browser follows the link of the row: a row with children toggles.
FrameEnter ==
  /\ box.focus[1] = "item" /\ HasChildren(frame, box.focus[2]) /\ Press("enter")
  /\ frame' = Toggle(frame, box.focus[2])
  /\ UNCHANGED <<box, hover>>

\* A key that comes up where nobody listens.
KeyUpUnheard ==
  /\ down # "none" /\ down' = "none"
  /\ InSelect \/ box.focus = Nowhere \/ (InFrame /\ down = "enter")
  /\ UNCHANGED <<box, frame, hover>>

-----------------------------------------------------------------------------
(* The mouse                                                               *)

ClickField ==
  /\ Panel(MoveFocus(box, Field))
  /\ UNCHANGED <<frame, hover, down>>

ClickElsewhere ==
  /\ Panel(MoveFocus(box, Nowhere))
  /\ UNCHANGED <<frame, hover, down>>

ClickClose ==
  /\ box.close
  /\ Panel(CloseResultsWindow(MoveFocus(box, Nowhere)))
  /\ UNCHANGED <<frame, hover, down>>

ClickRow(i) ==
  /\ box.popup /\ HasResults(frame) /\ i \in frame.shown /\ HasChildren(frame, i)
  /\ Panel(MoveFocus(box, Item(i)))
  /\ frame' = Toggle(frame, i)
  /\ UNCHANGED <<hover, down>>

ClickSelectItem(s) ==
  /\ box.select
  /\ Panel(OnSelectItem(MoveFocus(box, Select), s))
  /\ UNCHANGED <<frame, hover, down>>

\* Over the icon the list opens; over the list it stays open.
MouseOver ==
  /\ ~hover /\ hover' = TRUE
  /\ Panel(OnSearchSelectShow(box))
  /\ UNCHANGED <<frame, down>>

MouseOut ==
  /\ hover /\ hover' = FALSE
  /\ Panel(OnSearchSelectHide(box))
  /\ UNCHANGED <<frame, down>>

-----------------------------------------------------------------------------
(* Timers and pages                                                        *)

SearchTimer ==
  /\ box.keyTimer
  /\ Panel(Search([box EXCEPT !.keyTimer = FALSE]))
  /\ UNCHANGED <<frame, hover, down>>

LostSearchTimer ==
  /\ box.lostSearches > 0
  /\ Panel(Search([box EXCEPT !.lostSearches = @ - 1]))
  /\ UNCHANGED <<frame, hover, down>>

HideTimer ==
  /\ box.hideTimer
  /\ Panel(CloseSelectionWindow([box EXCEPT !.hideTimer = FALSE]))
  /\ UNCHANGED <<frame, hover, down>>

\* The page replaces the one in the frame, and the line that has the focus.
PageLoads ==
  /\ \E next \in box.loading : frame' = Loaded(next.page, next.query)
  /\ Panel([box EXCEPT !.loading = {}, !.focus = IF InFrame THEN Nowhere ELSE @])
  /\ UNCHANGED <<hover, down>>

-----------------------------------------------------------------------------

KeyEvent ==
  \/ \E t \in Texts : Type(t)
  \/ \E shift \in BOOLEAN : FieldKeyUp(shift)
  \/ \E key \in Keys : \/ FieldKeyDown(key) \/ SelectKeyDown(key)
                       \/ FrameKeyDown(key) \/ FrameKeyPress(key) \/ FrameKeyUp(key)
  \/ FrameEnter \/ KeyUpUnheard

MouseEvent ==
  \/ ClickField \/ ClickElsewhere \/ ClickClose \/ MouseOver \/ MouseOut
  \/ \E i \in frame.shown : ClickRow(i)
  \/ \E s \in Sections : ClickSelectItem(s)

Delayed == SearchTimer \/ LostSearchTimer \/ HideTimer \/ PageLoads

Next == KeyEvent \/ MouseEvent \/ Delayed

Spec == Init /\ [][Next]_vars

-----------------------------------------------------------------------------
(* Properties                                                              *)

TypeOK ==
  /\ box.value \in Texts \cup {Label, <<>>}
  /\ box.searchIndex \in 0 .. ItemCount
  /\ \A flag \in {box.boxActive, box.popup, box.close, box.select, box.searchActive,
                  box.keyTimer, box.hideTimer, hover, frame.repeatOn} :
       flag \in BOOLEAN
  /\ box.lostSearches \in 0 .. MaxLost /\ box.lostHides \in Nat
  /\ frame.page \in DOMAIN Rows \cup {Blank, NoMatches}
  /\ down \in Keys \cup {"none", "text"} /\ frame.lastKey \in Keys \cup {"none"}

\* Nothing is under way: no timer, no page, no key, no text to look at.
Quiet ==
  /\ ~box.keyTimer /\ box.lostSearches = 0 /\ box.loading = {}
  /\ down = "none" /\ box.owed = {}

\* The text has a space between other characters.
Spaced(t) == Strip(t) # StripTrailing(StripLeading(t))

\* When the user has stopped and everything pending has come, the results
\* displayed are those for the text in the field in the section chosen.
\* (A text with inner spaces is not the one compared, and Down goes past the
\* last section, where no search works.)
ResultsCatchUp ==
  Quiet /\ box.popup /\ ~SearchThrows(box) /\ Strip(box.value) # <<>> /\ ~Spaced(box.value)
  => LET t    == Strip(box.value)
         page == ResultsPage(box.searchIndex, t)
     IN  frame.page = page /\ frame.shown = Loaded(page, t).shown

\* What is displayed fits together: the close button with the results; the
\* field is reset as long as the panel is inactive; and it is active while the
\* user is in the field.
PanelAgrees ==
  /\ box.popup <=> box.close
  /\ ~box.boxActive => box.value = Label /\ ~box.searchActive /\ ~InField
  /\ box.boxActive => box.popup \/ InField \/ Strip(box.value) = <<>>

\* No timer will close the list of sections under the pointer: the one that
\* was set is stopped, and none was set before whose number is lost.
PointerKeepsList == hover => ~box.hideTimer /\ box.lostHides = 0

\* In a results page Down walks through the lines displayed, one by one and
\* all of them, and Up walks back the same way.
KeysWalkLines ==
  HasResults(frame) =>
    LET first == NavNext(frame, 0)
        after(line) == Nav(frame, line, "down")
    IN  /\ \A line \in Lines(frame) :
             /\ after(line) \in Lines(frame)
             /\ after(line) # line => Nav(frame, after(line), "up") = line
             /\ line # first => \E other \in Lines(frame) \ {line} : after(other) = line
        /\ first # Nowhere => Nav(frame, first, "up") = Field

\* While results are displayed, the text in the field is the user's: it is
\* only changed by typing, apart from the label.
TextKept ==
  [][box.popup /\ box'.popup /\ box'.value # box.value
       => box.value = Label \/ (\E t \in Texts : Type(t))]_vars
=============================================================================
