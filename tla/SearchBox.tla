----------------------------- MODULE SearchBox ------------------------------
(***************************************************************************)
(* The search panel of the documentation pages (the SearchBox object of    *)
(* docs/search/search.js and what init_search adds to it): the field, the  *)
(* list of sections to search in, and the window with the results page.    *)
(*                                                                         *)
(* Its handlers call each other and move the focus, which calls them       *)
(* again; so they are operators on a record, the box, that yield the box   *)
(* after the call.                                                         *)
(*   value, focus         of the page: the text in the field, and where    *)
(*                        the keys go                                      *)
(*   boxActive, popup, close, select                                       *)
(*                        what is displayed                                *)
(*   searchActive, lastSearchValue, searchIndex                            *)
(*                        of the object                                    *)
(*   keyTimer, hideTimer  a running timer whose number the object has      *)
(*   lostSearches         running timers whose number is overwritten       *)
(*   lostHides            the same for the list (PointerKeepsList: none)   *)
(*   loading              the results page on its way to the frame, if any *)
(*   owed                 of no use to the code: "text" that no keyup has  *)
(*                        compared with the last search, a "section"       *)
(*                        chosen without a search                          *)
(***************************************************************************)
EXTENDS SearchResults

CONSTANTS
  Label,     (* the text "Search" of an empty field                        *)
  Content    (* per section, from 0, the first characters that have a page *)

Select  == <<"select">>        \* the first item of the list of sections

Sections    == DOMAIN Content
ItemCount   == Cardinality(Sections)
\* The page of a section for texts that start with ch.
Page(s, ch) == <<s, ch>>

ASSUME ContentAssumption ==
  /\ Label \in Seq(Chars)
  /\ ItemCount \in Nat \ {0} /\ Sections = 0 .. ItemCount - 1
  /\ \A s \in Sections : Content[s] \in Seq(Chars) \ {<<>>}
  /\ DOMAIN Rows = UNION {{Page(s, Content[s][n]) : n \in 1 .. Len(Content[s])} : s \in Sections}

\* SearchBox, and init_search before OnSelectItem(0).
NewBox ==
  [value |-> Label, focus |-> Nowhere,
   boxActive |-> FALSE, popup |-> FALSE, close |-> FALSE, select |-> FALSE,
   searchActive |-> FALSE, lastSearchValue |-> <<>>, searchIndex |-> 0,
   keyTimer |-> FALSE, lostSearches |-> 0, hideTimer |-> FALSE, lostHides |-> 0,
   loading |-> {}, owed |-> {}]

Count(running) == IF running THEN 1 ELSE 0

-----------------------------------------------------------------------------
(* Activate, and the focus                                                 *)

\* Mutant: the field is reset although results are displayed.
ActivateResetting(b, isActive) ==
  IF isActive
  THEN IF b.value = Label THEN [b EXCEPT !.boxActive = TRUE, !.value = <<>>, !.searchActive = TRUE]
                          ELSE [b EXCEPT !.boxActive = TRUE]
  ELSE [b EXCEPT !.boxActive = FALSE, !.value = Label, !.searchActive = FALSE,
                 !.lastSearchValue = <<>>]

Activate(b, isActive) ==
  CASE (isActive \/ b.popup) /\ b.value = Label ->
         [b EXCEPT !.boxActive = TRUE, !.value = <<>>, !.searchActive = TRUE]
    [] (isActive \/ b.popup) /\ b.value # Label -> [b EXCEPT !.boxActive = TRUE]
    [] OTHER -> [b EXCEPT !.boxActive = FALSE, !.value = Label, !.searchActive = FALSE,
                          !.lastSearchValue = <<>>]

\* The focus leaves one element and enters another; the field tells the panel.
MoveFocus(b, place) ==
  LET left == IF b.focus = Field THEN Activate(b, FALSE) ELSE b
      here == [left EXCEPT !.focus = place]
  IN  CASE b.focus = place -> b
        [] b.focus # place /\ place = Field -> Activate(here, TRUE)
        [] OTHER -> here

\* An element that is no longer displayed loses the focus.
InResults(place) == place[1] \in {"item", "child"}

HidePopup(b) ==
  [b EXCEPT !.popup = FALSE, !.close = FALSE, !.owed = {},
            !.focus = IF InResults(@) THEN Nowhere ELSE @]

CloseSelectionWindow(b) ==
  [b EXCEPT !.select = FALSE, !.focus = IF @ = Select THEN Nowhere ELSE @]

\* Mutant: the panel stays active.
ClosePopupOnly(b) == HidePopup(b)

CloseResultsWindow(b) == Activate(HidePopup(b), FALSE)

-----------------------------------------------------------------------------
(* Search                                                                  *)

\* The page for a text in a section: an empty text starts with nothing, which
\* the code finds at the start of the section's characters.
ResultsPage(s, t) ==
  CASE t = <<>> -> Page(s, Content[s][1])
    [] t # <<>> /\ Contains(Content[s], LowerOf(t[1])) -> Page(s, LowerOf(t[1]))
    [] OTHER -> NoMatches

\* With a section that does not exist the code throws before it searches.
SearchThrows(b) == b.searchIndex \notin Sections

Search(b) ==
  LET t    == StripLeading(b.value)
      calm == [b EXCEPT !.keyTimer = FALSE, !.lostSearches = @ + Count(b.keyTimer)]
  IN  IF SearchThrows(b) THEN calm
      ELSE [calm EXCEPT !.loading = {[page |-> ResultsPage(b.searchIndex, t), query |-> t]},
                        !.popup = TRUE, !.close = TRUE, !.lastSearchValue = t, !.owed = {}]

-----------------------------------------------------------------------------
(* The list of sections                                                    *)

\* Mutant: the timer is left to close the list.
ShowOnly(b) == [b EXCEPT !.select = TRUE]

OnSearchSelectShow(b) == [b EXCEPT !.select = TRUE, !.hideTimer = FALSE]

OnSearchSelectHide(b) == [b EXCEPT !.hideTimer = TRUE, !.lostHides = @ + Count(b.hideTimer)]

SelectThrows(b) == Strip(b.value) # <<>> /\ b.searchActive /\ SearchThrows(b)

\* Mutant: the section changes, and the results do not.
OnSelectItemQuiet(b, id) == [b EXCEPT !.searchIndex = id]

OnSelectItem(b, id) ==
  LET chosen == [b EXCEPT !.searchIndex = id]
  IN  IF Strip(b.value) # <<>> /\ b.searchActive THEN Search(chosen)
                                                 ELSE [chosen EXCEPT !.owed = @ \cup {"section"}]

\* Mutant: Down goes on.
SelectKeyUnbounded(b, key) ==
  IF key = "down" THEN OnSelectItem(b, b.searchIndex + 1) ELSE b

\* Down may go one past the last section.  When the search throws, Enter has
\* not been handled and the browser follows the item with the focus.
OnSearchSelectKey(b, key) ==
  CASE key = "down" /\ b.searchIndex < ItemCount -> OnSelectItem(b, b.searchIndex + 1)
    [] key = "up" /\ b.searchIndex > 0           -> OnSelectItem(b, b.searchIndex - 1)
    [] key \in {"enter", "esc"} /\ ~SelectThrows(b) ->
         MoveFocus(CloseSelectionWindow(OnSelectItem(b, b.searchIndex)), Field)
    [] key = "enter" /\ SelectThrows(b) -> OnSelectItem(OnSelectItem(b, b.searchIndex), 0)
    [] key = "esc" /\ SelectThrows(b)   -> OnSelectItem(b, b.searchIndex)
    [] OTHER -> b

-----------------------------------------------------------------------------
(* A key has come up in the field                                          *)

\* The text is searched in a while, if it is not the one searched last.
Compare(b) ==
  LET seen == [b EXCEPT !.owed = @ \ {"text"}]
  IN  CASE Strip(b.value) = b.lastSearchValue -> seen
        [] Strip(b.value) # b.lastSearchValue /\ Strip(b.value) # <<>> ->
             [seen EXCEPT !.keyTimer = TRUE]
        [] OTHER -> [HidePopup(b) EXCEPT !.lastSearchValue = <<>>]

\* Shift and Down or Enter go to the list of sections.
GoToSelect(b) == MoveFocus(OnSearchSelectShow(b), Select)

\* Down and Enter go to the first row of the results, if there is one.
GoToResults(b, f) ==
  IF b.popup /\ HasResults(f) /\ NavNext(f, 0) # Nowhere THEN MoveFocus(b, NavNext(f, 0)) ELSE b

\* Escape leaves the field and closes the results.
LeaveField(b) ==
  Activate([HidePopup(MoveFocus(b, Nowhere)) EXCEPT !.lastSearchValue = <<>>], FALSE)

OnSearchFieldChange(b, f, key, shift) ==
  LET calm == [b EXCEPT !.keyTimer = FALSE, !.owed = @ \cup (IF b.keyTimer THEN {"text"} ELSE {})]
  IN  CASE key \in {"down", "enter"} /\ shift  -> GoToSelect(calm)
        [] key \in {"down", "enter"} /\ ~shift -> Compare(GoToResults(calm, f))
        [] key = "esc" -> LeaveField(calm)
        [] OTHER -> Compare(calm)
=============================================================================
