------------------------- MODULE SearchPanel_proofs -------------------------
(* What the search panel displays fits together after every event, the     *)
(* results are those for the text once everything pending has come, and    *)
(* the keys walk through them; for all sections, pages and texts.          *)
EXTENDS SearchPanel, Numbers_proofs, SequenceTheorems, TLAPS

-----------------------------------------------------------------------------
(* The inductive invariant, of a box                                       *)

IsBox(b) ==
  /\ b = [value |-> b.value, focus |-> b.focus,
          boxActive |-> b.boxActive, popup |-> b.popup, close |-> b.close, select |-> b.select,
          searchActive |-> b.searchActive, lastSearchValue |-> b.lastSearchValue,
          searchIndex |-> b.searchIndex, keyTimer |-> b.keyTimer,
          lostSearches |-> b.lostSearches, hideTimer |-> b.hideTimer,
          lostHides |-> b.lostHides, loading |-> b.loading, owed |-> b.owed]
  /\ b.boxActive \in BOOLEAN /\ b.popup \in BOOLEAN /\ b.close \in BOOLEAN
  /\ b.searchActive \in BOOLEAN /\ b.hideTimer \in BOOLEAN

\* PanelAgrees.
Agrees(b) ==
  /\ b.popup = b.close
  /\ ~b.boxActive => b.value = Label /\ ~b.searchActive /\ b.focus # Field
  /\ b.boxActive => b.popup \/ b.focus = Field \/ Strip(b.value) = <<>>

\* No call sets the timer of the list of sections.
TimerKept(b, n) == (n.hideTimer => b.hideTimer) /\ n.lostHides = b.lostHides

\* The text is the user's while results are displayed.
TextOf(b, n) == b.popup /\ n.popup /\ n.value # b.value => b.value = Label

\* What a call does not disturb.
Fine(b, n) == IsBox(n) /\ Agrees(n) /\ TimerKept(b, n) /\ TextOf(b, n)

-----------------------------------------------------------------------------
(* The calls                                                               *)

LEMMA ActivateIs ==
  ASSUME NEW b, IsBox(b), NEW on \in BOOLEAN, NEW n, n = Activate(b, on)
  PROVE  /\ IsBox(n) /\ TimerKept(b, n)
         /\ n.focus = b.focus /\ n.popup = b.popup /\ n.close = b.close
         /\ on \/ b.popup => n.boxActive /\ n.value = (IF b.value = Label THEN <<>> ELSE b.value)
         /\ ~(on \/ b.popup) => ~n.boxActive /\ n.value = Label /\ ~n.searchActive
<1>1. CASE (on \/ b.popup) /\ b.value = Label
  <2>1. n = [b EXCEPT !.boxActive = TRUE, !.value = <<>>, !.searchActive = TRUE]
    BY <1>1 DEF Activate
  <2> QED
    BY <1>1, <2>1 DEF IsBox, TimerKept
<1>2. CASE (on \/ b.popup) /\ b.value # Label
  <2>1. n = [b EXCEPT !.boxActive = TRUE]
    BY <1>2 DEF Activate
  <2> QED
    BY <1>2, <2>1 DEF IsBox, TimerKept
<1>3. CASE ~(on \/ b.popup)
  <2>1. n = [b EXCEPT !.boxActive = FALSE, !.value = Label, !.searchActive = FALSE,
                      !.lastSearchValue = <<>>]
    BY <1>3 DEF Activate
  <2> QED
    BY <1>3, <2>1 DEF IsBox, TimerKept
<1> QED
  BY <1>1, <1>2, <1>3

LEMMA MoveFocusIs ==
  ASSUME NEW b, IsBox(b), Agrees(b), NEW place, NEW n, n = MoveFocus(b, place)
  PROVE  Fine(b, n) /\ n.focus = place /\ n.popup = b.popup
         /\ (place = Field => n.boxActive)
<1>1. CASE b.focus = place
  BY <1>1 DEF MoveFocus, Fine, Agrees, TimerKept, TextOf
<1>2. CASE b.focus # place
  <2> DEFINE left == IF b.focus = Field THEN Activate(b, FALSE) ELSE b
             here == [left EXCEPT !.focus = place]
  <2>1. /\ IsBox(left) /\ TimerKept(b, left) /\ left.popup = b.popup /\ left.close = b.close
        /\ b.focus = Field /\ ~b.popup => ~left.boxActive /\ left.value = Label /\ ~left.searchActive
        /\ b.focus = Field /\ b.popup =>
             left.boxActive /\ left.value = (IF b.value = Label THEN <<>> ELSE b.value)
        /\ b.focus # Field => left = b
    BY ActivateIs DEF TimerKept
  <2> HIDE DEF left
  <2>2. /\ IsBox(here) /\ TimerKept(left, here) /\ here.focus = place
        /\ here.popup = left.popup /\ here.close = left.close /\ here.value = left.value
        /\ here.boxActive = left.boxActive /\ here.searchActive = left.searchActive
    BY <2>1 DEF IsBox, TimerKept
  <2>3. n = IF place = Field THEN Activate(here, TRUE) ELSE here
    BY <1>2 DEF MoveFocus, left
  <2> HIDE DEF here
  <2>4. CASE place = Field
    <3>1. n = Activate(here, TRUE)
      BY <2>3, <2>4
    <3>2. /\ IsBox(n) /\ TimerKept(here, n) /\ n.focus = place
          /\ n.popup = here.popup /\ n.close = here.close
          /\ n.boxActive /\ n.value = (IF here.value = Label THEN <<>> ELSE here.value)
      BY <2>2, <3>1, ActivateIs
    <3>3. Agrees(n)
      BY <2>1, <2>2, <2>4, <3>2 DEF Agrees
    <3>4. TextOf(b, n)
      BY <1>2, <2>1, <2>2, <2>4, <3>2 DEF TextOf
    <3> QED
      BY <2>1, <2>2, <3>2, <3>3, <3>4 DEF Fine, TimerKept
  <2>5. CASE place # Field
    <3>1. n = here
      BY <2>3, <2>5
    <3>2. Agrees(n)
      BY <2>1, <2>2, <2>5, <3>1 DEF Agrees
    <3>3. TextOf(b, n)
      BY <2>1, <2>2, <3>1 DEF TextOf
    <3> QED
      BY <2>1, <2>2, <2>5, <3>1, <3>2, <3>3 DEF Fine, TimerKept
  <2> QED
    BY <2>4, <2>5
<1> QED
  BY <1>1, <1>2

LEMMA NoField == ~InResults(Field) /\ Nowhere # Field /\ Select # Field
  BY DEF InResults, Field, Nowhere, Select

LEMMA HidePopupIs ==
  ASSUME NEW b, IsBox(b), NEW n, n = HidePopup(b)
  PROVE  /\ IsBox(n) /\ TimerKept(b, n) /\ ~n.popup /\ ~n.close
         /\ n.value = b.value /\ n.boxActive = b.boxActive /\ n.searchActive = b.searchActive
         /\ (n.focus = b.focus \/ n.focus = Nowhere) /\ (b.focus = Field => n.focus = Field)
         /\ (InResults(b.focus) => n.focus = Nowhere)
<1> DEFINE place == IF InResults(b.focus) THEN Nowhere ELSE b.focus
<1>1. n = [b EXCEPT !.popup = FALSE, !.close = FALSE, !.owed = {}, !.focus = place]
  BY DEF HidePopup
<1> HIDE DEF place
<1>2. /\ IsBox(n) /\ TimerKept(b, n) /\ ~n.popup /\ ~n.close
      /\ n.value = b.value /\ n.boxActive = b.boxActive /\ n.searchActive = b.searchActive
      /\ n.focus = place
  BY <1>1 DEF IsBox, TimerKept
<1> QED
  BY <1>2, NoField DEF place

LEMMA CloseSelectionWindowIs ==
  ASSUME NEW b, IsBox(b), Agrees(b), NEW n, n = CloseSelectionWindow(b)
  PROVE  Fine(b, n) /\ n.focus # Select /\ n.value = b.value /\ n.popup = b.popup
<1> DEFINE place == IF b.focus = Select THEN Nowhere ELSE b.focus
<1>1. n = [b EXCEPT !.select = FALSE, !.focus = place]
  BY DEF CloseSelectionWindow
<1> HIDE DEF place
<1>2. /\ IsBox(n) /\ TimerKept(b, n) /\ n.popup = b.popup /\ n.close = b.close
      /\ n.value = b.value /\ n.boxActive = b.boxActive /\ n.searchActive = b.searchActive
      /\ n.focus = place
  BY <1>1 DEF IsBox, TimerKept
<1>3. place # Select /\ (place = Field <=> b.focus = Field)
  BY NoField DEF place, Nowhere, Select
<1> QED
  BY <1>2, <1>3 DEF Fine, Agrees, TextOf

LEMMA CloseResultsWindowIs ==
  ASSUME NEW b, IsBox(b), b.focus # Field, NEW n, n = CloseResultsWindow(b)
  PROVE  Fine(b, n) /\ ~n.popup
<1> DEFINE hidden == HidePopup(b)
<1>1. /\ IsBox(hidden) /\ TimerKept(b, hidden) /\ ~hidden.popup /\ ~hidden.close
      /\ hidden.focus # Field
  BY HidePopupIs, NoField
<1> HIDE DEF hidden
<1>2. n = Activate(hidden, FALSE)
  BY DEF CloseResultsWindow, hidden
<1>3. /\ IsBox(n) /\ TimerKept(hidden, n) /\ n.focus = hidden.focus /\ ~n.popup /\ ~n.close
      /\ ~n.boxActive /\ n.value = Label /\ ~n.searchActive
  BY <1>1, <1>2, ActivateIs
<1>4. n.popup = n.close
  BY <1>3 DEF IsBox
<1> QED
  BY <1>1, <1>3, <1>4 DEF Fine, Agrees, TimerKept, TextOf

LEMMA SearchIs ==
  ASSUME NEW b, IsBox(b), Agrees(b), NEW n, n = Search(b)
  PROVE  Fine(b, n) /\ n.focus = b.focus /\ n.value = b.value /\ (b.popup => n.popup)
<1> DEFINE t    == StripLeading(b.value)
           num  == b.lostSearches + Count(b.keyTimer)
           calm == [b EXCEPT !.keyTimer = FALSE, !.lostSearches = @ + Count(b.keyTimer)]
           pages == {[page |-> ResultsPage(b.searchIndex, t), query |-> t]}
<1>1. /\ IsBox(calm) /\ TimerKept(b, calm) /\ calm.popup = b.popup /\ calm.close = b.close
      /\ calm.value = b.value /\ calm.boxActive = b.boxActive
      /\ calm.searchActive = b.searchActive /\ calm.focus = b.focus
  <2>1. b.lostSearches + Count(b.keyTimer) = num
    OBVIOUS
  <2> HIDE DEF num
  <2>2. calm = [b EXCEPT !.keyTimer = FALSE, !.lostSearches = num]
    BY <2>1
  <2> HIDE DEF calm
  <2> QED
    BY <2>2 DEF IsBox, TimerKept
<1>2. \/ n = calm
      \/ n = [calm EXCEPT !.loading = pages, !.popup = TRUE, !.close = TRUE,
                          !.lastSearchValue = t, !.owed = {}]
  BY DEF Search
<1> HIDE DEF calm, t, num, pages
<1>3. CASE n = calm
  BY <1>1, <1>3 DEF Fine, Agrees, TextOf
<1>4. CASE n = [calm EXCEPT !.loading = pages, !.popup = TRUE, !.close = TRUE,
                            !.lastSearchValue = t, !.owed = {}]
  <2>1. /\ IsBox(n) /\ TimerKept(calm, n) /\ n.popup /\ n.close
        /\ n.value = calm.value /\ n.boxActive = calm.boxActive
        /\ n.searchActive = calm.searchActive /\ n.focus = calm.focus
    BY <1>1, <1>4 DEF IsBox, TimerKept
  <2> QED
    BY <1>1, <2>1 DEF Fine, Agrees, TimerKept, TextOf
<1> QED
  BY <1>2, <1>3, <1>4

LEMMA OnSelectItemIs ==
  ASSUME NEW b, IsBox(b), Agrees(b), NEW id, NEW n, n = OnSelectItem(b, id)
  PROVE  Fine(b, n) /\ n.focus = b.focus /\ n.value = b.value /\ (b.popup => n.popup)
<1> DEFINE chosen == [b EXCEPT !.searchIndex = id]
<1>1. /\ IsBox(chosen) /\ TimerKept(b, chosen) /\ Agrees(chosen)
      /\ chosen.popup = b.popup /\ chosen.value = b.value /\ chosen.focus = b.focus
  BY DEF IsBox, TimerKept, Agrees
<1>2. n = Search(chosen) \/ n = [chosen EXCEPT !.owed = @ \cup {"section"}]
  BY DEF OnSelectItem
<1> HIDE DEF chosen
<1>3. CASE n = Search(chosen)
  BY <1>1, <1>3, SearchIs DEF Fine, TimerKept, TextOf
<1>4. CASE n = [chosen EXCEPT !.owed = @ \cup {"section"}]
  BY <1>1, <1>4 DEF IsBox, Fine, TimerKept, Agrees, TextOf
<1> QED
  BY <1>2, <1>3, <1>4

\* Two calls, one after the other, of which the first does not close the results.
LEMMA Then ==
  ASSUME NEW b, NEW m, NEW n, Fine(b, m), Fine(m, n), m.popup \/ ~n.popup \/ ~b.popup,
         m.value = b.value \/ n.value = m.value
  PROVE  Fine(b, n)
  BY DEF Fine, TimerKept, TextOf, IsBox

LEMMA OnSearchSelectShowIs ==
  ASSUME NEW b, IsBox(b), Agrees(b), NEW n, n = OnSearchSelectShow(b)
  PROVE  Fine(b, n) /\ n.value = b.value /\ n.popup = b.popup /\ n.focus = b.focus /\ ~n.hideTimer
  BY DEF OnSearchSelectShow, IsBox, Fine, TimerKept, Agrees, TextOf

LEMMA OnSearchSelectKeyIs ==
  ASSUME NEW b, IsBox(b), Agrees(b), NEW key, NEW n, n = OnSearchSelectKey(b, key)
  PROVE  Fine(b, n)
<1>1. ASSUME NEW id, n = OnSelectItem(b, id)
      PROVE  Fine(b, n)
  BY <1>1, OnSelectItemIs
<1>2. ASSUME n = MoveFocus(CloseSelectionWindow(OnSelectItem(b, b.searchIndex)), Field)
      PROVE  Fine(b, n)
  <2> DEFINE chosen == OnSelectItem(b, b.searchIndex)
             closed == CloseSelectionWindow(chosen)
  <2>1. Fine(b, chosen) /\ chosen.value = b.value /\ (b.popup => chosen.popup)
    BY OnSelectItemIs
  <2> HIDE DEF chosen
  <2>2. Fine(chosen, closed) /\ closed.value = chosen.value /\ closed.popup = chosen.popup
    BY <2>1, CloseSelectionWindowIs DEF Fine
  <2> HIDE DEF closed
  <2>3. Fine(closed, n) /\ n.popup = closed.popup
    BY <1>2, <2>2, MoveFocusIs DEF Fine, closed, chosen
  <2>4. Fine(b, closed)
    BY <2>1, <2>2, Then
  <2> QED
    BY <2>1, <2>2, <2>3, <2>4, Then
<1>3. ASSUME n = OnSelectItem(OnSelectItem(b, b.searchIndex), 0)
      PROVE  Fine(b, n)
  <2> DEFINE chosen == OnSelectItem(b, b.searchIndex)
  <2>1. Fine(b, chosen) /\ chosen.value = b.value /\ (b.popup => chosen.popup)
    BY OnSelectItemIs
  <2> HIDE DEF chosen
  <2>2. Fine(chosen, n)
    BY <1>3, <2>1, OnSelectItemIs DEF Fine, chosen
  <2> QED
    BY <2>1, <2>2, Then
<1>4. ASSUME n = b
      PROVE  Fine(b, n)
  BY <1>4 DEF Fine, TimerKept, TextOf
<1> QED
  BY <1>1, <1>2, <1>3, <1>4 DEF OnSearchSelectKey

\* What the code does not look at, and the timer of the field.
LEMMA OwedIs ==
  ASSUME NEW b, IsBox(b), Agrees(b), NEW owed, NEW n, n = [b EXCEPT !.owed = owed]
  PROVE  Fine(b, n) /\ n.value = b.value /\ n.popup = b.popup
<1>1. /\ IsBox(n) /\ TimerKept(b, n) /\ n.popup = b.popup /\ n.close = b.close
      /\ n.value = b.value /\ n.boxActive = b.boxActive
      /\ n.searchActive = b.searchActive /\ n.focus = b.focus
  BY DEF IsBox, TimerKept
<1> QED
  BY <1>1 DEF Fine, Agrees, TextOf

\* A timer that has fired.
LEMMA FiredIs ==
  ASSUME NEW b, IsBox(b), Agrees(b), NEW n,
         \/ n = [b EXCEPT !.keyTimer = FALSE]
         \/ n = [b EXCEPT !.hideTimer = FALSE]
         \/ \E left : n = [b EXCEPT !.lostSearches = left]
  PROVE  Fine(b, n) /\ n.value = b.value /\ n.popup = b.popup
<1>1. /\ IsBox(n) /\ n.popup = b.popup /\ n.close = b.close
      /\ n.value = b.value /\ n.boxActive = b.boxActive
      /\ n.searchActive = b.searchActive /\ n.focus = b.focus
      /\ (n.hideTimer => b.hideTimer) /\ n.lostHides = b.lostHides
  <2>1. CASE n = [b EXCEPT !.keyTimer = FALSE]
    BY <2>1 DEF IsBox
  <2>2. CASE n = [b EXCEPT !.hideTimer = FALSE]
    BY <2>2 DEF IsBox
  <2>3. ASSUME NEW left, n = [b EXCEPT !.lostSearches = left]
        PROVE  /\ IsBox(n) /\ n.popup = b.popup /\ n.close = b.close
               /\ n.value = b.value /\ n.boxActive = b.boxActive
               /\ n.searchActive = b.searchActive /\ n.focus = b.focus
               /\ (n.hideTimer => b.hideTimer) /\ n.lostHides = b.lostHides
    BY <2>3 DEF IsBox
  <2> QED
    BY <2>1, <2>2, <2>3
<1> QED
  BY <1>1 DEF Fine, Agrees, TextOf, TimerKept

LEMMA CompareIs ==
  ASSUME NEW b, IsBox(b), Agrees(b), NEW n, n = Compare(b)
  PROVE  Fine(b, n) /\ n.value = b.value
<1> DEFINE seen   == [b EXCEPT !.owed = @ \ {"text"}]
           hidden == HidePopup(b)
<1>1. \/ n = seen
      \/ n = [seen EXCEPT !.keyTimer = TRUE]
      \/ Strip(b.value) = <<>> /\ n = [hidden EXCEPT !.lastSearchValue = <<>>]
  BY DEF Compare
<1>2. Fine(b, seen) /\ seen.value = b.value
  BY OwedIs
<1> HIDE DEF seen
<1>3. CASE n = [seen EXCEPT !.keyTimer = TRUE]
  BY <1>2, <1>3 DEF IsBox, Fine, TimerKept, Agrees, TextOf
<1>4. CASE Strip(b.value) = <<>> /\ n = [hidden EXCEPT !.lastSearchValue = <<>>]
  <2>1. /\ IsBox(hidden) /\ TimerKept(b, hidden) /\ ~hidden.popup /\ ~hidden.close
        /\ hidden.value = b.value /\ hidden.boxActive = b.boxActive
        /\ hidden.searchActive = b.searchActive
        /\ hidden.focus = b.focus \/ hidden.focus = Nowhere
    BY HidePopupIs
  <2> HIDE DEF hidden
  <2>2. /\ IsBox(n) /\ TimerKept(hidden, n) /\ ~n.popup /\ ~n.close
        /\ n.value = b.value /\ n.boxActive = b.boxActive
        /\ n.searchActive = b.searchActive /\ n.focus = hidden.focus
    BY <1>4, <2>1 DEF IsBox, TimerKept
  <2>3. n.popup = n.close
    BY <2>2 DEF IsBox
  <2> QED
    BY <1>4, <2>1, <2>2, <2>3, NoField DEF Fine, TimerKept, Agrees, TextOf
<1> QED
  BY <1>1, <1>2, <1>3, <1>4

LEMMA LeaveFieldIs ==
  ASSUME NEW b, IsBox(b), Agrees(b), NEW n, n = LeaveField(b)
  PROVE  Fine(b, n)
<1> DEFINE moved  == MoveFocus(b, Nowhere)
           hidden == HidePopup(moved)
           clear  == [hidden EXCEPT !.lastSearchValue = <<>>]
<1>1. IsBox(moved) /\ TimerKept(b, moved) /\ moved.focus = Nowhere
  BY MoveFocusIs DEF Fine
<1> HIDE DEF moved
<1>2. /\ IsBox(hidden) /\ TimerKept(moved, hidden) /\ ~hidden.popup /\ ~hidden.close
      /\ hidden.focus = Nowhere
  BY <1>1, HidePopupIs
<1> HIDE DEF hidden
<1>3. /\ IsBox(clear) /\ TimerKept(hidden, clear) /\ ~clear.popup /\ ~clear.close
      /\ clear.focus = Nowhere
  BY <1>2 DEF IsBox, TimerKept
<1>4. n = Activate(clear, FALSE)
  BY DEF LeaveField, hidden, moved
<1> HIDE DEF clear
<1>5. /\ IsBox(n) /\ TimerKept(clear, n) /\ n.focus = Nowhere /\ ~n.popup /\ ~n.close
      /\ ~n.boxActive /\ n.value = Label /\ ~n.searchActive
  BY <1>3, <1>4, ActivateIs
<1>6. n.popup = n.close
  BY <1>5 DEF IsBox
<1> QED
  BY <1>1, <1>2, <1>3, <1>5, <1>6, NoField DEF Fine, TimerKept, Agrees, TextOf

LEMMA OnSearchFieldChangeIs ==
  ASSUME NEW b, IsBox(b), Agrees(b), NEW f, NEW key, NEW shift, NEW n,
         n = OnSearchFieldChange(b, f, key, shift)
  PROVE  Fine(b, n)
<1> DEFINE owed == b.owed \cup (IF b.keyTimer THEN {"text"} ELSE {})
           fired == [b EXCEPT !.keyTimer = FALSE]
           calm == [fired EXCEPT !.owed = owed]
<1>1. Fine(b, fired) /\ fired.value = b.value /\ fired.popup = b.popup
  BY FiredIs
<1>2. \/ n = GoToSelect(calm) \/ n = Compare(GoToResults(calm, f))
      \/ n = LeaveField(calm) \/ n = Compare(calm)
  BY DEF OnSearchFieldChange
<1>3. Fine(b, calm) /\ calm.value = b.value /\ calm.popup = b.popup
  <2> HIDE DEF owed, fired
  <2>1. Fine(fired, calm) /\ calm.value = fired.value /\ calm.popup = fired.popup
    BY <1>1, OwedIs DEF Fine
  <2> HIDE DEF calm
  <2> QED
    BY <1>1, <2>1, Then
<1> HIDE DEF calm, fired, owed
<1>4. CASE n = GoToSelect(calm)
  <2> DEFINE showing == OnSearchSelectShow(calm)
  <2>1. Fine(calm, showing) /\ showing.value = calm.value /\ showing.popup = calm.popup
    BY <1>3, OnSearchSelectShowIs DEF Fine
  <2> HIDE DEF showing
  <2>2. Fine(showing, n)
    BY <1>4, <2>1, MoveFocusIs DEF Fine, GoToSelect, showing
  <2>3. Fine(b, showing)
    BY <1>3, <2>1, Then
  <2> QED
    BY <1>3, <2>1, <2>2, <2>3, Then
<1>5. CASE n = Compare(GoToResults(calm, f))
  <2> DEFINE moved == GoToResults(calm, f)
  <2>1. Fine(calm, moved) /\ moved.popup = calm.popup
    <3>1. moved = MoveFocus(calm, NavNext(f, 0)) \/ moved = calm
      BY DEF GoToResults
    <3> HIDE DEF moved
    <3> QED
      BY <1>3, <3>1, MoveFocusIs DEF Fine, TimerKept, TextOf
  <2> HIDE DEF moved
  <2>2. Fine(moved, n) /\ n.value = moved.value
    BY <1>5, <2>1, CompareIs DEF Fine, moved
  <2>3. Fine(b, moved)
    BY <1>3, <2>1, Then
  <2> QED
    BY <1>3, <2>1, <2>2, <2>3, Then
<1>6. CASE n = LeaveField(calm)
  BY <1>3, <1>6, LeaveFieldIs, Then DEF Fine
<1>7. CASE n = Compare(calm)
  BY <1>3, <1>7, CompareIs, Then DEF Fine
<1> QED
  BY <1>2, <1>4, <1>5, <1>6, <1>7

-----------------------------------------------------------------------------
(* The events                                                              *)

PanelInv == IsBox(box) /\ Agrees(box) /\ box.lostHides = 0 /\ (hover => ~box.hideTimer)

\* Events that do not end with the pointer off the list.
LEMMA CallKeeps ==
  ASSUME PanelInv, Fine(box, box'), hover' = hover
  PROVE  PanelInv' /\ TextOf(box, box')
  BY DEF PanelInv, Fine, TimerKept

LEMMA InitPanel == Init => PanelInv
<1> SUFFICES ASSUME Init PROVE PanelInv
  OBVIOUS
<1>1. IsBox(NewBox) /\ Agrees(NewBox) /\ NewBox.lostHides = 0 /\ ~NewBox.hideTimer
  BY NoField DEF NewBox, IsBox, Agrees
<1>2. box = OnSelectItem(NewBox, 0) /\ ~hover
  BY DEF Init
<1> QED
  BY <1>1, <1>2, OnSelectItemIs DEF PanelInv, Fine, TimerKept

LEMMA TypeEvent ==
  ASSUME PanelInv, NEW t \in Texts, Type(t)
  PROVE  PanelInv'
<1> DEFINE owed == box.owed \cup {"text"}
<1>1. box' = [box EXCEPT !.value = t, !.owed = owed] /\ hover' = hover /\ box.focus = Field
  BY DEF Type, Panel, InField
<1> HIDE DEF owed
<1>2. /\ IsBox(box') /\ TimerKept(box, box') /\ box'.popup = box.popup /\ box'.close = box.close
      /\ box'.boxActive = box.boxActive /\ box'.searchActive = box.searchActive
      /\ box'.focus = box.focus
  BY <1>1 DEF PanelInv, IsBox, TimerKept
<1> QED
  BY <1>1, <1>2 DEF PanelInv, Agrees, TimerKept

LEMMA KeyEvents ==
  ASSUME PanelInv, KeyEvent, ~ \E t \in Texts : Type(t)
  PROVE  Fine(box, box') /\ hover' = hover
<1>0. IsBox(box) /\ Agrees(box) /\ (box' = box => Fine(box, box'))
  BY DEF PanelInv, Fine, TimerKept, TextOf
<1>1. ASSUME NEW shift \in BOOLEAN, FieldKeyUp(shift)
      PROVE  Fine(box, box') /\ hover' = hover
  BY <1>0, <1>1, OnSearchFieldChangeIs DEF FieldKeyUp, Panel
<1>2. ASSUME NEW key \in Keys, FieldKeyDown(key)
      PROVE  Fine(box, box') /\ hover' = hover
  BY <1>0, <1>2 DEF FieldKeyDown
<1>3. ASSUME NEW key \in Keys, SelectKeyDown(key)
      PROVE  Fine(box, box') /\ hover' = hover
  BY <1>0, <1>3, OnSearchSelectKeyIs DEF SelectKeyDown, Panel
<1>4. ASSUME NEW type, NEW key, FrameKey(type, key)
      PROVE  Fine(box, box') /\ hover' = hover
  <2>1. InResults(box.focus) /\ hover' = hover
        /\ \/ box' = box
           \/ box' = MoveFocus(CloseResultsWindow(box), Field)
           \/ \E place : box' = MoveFocus(box, place)
    BY <1>4 DEF FrameKey, InFrame, Panel
  <2>2. CASE box' = MoveFocus(CloseResultsWindow(box), Field)
    <3> DEFINE closed == CloseResultsWindow(box)
    <3>1. Fine(box, closed) /\ ~closed.popup
      BY <1>0, <2>1, NoField, CloseResultsWindowIs
    <3> HIDE DEF closed
    <3>2. Fine(closed, box') /\ box'.popup = closed.popup
      BY <2>2, <3>1, MoveFocusIs DEF Fine, closed
    <3> QED
      BY <2>1, <3>1, <3>2 DEF Fine, TimerKept, TextOf
  <2>3. ASSUME NEW place, box' = MoveFocus(box, place)
        PROVE  Fine(box, box')
    BY <1>0, <2>3, MoveFocusIs
  <2> QED
    BY <1>0, <2>1, <2>2, <2>3
<1>5. CASE FrameEnter \/ KeyUpUnheard
  BY <1>0, <1>5 DEF FrameEnter, KeyUpUnheard
<1> QED
  BY <1>1, <1>2, <1>3, <1>4, <1>5 DEF KeyEvent, FrameKeyDown, FrameKeyPress, FrameKeyUp

LEMMA MouseEvents ==
  ASSUME PanelInv, MouseEvent
  PROVE  PanelInv' /\ TextOf(box, box')
<1>0. IsBox(box) /\ Agrees(box)
  BY DEF PanelInv
<1>1. ASSUME NEW place, box' = MoveFocus(box, place), hover' = hover
      PROVE  PanelInv' /\ TextOf(box, box')
  BY <1>0, <1>1, MoveFocusIs, CallKeeps
<1>2. CASE ClickClose
  <2> DEFINE moved == MoveFocus(box, Nowhere)
  <2>1. Fine(box, moved) /\ moved.focus = Nowhere
    BY <1>0, MoveFocusIs
  <2>2. box' = CloseResultsWindow(moved) /\ hover' = hover
    BY <1>2 DEF ClickClose, Panel
  <2> HIDE DEF moved
  <2>3. Fine(moved, box') /\ ~box'.popup
    BY <2>1, <2>2, NoField, CloseResultsWindowIs DEF Fine
  <2>4. Fine(box, box')
    BY <2>1, <2>3 DEF Fine, TimerKept, TextOf
  <2> QED
    BY <2>2, <2>4, CallKeeps
<1>3. CASE MouseOver
  <2>1. box' = OnSearchSelectShow(box)
    BY <1>3 DEF MouseOver, Panel
  <2>2. Fine(box, box') /\ ~box'.hideTimer
    BY <1>0, <2>1, OnSearchSelectShowIs
  <2> QED
    BY <2>2 DEF PanelInv, Fine, TimerKept
<1>4. CASE MouseOut
  <2>1. box' = [box EXCEPT !.hideTimer = TRUE, !.lostHides = @ + Count(box.hideTimer)]
        /\ hover /\ ~hover'
    BY <1>4 DEF MouseOut, OnSearchSelectHide, Panel
  <2>2. box.lostHides + Count(box.hideTimer) = 0
    BY <2>1 DEF PanelInv, Count
  <2>3. box' = [box EXCEPT !.hideTimer = TRUE, !.lostHides = 0]
    BY <2>1, <2>2
  <2> QED
    BY <2>1, <2>3 DEF PanelInv, IsBox, Agrees, TextOf
<1>5. ASSUME NEW s, ClickSelectItem(s)
      PROVE  PanelInv' /\ TextOf(box, box')
  <2> DEFINE moved == MoveFocus(box, Select)
  <2>1. Fine(box, moved) /\ moved.popup = box.popup
    BY <1>0, MoveFocusIs
  <2>2. box' = OnSelectItem(moved, s) /\ hover' = hover
    BY <1>5 DEF ClickSelectItem, Panel
  <2> HIDE DEF moved
  <2>3. Fine(moved, box') /\ box'.value = moved.value
    BY <2>1, <2>2, OnSelectItemIs DEF Fine
  <2>4. Fine(box, box')
    BY <2>1, <2>3, Then
  <2> QED
    BY <2>2, <2>4, CallKeeps
<1> QED
  BY <1>1, <1>2, <1>3, <1>4, <1>5
  DEF MouseEvent, ClickField, ClickElsewhere, ClickRow, Panel

LEMMA DelayedEvents ==
  ASSUME PanelInv, Delayed
  PROVE  PanelInv' /\ TextOf(box, box')
<1>0. IsBox(box) /\ Agrees(box)
  BY DEF PanelInv
<1>1. ASSUME NEW b, Fine(box, b), b.popup = box.popup, b.value = box.value,
             box' = Search(b) \/ box' = CloseSelectionWindow(b), hover' = hover
      PROVE  PanelInv' /\ TextOf(box, box')
  <2>1. Fine(b, box')
    BY <1>1, SearchIs, CloseSelectionWindowIs DEF Fine
  <2>2. Fine(box, box')
    BY <1>1, <2>1, Then
  <2> QED
    BY <1>1, <2>2, CallKeeps
<1>2. CASE SearchTimer
  <2> DEFINE b == [box EXCEPT !.keyTimer = FALSE]
  <2>1. Fine(box, b) /\ b.popup = box.popup /\ b.value = box.value
    BY <1>0, FiredIs
  <2>2. box' = Search(b) /\ hover' = hover
    BY <1>2 DEF SearchTimer, Panel
  <2> QED
    BY <1>1, <2>1, <2>2
<1>3. CASE LostSearchTimer
  <2> DEFINE left == box.lostSearches - 1
             b    == [box EXCEPT !.lostSearches = left]
  <2>1. box' = Search(b) /\ hover' = hover
    BY <1>3 DEF LostSearchTimer, Panel
  <2> HIDE DEF left
  <2>2. Fine(box, b) /\ b.popup = box.popup /\ b.value = box.value
    BY <1>0, FiredIs
  <2> QED
    BY <1>1, <2>1, <2>2
<1>4. CASE HideTimer
  <2> DEFINE b == [box EXCEPT !.hideTimer = FALSE]
  <2>1. Fine(box, b) /\ b.popup = box.popup /\ b.value = box.value
    BY <1>0, FiredIs
  <2>2. box' = CloseSelectionWindow(b) /\ hover' = hover
    BY <1>4 DEF HideTimer, Panel
  <2> QED
    BY <1>1, <2>1, <2>2
<1>5. CASE PageLoads
  <2> DEFINE place == IF InFrame THEN Nowhere ELSE box.focus
  <2>1. box' = [box EXCEPT !.loading = {}, !.focus = place] /\ hover' = hover
    BY <1>5 DEF PageLoads, Panel
  <2>2. place = Field <=> box.focus = Field
    BY NoField DEF InFrame
  <2> HIDE DEF place
  <2>3. /\ IsBox(box') /\ TimerKept(box, box') /\ box'.popup = box.popup /\ box'.close = box.close
        /\ box'.value = box.value /\ box'.boxActive = box.boxActive
        /\ box'.searchActive = box.searchActive /\ box'.focus = place
    BY <1>0, <2>1 DEF IsBox, TimerKept
  <2>4. Fine(box, box')
    BY <1>0, <2>2, <2>3 DEF Fine, Agrees, TextOf
  <2> QED
    BY <2>1, <2>4, CallKeeps
<1> QED
  BY <1>2, <1>3, <1>4, <1>5 DEF Delayed

-----------------------------------------------------------------------------
(* Theorems                                                                *)

\* Every event keeps the invariant, and the text unless the user types.
LEMMA Events ==
  ASSUME PanelInv, [Next]_vars
  PROVE  PanelInv' /\ (TextOf(box, box') \/ \E t \in Texts : Type(t))
<1>1. CASE \E t \in Texts : Type(t)
  BY <1>1, TypeEvent
<1>2. CASE KeyEvent /\ ~ \E t \in Texts : Type(t)
  BY <1>2, KeyEvents, CallKeeps
<1>3. CASE MouseEvent
  BY <1>3, MouseEvents
<1>4. CASE Delayed
  BY <1>4, DelayedEvents
<1>5. CASE UNCHANGED vars
  BY <1>5 DEF vars, PanelInv, TextOf
<1> QED
  BY <1>1, <1>2, <1>3, <1>4, <1>5 DEF Next

LEMMA PanelInvariant == Spec => []PanelInv
<1>1. Init => PanelInv
  BY InitPanel
<1>2. PanelInv /\ [Next]_vars => PanelInv'
  BY Events
<1> QED
  BY <1>1, <1>2, PTL DEF Spec

\* The close button is there with the results, the field of an inactive panel is
\* reset, and the panel is active while the user is in it (Activate,
\* CloseResultsWindow, OnSearchFieldChange and OnSelectItem of search.js).
THEOREM PanelFits == Spec => []PanelAgrees
<1>1. PanelInv => PanelAgrees
  BY DEF PanelInv, Agrees, PanelAgrees, InField, IsBox
<1> QED
  BY <1>1, PanelInvariant, PTL

\* No timer closes the list of sections under the pointer, and none is lost
\* (OnSearchSelectShow and OnSearchSelectHide of search.js).
THEOREM ListStays == Spec => []PointerKeepsList
<1>1. PanelInv => PointerKeepsList
  BY DEF PanelInv, PointerKeepsList
<1> QED
  BY <1>1, PanelInvariant, PTL

\* While results are displayed only typing changes the text, apart from the label
\* (Activate of search.js).
THEOREM TextStays == Spec => TextKept
<1>1. PanelInv /\ [Next]_vars =>
        [box.popup /\ box'.popup /\ box'.value # box.value
           => box.value = Label \/ (\E t \in Texts : Type(t))]_vars
  BY Events DEF TextOf
<1> QED
  BY <1>1, PanelInvariant, PTL DEF Spec, TextKept

-----------------------------------------------------------------------------
(* The lines of a results page                                             *)

LEMMA MinIs ==
  ASSUME NEW S \in SUBSET Nat, NEW x \in S, \A y \in S : x <= y
  PROVE  Min(S) = x
<1>1. PICK m : m = Min(S) /\ m \in S /\ \A y \in S : m =< y
  BY DEF Min
<1> QED
  BY <1>1, SMT

LEMMA MaxIs ==
  ASSUME NEW S \in SUBSET Nat, NEW x \in S, \A y \in S : y <= x
  PROVE  Max(S) = x
<1>1. \A y \in S : x >= y
  BY SMT
<1>2. PICK m : m = Max(S) /\ m \in S /\ \A y \in S : m >= y
  BY <1>1 DEF Max
<1> QED
  BY <1>2, SMT

\* Rows that follow each other.
Block(I) ==
  /\ I \subseteq Nat
  /\ \A a, b \in I, n \in Nat : a < n /\ n < b => n \in I

LEMMA IdIs ==
  ASSUME NEW t \in Seq(Chars)
  PROVE  ConvertToId(t) \in Seq(Chars)
<1> DEFINE q == [n \in 1 .. Len(t) |-> IdOf(t[n])]
<1>1. Len(t) \in Nat /\ \A n \in 1 .. Len(t) : IdOf(t[n]) \in Seq(Chars)
  BY LenProperties, ElementOfSeq, CharAssumption
<1>2. q \in Seq(Seq(Chars)) /\ Len(q) = Len(t)
  BY <1>1
<1> HIDE DEF q
<1>3. PICK g \in [0 .. Len(q) -> Seq(Chars)] : SX!FlattenSeq(q) = g[Len(q)]
  BY <1>2, FlattenIs
<1>4. SX!FlattenSeq(q) \in Seq(Chars)
  BY <1>1, <1>2, <1>3
<1>5. FlattenSeq(q) = SX!FlattenSeq(q)
  BY DEF FlattenSeq, SX!FlattenSeq
<1> QED
  BY <1>4, <1>5 DEF ConvertToId, q

LEMMA LeadingIs ==
  ASSUME NEW S, NEW t \in Seq(S)
  PROVE  /\ StripLeading(t) \in Seq(S)
         /\ StripLeading(t) # <<>> => StripLeading(t)[1] # Space
         /\ t # <<>> /\ t[1] # Space => StripLeading(t) = t
         /\ t # <<>> /\ t[Len(t)] # Space =>
              /\ StripLeading(t) # <<>>
              /\ StripLeading(t)[Len(StripLeading(t))] = t[Len(t)]
<1> DEFINE solid == {n \in 1 .. Len(t) : t[n] # Space}
<1>1. Len(t) \in Nat
  BY LenProperties
<1>2. CASE solid = {}
  <2>1. StripLeading(t) = <<>>
    BY <1>2 DEF StripLeading
  <2>2. t # <<>> => 1 \in 1 .. Len(t) /\ Len(t) \in 1 .. Len(t)
    BY <1>1, EmptySeq, SMT
  <2> QED
    BY <1>2, <2>1, <2>2, EmptySeq
<1>3. CASE solid # {}
  <2>1. PICK m \in solid : \A n \in solid : m <= n
    <3>1. solid \in SUBSET Nat
      BY <1>1, SMT
    <3> QED
      BY <1>3, <3>1, Smallest
  <2>2. Min(solid) = m
    <3>1. solid \in SUBSET Nat
      BY <1>1, SMT
    <3> QED
      BY <2>1, <3>1, MinIs
  <2>3. StripLeading(t) = SubSeq(t, m, Len(t))
    BY <1>3, <2>2 DEF StripLeading
  <2>4. m \in 1 .. Len(t) /\ t[m] # Space
    BY <2>1
  <2>5. /\ SubSeq(t, m, Len(t)) \in Seq(S) /\ Len(SubSeq(t, m, Len(t))) = Len(t) - m + 1
        /\ \A k \in 1 .. Len(t) - m + 1 : SubSeq(t, m, Len(t))[k] = t[m + k - 1]
    <3>1. \A k \in m .. Len(t) : t[k] \in S
      BY <1>1, <2>4, ElementOfSeq, SMT
    <3>2. m \in Int /\ Len(t) \in Int /\ m <= Len(t)
      BY <1>1, <2>4, SMT
    <3> QED
      BY <3>1, <3>2, SubSeqProperties
  <2>6. 1 \in 1 .. Len(t) - m + 1 /\ m + 1 - 1 = m
    BY <1>1, <2>4, SMT
  <2>8. /\ Len(t) - m + 1 \in 1 .. Len(t) - m + 1 /\ m + (Len(t) - m + 1) - 1 = Len(t)
        /\ Len(t) - m + 1 # 0
    BY <1>1, <2>4, SMT
  <2>9. SubSeq(t, m, Len(t)) # <<>>
    BY <2>5, <2>8, EmptySeq
  <2>7. ASSUME t # <<>>, t[1] # Space PROVE StripLeading(t) = t
    <3>1. 1 \in 1 .. Len(t)
      BY <1>1, <2>7, EmptySeq, SMT
    <3>2. m <= 1
      BY <2>1, <2>7, <3>1
    <3>3. m = 1
      BY <2>4, <3>2, SMT
    <3> QED
      BY <2>3, <3>3, SubSeqFull
  <2> QED
    BY <2>3, <2>4, <2>5, <2>6, <2>7, <2>8, <2>9
<1> QED
  BY <1>2, <1>3

\* Turning a text round twice changes nothing.
LEMMA ReverseIs ==
  ASSUME NEW S, NEW t \in Seq(S)
  PROVE  /\ Reverse(t) \in Seq(S) /\ Len(Reverse(t)) = Len(t)
         /\ Reverse(Reverse(t)) = t
         /\ t # <<>> => Reverse(t) # <<>> /\ Reverse(t)[Len(t)] = t[1] /\ Reverse(t)[1] = t[Len(t)]
<1> DEFINE m == Len(t)
           v == Reverse(t)
<1>1. m \in Nat /\ \A i \in 1 .. m : (m - i) + 1 \in 1 .. m /\ (m - ((m - i) + 1)) + 1 = i
  <2>1. m \in Nat
    BY LenProperties
  <2> HIDE DEF m
  <2> QED
    BY <2>1, SMT
<1>2. v = [i \in 1 .. m |-> t[(m - i) + 1]]
  BY DEF Reverse
<1>3. v \in Seq(S) /\ Len(v) = m
  BY <1>1, <1>2, ElementOfSeq
<1>4. Reverse(v) = [i \in 1 .. m |-> v[(m - i) + 1]]
  BY <1>3 DEF Reverse
<1>5. t = [i \in 1 .. m |-> t[i]]
  BY LenProperties
<1>6. t # <<>> => m \in 1 .. m /\ 1 \in 1 .. m /\ (m - m) + 1 = 1 /\ (m - 1) + 1 = m /\ m # 0
  BY <1>1, EmptySeq, SMT
<1> HIDE DEF m, v
<1>7. \A i \in 1 .. m : v[(m - i) + 1] = t[i]
  BY <1>1, <1>2
<1>8. Reverse(v) = t
  BY <1>4, <1>5, <1>7
<1>9. t # <<>> => v # <<>> /\ v[m] = t[1] /\ v[1] = t[m]
  BY <1>2, <1>3, <1>6, EmptySeq
<1> QED
  BY <1>3, <1>8, <1>9 DEF m, v

\* What is left of a text that starts with something starts as it did, and has
\* nothing more to be stripped.
LEMMA TrailingIs ==
  ASSUME NEW S, NEW u \in Seq(S), u # <<>>, u[1] # Space
  PROVE  /\ StripTrailing(u) \in Seq(S) /\ StripTrailing(u) # <<>>
         /\ StripTrailing(u)[1] = u[1]
         /\ StripTrailing(StripTrailing(u)) = StripTrailing(u)
<1> DEFINE r == Reverse(u)
           q == StripLeading(r)
           w == Reverse(q)
<1>1. r \in Seq(S) /\ Len(r) = Len(u) /\ r # <<>> /\ r[Len(r)] = u[1]
  BY ReverseIs
<1> HIDE DEF r
<1>2. q \in Seq(S) /\ q # <<>> /\ q[1] # Space /\ q[Len(q)] = u[1]
  BY <1>1, LeadingIs
<1>3. StripLeading(q) = q
  BY <1>2, LeadingIs
<1> HIDE DEF q
<1>4. w \in Seq(S) /\ w # <<>> /\ w[1] = u[1] /\ Reverse(w) = q
  BY <1>2, ReverseIs
<1>5. StripTrailing(u) = w
  BY DEF StripTrailing, q, r
<1> HIDE DEF w
<1>6. StripTrailing(w) = w
  BY <1>3, <1>4 DEF StripTrailing, w
<1> QED
  BY <1>4, <1>5, <1>6

\* A text without the spaces around it is searched for like the text itself.
LEMMA SameSearch ==
  ASSUME NEW t \in Seq(Chars), NEW s,
         StripTrailing(StripLeading(t)) # <<>>
  PROVE  LET l == StripLeading(t)
             w == StripTrailing(l)
         IN  ResultsPage(s, w) = ResultsPage(s, l) /\ SearchId(w) = SearchId(l)
<1> DEFINE l == StripLeading(t)
           w == StripTrailing(l)
<1>1. l \in Seq(Chars) /\ (l # <<>> => l[1] # Space)
  BY LeadingIs
<1>2. l # <<>>
  <2>1. Reverse(<<>>) = <<>>
    <3>1. Len(<<>>) = 0
      BY EmptySeq
    <3> QED
      BY <3>1, SMT DEF Reverse
  <2>2. StripLeading(<<>>) = <<>>
    BY EmptySeq, SMT DEF StripLeading
  <2> HIDE DEF l
  <2>3. l = <<>> => w = <<>>
    BY <2>1, <2>2 DEF StripTrailing
  <2> QED
    BY <2>3 DEF l
<1> HIDE DEF l
<1>3. w \in Seq(Chars) /\ w # <<>> /\ w[1] = l[1] /\ StripTrailing(w) = w
  BY <1>1, <1>2, TrailingIs
<1>4. StripLeading(l) = l
  BY <1>1, <1>2, LeadingIs
<1> HIDE DEF w
<1>5. StripLeading(w) = w
  BY <1>1, <1>2, <1>3, LeadingIs
<1>6. ResultsPage(s, w) = ResultsPage(s, l)
  BY <1>2, <1>3 DEF ResultsPage
<1>7. SearchId(w) = SearchId(l)
  BY <1>3, <1>4, <1>5 DEF SearchId, w
<1> QED
  BY <1>6, <1>7 DEF l, w

\* The rows that match a text follow each other, since they are sorted.
LEMMA MatchesBlock ==
  ASSUME NEW p \in DOMAIN Rows, NEW t \in Seq(Chars)
  PROVE  /\ Block(Matches(p, t))
         /\ \A i \in Matches(p, t) : Rows[p][i + 1].kids \in Nat
<1> DEFINE q == SearchId(t)
           rows == Rows[p]
           I == Matches(p, t)
<1>1. q \in Seq(Chars)
  <2>1. StripTrailing(StripLeading(t)) \in Seq(Chars)
    <3> DEFINE r == Reverse(StripLeading(t))
    <3>1. r \in Seq(Chars)
      BY LeadingIs, ReverseIs
    <3> HIDE DEF r
    <3>2. Reverse(StripLeading(r)) \in Seq(Chars)
      BY <3>1, LeadingIs, ReverseIs
    <3> QED
      BY <3>2 DEF r, StripTrailing
  <2> DEFINE u == StripTrailing(StripLeading(t))
  <2> HIDE DEF u
  <2>2. \A n \in 1 .. Len(u) : LowerOf(u[n]) \in Chars
    BY <2>1, ElementOfSeq, CharAssumption DEF u
  <2>3. Len(u) \in Nat
    BY <2>1, LenProperties DEF u
  <2>4. LowerCase(u) \in Seq(Chars)
    BY <2>2, <2>3 DEF LowerCase
  <2> QED
    BY <2>4, IdIs DEF SearchId, u
<1>2. rows \in Seq([name : Seq(Chars), kids : Nat])
  BY RowsAssumption
<1>3. Len(rows) \in Nat /\ DOMAIN rows = 1 .. Len(rows)
      /\ \A n \in 1 .. Len(rows) : rows[n].name \in Seq(Chars) /\ rows[n].kids \in Nat
  <2> HIDE DEF rows
  <2>1. Len(rows) \in Nat /\ DOMAIN rows = 1 .. Len(rows)
    BY <1>2, LenProperties
  <2>2. \A n \in 1 .. Len(rows) : rows[n] \in [name : Seq(Chars), kids : Nat]
    BY <1>2, ElementOfSeq
  <2> QED
    BY <2>1, <2>2
<1>4. I = {i \in {n - 1 : n \in DOMAIN rows} : IsPrefix(q, rows[i + 1].name)}
  BY DEF Matches
<1> HIDE DEF q, I
<1>5. \A i : i \in I <=> i \in Nat /\ i + 1 \in 1 .. Len(rows) /\ IsPrefix(q, rows[i + 1].name)
  <2>1. \A i : i \in {n - 1 : n \in 1 .. Len(rows)} <=> i \in Nat /\ i + 1 \in 1 .. Len(rows)
    <3>1. ASSUME NEW i \in {n - 1 : n \in 1 .. Len(rows)} PROVE i \in Nat /\ i + 1 \in 1 .. Len(rows)
      <4>1. PICK n \in 1 .. Len(rows) : i = n - 1
        BY <3>1
      <4> HIDE DEF rows
      <4> QED
        BY <1>3, <4>1, SMT
    <3>2. ASSUME NEW i \in Nat, i + 1 \in 1 .. Len(rows) PROVE i \in {n - 1 : n \in 1 .. Len(rows)}
      <4>1. i = (i + 1) - 1
        BY SMT
      <4> QED
        BY <3>2, <4>1
    <3> QED
      BY <3>1, <3>2
  <2> QED
    BY <1>3, <1>4, <2>1
<1>6. ASSUME NEW a \in I, NEW b \in I, NEW n \in Nat, a < n, n < b PROVE n \in I
  <2> DEFINE k == Len(q)
             l == a + 1
             m == n + 1
             h == b + 1
  <2>1. /\ l \in 1 .. Len(rows) /\ m \in 1 .. Len(rows) /\ h \in 1 .. Len(rows)
        /\ l < m /\ m < h
    <3> HIDE DEF rows
    <3>1. a \in Nat /\ b \in Nat /\ a + 1 \in 1 .. Len(rows) /\ b + 1 \in 1 .. Len(rows)
      BY <1>5
    <3> QED
      BY <1>3, <1>6, <3>1, SMT
  <2>2. IsPrefix(q, rows[l].name) /\ IsPrefix(q, rows[h].name)
    BY <1>5
  <2> HIDE DEF l, m, h
  <2>3. k \in Nat /\ q = SubSeq(q, 1, k)
    BY <1>1, LenProperties, SubSeqFull
  <2>4. q = SubSeq(rows[l].name, 1, k) /\ k <= Len(rows[l].name) /\ Len(rows[l].name) \in Nat
    BY <1>3, <2>1, <2>2, <2>3, LenProperties DEF IsPrefix
  <2>5. k \in 0 .. Len(rows[l].name)
    <3> HIDE DEF k, rows
    <3> QED
      BY <2>3, <2>4, SMT
  <2> HIDE DEF k
  <2>6. q \in {SubSeq(rows[l].name, 1, j) : j \in 0 .. Len(rows[l].name)}
    BY <2>4, <2>5
  <2>7. IsPrefix(q, rows[m].name)
    BY <2>1, <2>2, <2>6, RowsSorted
  <2> QED
    BY <1>5, <2>1, <2>7 DEF m
<1>7. I \subseteq Nat
  BY <1>5
<1>8. \A i \in I : rows[i + 1].kids \in Nat
  BY <1>3, <1>5
<1> QED
  BY <1>6, <1>7, <1>8 DEF Block, I

\* A page of results with rows displayed that follow each other.
Walkable(f) == Block(f.shown) /\ \A i \in f.shown : Row(f, i).kids \in Nat

LEMMA PlacesDiffer ==
  /\ \A i, j : Item(i) # Nowhere /\ (Item(i) = Item(j) => i = j) /\ Item(i)[1] = "item" /\ Item(i)[2] = i
  /\ \A i, c : Child(i, c)[1] = "child" /\ Child(i, c)[2] = i /\ Child(i, c)[3] = c
               /\ Child(i, c) # Nowhere
  /\ \A i, j, c : Item(i) # Child(j, c)
BY DEF Item, Child, Nowhere

LEMMA NextIs ==
  ASSUME NEW f, Walkable(f), NEW i \in f.shown
  PROVE  NavNext(f, i + 1) = IF i + 1 \in f.shown THEN Item(i + 1) ELSE Nowhere
<1> DEFINE after == {j \in f.shown : j >= i + 1}
<1>1. after \in SUBSET Nat /\ i \in Nat /\ i + 1 \in Nat
  BY DEF Walkable, Block
<1>2. CASE i + 1 \in f.shown
  <2>1. i + 1 \in after /\ \A j \in after : i + 1 <= j
    BY <1>1, <1>2, SMT
  <2>2. Min(after) = i + 1
    BY <1>1, <2>1, MinIs
  <2> QED
    BY <1>2, <2>1, <2>2 DEF NavNext
<1>3. CASE i + 1 \notin f.shown
  <2>1. ASSUME NEW j \in after PROVE FALSE
    <3>1. j \in f.shown /\ j \in Nat /\ j # i + 1 /\ j >= i + 1
      BY <1>1, <1>3, <2>1
    <3>2. i < i + 1 /\ i + 1 < j
      BY <1>1, <3>1, SMT
    <3> QED
      BY <1>1, <1>3, <3>1, <3>2 DEF Walkable, Block
  <2> QED
    BY <1>3, <2>1 DEF NavNext
<1> QED
  BY <1>2, <1>3

LEMMA PrevIs ==
  ASSUME NEW f, Walkable(f), NEW i \in f.shown, i # 0
  PROVE  NavPrev(f, i - 1) = IF i - 1 \in f.shown THEN Item(i - 1) ELSE Nowhere
<1> DEFINE before == {j \in f.shown : j <= i - 1}
<1>1. before \in SUBSET Nat /\ i \in Nat /\ i - 1 \in Nat
  <2>1. i \in Nat /\ f.shown \subseteq Nat
    BY DEF Walkable, Block
  <2> QED
    BY <2>1, SMT
<1>2. CASE i - 1 \in f.shown
  <2>1. i - 1 \in before /\ \A j \in before : j <= i - 1
    BY <1>1, <1>2, SMT
  <2>2. Max(before) = i - 1
    BY <1>1, <2>1, MaxIs
  <2> QED
    BY <1>2, <2>1, <2>2 DEF NavPrev
<1>3. CASE i - 1 \notin f.shown
  <2>1. ASSUME NEW j \in before PROVE FALSE
    <3>1. j \in f.shown /\ j \in Nat /\ j # i - 1 /\ j <= i - 1
      BY <1>1, <1>3, <2>1
    <3>2. j < i - 1 /\ i - 1 < i
      BY <1>1, <3>1, SMT
    <3> QED
      BY <1>1, <1>3, <3>1, <3>2 DEF Walkable, Block
  <2> QED
    BY <1>3, <2>1 DEF NavPrev
<1> QED
  BY <1>2, <1>3

\* Down goes from row i to the next line, and from the last line to itself.
Below(f, i, place) == IF i + 1 \in f.shown THEN Item(i + 1) ELSE place

LEMMA DownIs ==
  ASSUME NEW f, Walkable(f), NEW i \in f.shown
  PROVE  /\ Nav(f, Item(i), "down") = IF IsOpen(f, i) THEN Child(i, 0) ELSE Below(f, i, Item(i))
         /\ \A c : Nav(f, Child(i, c), "down") =
              IF c + 1 < Row(f, i).kids THEN Child(i, c + 1) ELSE Below(f, i, Child(i, c))
<1>1. \A place : OrStay(NavNext(f, i + 1), place) = Below(f, i, place)
  BY NextIs, PlacesDiffer DEF OrStay, Below
<1>2. Nav(f, Item(i), "down") = Down(f, i)
  BY PlacesDiffer DEF Nav
<1>3. ASSUME NEW c PROVE Nav(f, Child(i, c), "down") = DownChild(f, i, c)
  BY PlacesDiffer DEF Nav
<1> QED
  BY <1>1, <1>2, <1>3 DEF Down, DownChild

\* Up goes the way back.
LEMMA UpIs ==
  ASSUME NEW f, Walkable(f), NEW i \in f.shown
  PROVE  /\ Nav(f, Item(i), "up") = IF i = 0 \/ i - 1 \notin f.shown THEN Field
                                    ELSE IF IsOpen(f, i - 1) THEN LastChild(f, i - 1)
                                    ELSE Item(i - 1)
         /\ \A c : Nav(f, Child(i, c), "up") = IF c > 0 THEN Child(i, c - 1) ELSE Item(i)
<1>1. Nav(f, Item(i), "up") = Up(f, i)
  BY PlacesDiffer DEF Nav
<1>2. ASSUME NEW c PROVE Nav(f, Child(i, c), "up") = UpChild(f, i, c)
  BY PlacesDiffer DEF Nav
<1>3. i = 0 \/ i - 1 \notin f.shown => Up(f, i) = Field
  <2>1. i = 0 => Up(f, i) = Field
    BY DEF Up
  <2>2. i # 0 /\ i - 1 \notin f.shown => NavPrev(f, i - 1) = Nowhere
    BY PrevIs
  <2>3. i # 0 /\ i - 1 \notin f.shown => Up(f, i) = Field
    BY <2>2 DEF Up
  <2> QED
    BY <2>1, <2>3
<1>4. ASSUME i # 0, i - 1 \in f.shown
      PROVE  Up(f, i) = IF IsOpen(f, i - 1) THEN LastChild(f, i - 1) ELSE Item(i - 1)
  <2>1. NavPrev(f, i - 1) = Item(i - 1) /\ Item(i - 1) # Nowhere /\ Item(i - 1)[2] = i - 1
    BY <1>4, PrevIs, PlacesDiffer
  <2>2. IsOpen(f, i - 1) => HasChildren(f, i - 1)
    BY DEF IsOpen
  <2> QED
    BY <1>4, <2>1, <2>2 DEF Up
<1>5. \A c : UpChild(f, i, c) = IF c > 0 THEN Child(i, c - 1) ELSE Item(i)
  BY DEF UpChild
<1> QED
  BY <1>1, <1>2, <1>3, <1>4, <1>5

LEMMA LinesAre ==
  ASSUME NEW f, Walkable(f)
  PROVE  \A place : place \in Lines(f) <=>
           \/ \E i \in f.shown : place = Item(i)
           \/ \E i \in f.shown, c \in Nat : /\ IsOpen(f, i) /\ c < Row(f, i).kids
                                            /\ place = Child(i, c)
<1>1. ASSUME NEW i \in f.shown
      PROVE  \A c : c \in 0 .. Row(f, i).kids - 1 <=> c \in Nat /\ c < Row(f, i).kids
  <2> DEFINE k == Row(f, i).kids
  <2>1. k \in Nat
    BY DEF Walkable
  <2> HIDE DEF k
  <2>2. \A c : c \in 0 .. k - 1 <=> c \in Nat /\ c < k
    BY <2>1, SMT
  <2> QED
    BY <2>2 DEF k
<1>2. ASSUME NEW i \in f.shown, NEW c \in Nat, c < Row(f, i).kids
      PROVE  IsOpen(f, i) <=> i \in f.open
  <2> DEFINE k == Row(f, i).kids
  <2>1. k \in Nat
    BY DEF Walkable
  <2> HIDE DEF k
  <2>2. c < k => k > 0
    BY <2>1, SMT
  <2> QED
    BY <1>2, <2>2 DEF IsOpen, HasChildren, k
<1>3. \A place : place \in Lines(f) <=>
        \/ \E i \in f.shown : place = Item(i)
        \/ \E i \in f.shown \cap f.open : \E c \in 0 .. Row(f, i).kids - 1 : place = Child(i, c)
  BY DEF Lines
<1>4. TAKE place
<1>5. ASSUME NEW i \in f.shown, NEW c \in Nat, IsOpen(f, i), c < Row(f, i).kids, place = Child(i, c)
      PROVE  place \in Lines(f)
  <2>1. c \in 0 .. Row(f, i).kids - 1 /\ i \in f.shown \cap f.open
    BY <1>1, <1>2, <1>5
  <2> QED
    BY <1>3, <1>5, <2>1
<1>6. ASSUME NEW i \in f.shown \cap f.open, NEW c \in 0 .. Row(f, i).kids - 1, place = Child(i, c)
      PROVE  \E j \in f.shown, d \in Nat : IsOpen(f, j) /\ d < Row(f, j).kids /\ place = Child(j, d)
  <2>1. c \in Nat /\ c < Row(f, i).kids
    BY <1>1
  <2>2. IsOpen(f, i)
    BY <1>2, <2>1
  <2> QED
    BY <1>6, <2>1, <2>2
<1> QED
  BY <1>3, <1>5, <1>6

\* KeysWalkLines, of a page.
Walks(f) ==
  LET first == NavNext(f, 0)
      after(line) == Nav(f, line, "down")
  IN  /\ \A line \in Lines(f) :
           /\ after(line) \in Lines(f)
           /\ after(line) # line => Nav(f, after(line), "up") = line
           /\ line # first => \E other \in Lines(f) \ {line} : after(other) = line
      /\ first # Nowhere => Nav(f, first, "up") = Field

\* The line after the last one of row i, and the way back.
LEMMA BelowIs ==
  ASSUME NEW f, Walkable(f), NEW i \in f.shown, NEW place \in Lines(f),
         IF IsOpen(f, i) THEN place = LastChild(f, i) ELSE place = Item(i)
  PROVE  /\ Below(f, i, place) \in Lines(f)
         /\ Below(f, i, place) # place => Nav(f, Below(f, i, place), "up") = place
<1>1. CASE i + 1 \in f.shown
  <2>1. i \in Nat /\ i + 1 # 0 /\ (i + 1) - 1 = i
    <3>1. i \in Nat
      BY DEF Walkable, Block
    <3> QED
      BY <3>1, SMT
  <2>2. Below(f, i, place) = Item(i + 1)
    BY <1>1 DEF Below
  <2>3. Nav(f, Item(i + 1), "up") = place
    BY <1>1, <2>1, UpIs
  <2>4. Item(i + 1) \in Lines(f)
    BY <1>1, LinesAre
  <2> QED
    BY <2>2, <2>3, <2>4
<1>2. CASE i + 1 \notin f.shown
  BY <1>2 DEF Below
<1> QED
  BY <1>1, <1>2

LEMMA DownWalks ==
  ASSUME NEW f, Walkable(f), NEW line \in Lines(f), NEW n, n = Nav(f, line, "down")
  PROVE  n \in Lines(f) /\ (n # line => Nav(f, n, "up") = line)
<1>1. ASSUME NEW i \in f.shown, line = Item(i), IsOpen(f, i)
      PROVE  n \in Lines(f) /\ Nav(f, n, "up") = line
  <2>1. n = Child(i, 0)
    BY <1>1, DownIs
  <2>2. 0 \in Nat /\ 0 < Row(f, i).kids /\ ~(0 > 0)
    BY <1>1, SMT DEF Walkable, IsOpen, HasChildren
  <2>3. n \in Lines(f)
    BY <1>1, <2>1, <2>2, LinesAre
  <2>4. Nav(f, n, "up") = Item(i)
    BY <2>1, <2>2, UpIs
  <2> QED
    BY <1>1, <2>3, <2>4
<1>2. ASSUME NEW i \in f.shown, line = Item(i), ~IsOpen(f, i)
      PROVE  n \in Lines(f) /\ (n # line => Nav(f, n, "up") = line)
  <2>1. n = Below(f, i, line)
    BY <1>2, DownIs
  <2> QED
    BY <1>2, <2>1, BelowIs
<1>3. ASSUME NEW i \in f.shown, NEW c \in Nat, IsOpen(f, i), c < Row(f, i).kids, line = Child(i, c)
      PROVE  n \in Lines(f) /\ (n # line => Nav(f, n, "up") = line)
  <2> DEFINE k == Row(f, i).kids
  <2>1. k \in Nat
    BY DEF Walkable
  <2>2. CASE c + 1 < k
    <3>1. n = Child(i, c + 1)
      BY <1>3, <2>2, DownIs
    <3>2. c + 1 \in Nat /\ c + 1 > 0 /\ (c + 1) - 1 = c
      BY SMT
    <3>3. n \in Lines(f)
      BY <1>3, <2>2, <3>1, <3>2, LinesAre
    <3>4. Nav(f, n, "up") = Child(i, c)
      BY <3>1, <3>2, UpIs
    <3> QED
      BY <1>3, <3>3, <3>4
  <2>3. CASE ~(c + 1 < k)
    <3>1. n = Below(f, i, line)
      BY <1>3, <2>3, DownIs
    <3>2. c = k - 1
      <4>1. c < k
        BY <1>3
      <4> HIDE DEF k
      <4> QED
        BY <2>1, <2>3, <4>1, SMT
    <3>3. line = LastChild(f, i)
      BY <1>3, <3>2 DEF LastChild
    <3> QED
      BY <1>3, <3>1, <3>3, BelowIs
  <2> QED
    BY <2>2, <2>3
<1> QED
  BY <1>1, <1>2, <1>3, LinesAre

\* The first line of a page is its first row, if it has one.
LEMMA FirstIs ==
  ASSUME NEW f, Walkable(f)
  PROVE  \/ NavNext(f, 0) = Nowhere /\ f.shown = {}
         \/ \E lo \in f.shown : /\ NavNext(f, 0) = Item(lo)
                                /\ \A i \in f.shown : lo <= i
                                /\ lo = 0 \/ lo - 1 \notin f.shown
<1> DEFINE after == {i \in f.shown : i >= 0}
<1>1. after = f.shown /\ after \in SUBSET Nat
  <2>1. \A i \in f.shown : i \in Nat /\ i >= 0
    BY SMT DEF Walkable, Block
  <2> QED
    BY <2>1
<1>2. CASE after = {}
  BY <1>1, <1>2 DEF NavNext
<1>3. CASE after # {}
  <2>1. PICK lo \in after : \A i \in after : lo <= i
    BY <1>1, <1>3, Smallest
  <2>2. Min(after) = lo
    BY <1>1, <2>1, MinIs
  <2>3. NavNext(f, 0) = Item(lo)
    BY <1>3, <2>2 DEF NavNext
  <2>4. lo - 1 \notin f.shown
    <3>1. lo \in Nat /\ ~(lo <= lo - 1)
      BY <1>1, <2>1, SMT
    <3> QED
      BY <1>1, <2>1, <3>1
  <2> QED
    BY <1>1, <2>1, <2>3, <2>4
<1> QED
  BY <1>2, <1>3

\* Down reaches every line but the first from another.
LEMMA Reached ==
  ASSUME NEW f, Walkable(f), NEW line \in Lines(f), line # NavNext(f, 0)
  PROVE  \E other \in Lines(f) \ {line} : Nav(f, other, "down") = line
<1>1. ASSUME NEW i \in f.shown, NEW c \in Nat, IsOpen(f, i), c < Row(f, i).kids,
             line = Child(i, c), c # 0
      PROVE  \E other \in Lines(f) \ {line} : Nav(f, other, "down") = line
  <2> DEFINE k == Row(f, i).kids
  <2>1. k \in Nat
    BY DEF Walkable
  <2>2. c - 1 \in Nat /\ (c - 1) + 1 = c /\ c - 1 < k /\ c - 1 # c
    <3>1. c < k
      BY <1>1
    <3> HIDE DEF k
    <3> QED
      BY <1>1, <2>1, <3>1, SMT
  <2>3. Child(i, c - 1) \in Lines(f)
    BY <1>1, <2>2, LinesAre
  <2>4. Child(i, c - 1) # line
    BY <1>1, <2>2, PlacesDiffer
  <2>5. Nav(f, Child(i, c - 1), "down") = line
    BY <1>1, <2>2, DownIs
  <2> QED
    BY <2>3, <2>4, <2>5
<1>2. ASSUME NEW i \in f.shown, IsOpen(f, i), line = Child(i, 0)
      PROVE  \E other \in Lines(f) \ {line} : Nav(f, other, "down") = line
  <2>1. Item(i) \in Lines(f) /\ Item(i) # line
    BY <1>2, LinesAre, PlacesDiffer
  <2>2. Nav(f, Item(i), "down") = line
    BY <1>2, DownIs
  <2> QED
    BY <2>1, <2>2
<1>3. ASSUME NEW i \in f.shown, line = Item(i)
      PROVE  \E other \in Lines(f) \ {line} : Nav(f, other, "down") = line
  <2>1. PICK lo \in f.shown : NavNext(f, 0) = Item(lo) /\ \A j \in f.shown : lo <= j
    BY FirstIs
  <2>2. lo \in Nat /\ i \in Nat /\ lo <= i /\ lo # i
    BY <1>3, <2>1 DEF Walkable, Block
  <2>3. i - 1 \in Nat /\ (i - 1) + 1 = i /\ i - 1 < i /\ (lo = i - 1 \/ lo < i - 1)
    BY <2>2, SMT
  <2>4. i - 1 \in f.shown
    BY <2>3 DEF Walkable, Block
  <2>5. CASE ~IsOpen(f, i - 1)
    <3>1. Item(i - 1) \in Lines(f) /\ Item(i - 1) # line
      <4>1. i - 1 # i
        BY <2>2, SMT
      <4> QED
        BY <1>3, <2>4, <4>1, LinesAre, PlacesDiffer
    <3>2. Nav(f, Item(i - 1), "down") = line
      BY <1>3, <2>3, <2>4, <2>5, DownIs DEF Below
    <3> QED
      BY <3>1, <3>2
  <2>6. CASE IsOpen(f, i - 1)
    <3> DEFINE k == Row(f, i - 1).kids
               d == k - 1
    <3>1. k \in Nat /\ k > 0
      BY <2>4, <2>6 DEF Walkable, IsOpen, HasChildren
    <3>2. d \in Nat /\ d < k /\ ~(d + 1 < k)
      <4> HIDE DEF k
      <4> QED
        BY <3>1, SMT
    <3> HIDE DEF d
    <3>3. Child(i - 1, d) \in Lines(f) /\ Child(i - 1, d) # line
      BY <1>3, <2>4, <2>6, <3>2, LinesAre, PlacesDiffer
    <3>4. Nav(f, Child(i - 1, d), "down") = line
      BY <1>3, <2>3, <2>4, <3>2, DownIs DEF Below
    <3> QED
      BY <3>3, <3>4
  <2> QED
    BY <2>5, <2>6
<1> QED
  BY <1>1, <1>2, <1>3, LinesAre

\* Down and Up walk through a page whose rows follow each other.
LEMMA PageWalks ==
  ASSUME NEW f, Walkable(f)
  PROVE  Walks(f)
<1>1. ASSUME NEW line \in Lines(f)
      PROVE  /\ Nav(f, line, "down") \in Lines(f)
             /\ Nav(f, line, "down") # line => Nav(f, Nav(f, line, "down"), "up") = line
  BY DownWalks
<1>2. NavNext(f, 0) # Nowhere => Nav(f, NavNext(f, 0), "up") = Field
  BY FirstIs, UpIs
<1> QED
  BY <1>1, <1>2, Reached DEF Walks

LEMMA ResultsWalk ==
  ASSUME NEW f, HasResults(f), NEW t \in Seq(Chars), f.shown = Matches(f.page, t)
  PROVE  Walks(f)
<1>1. Walkable(f)
  BY MatchesBlock DEF Walkable, HasResults, Row
<1> QED
  BY <1>1, PageWalks

-----------------------------------------------------------------------------
(* The results displayed                                                   *)

\* The pages of the results.
Pages == DOMAIN Rows \cup {NoMatches}

\* TypeOK, of a box, and what is searched for.
Typed(b) ==
  /\ b.value \in Texts \cup {Label, <<>>} /\ b.lastSearchValue \in Seq(Chars)
  /\ b.searchIndex \in 0 .. ItemCount
  /\ b.select \in BOOLEAN /\ b.keyTimer \in BOOLEAN
  /\ b.lostSearches \in Nat /\ b.lostHides \in Nat
  /\ \A next \in b.loading : next.page \in Pages /\ next.query \in Seq(Chars)

\* The results of the last search in section s are in the frame or on their way.
Found(b, f, s) ==
  LET t    == b.lastSearchValue
      page == ResultsPage(s, t)
  IN  \/ b.loading = {[page |-> page, query |-> t]}
      \/ b.loading = {} /\ f.page = page /\ f.shown = Loaded(page, t).shown

\* The section is the one chosen.
InSection(b, s) == s = b.searchIndex \/ "section" \in b.owed \/ SearchThrows(b)

\* The text was searched, or something is left to do about it.
TextSeen(b) ==
  \/ "text" \in b.owed \/ b.keyTimer \/ SearchThrows(b) \/ "section" \in b.owed
  \/ Strip(b.value) = <<>>
  \/ b.lastSearchValue = Strip(b.value) \/ b.lastSearchValue = StripLeading(b.value)

CatchesUp(b, f) ==
  b.popup => TextSeen(b) /\ \E s \in Sections : Found(b, f, s) /\ InSection(b, s)

Sound(b, f) == IsBox(b) /\ Typed(b) /\ CatchesUp(b, f)

\* What of a box the results depend on.
Kept(b, n) ==
  /\ n.popup = b.popup /\ n.value = b.value /\ n.lastSearchValue = b.lastSearchValue
  /\ n.searchIndex = b.searchIndex /\ n.keyTimer = b.keyTimer
  /\ n.lostSearches = b.lostSearches /\ n.loading = b.loading /\ n.owed = b.owed

LEMMA KeptSound ==
  ASSUME NEW b, NEW f, NEW n, Sound(b, f), IsBox(n), Kept(b, n),
         n.select \in BOOLEAN, n.lostHides \in Nat
  PROVE  Sound(n, f)
BY DEF Sound, Kept, Typed, CatchesUp, TextSeen, Found, InSection, SearchThrows

LEMMA FrameSound ==
  ASSUME NEW b, NEW f, NEW g, Sound(b, f), g.page = f.page, g.shown = f.shown
  PROVE  Sound(b, g)
BY DEF Sound, CatchesUp, Found

\* The text of a field is a text.
LEMMA ValueIs ==
  ASSUME NEW b, Typed(b)
  PROVE  b.value \in Seq(Chars) /\ StripLeading(b.value) \in Seq(Chars)
<1>1. <<>> \in Seq(Chars)
  BY EmptySeq
<1>2. b.value \in Seq(Chars)
  BY <1>1, TextAssumption, ContentAssumption DEF Typed
<1> QED
  BY <1>2, LeadingIs

LEMMA StripEmpty == Strip(<<>>) = <<>>
<1> DEFINE q == [n \in 1 .. Len(<<>>) |-> IF <<>>[n] = Space THEN <<>> ELSE <<(<<>>)[n]>>]
<1>1. q = <<>>
  BY EmptySeq, SMT
<1>2. q \in Seq(Seq(Chars)) /\ Len(q) = 0
  BY <1>1, EmptySeq
<1> HIDE DEF q
<1>3. PICK g \in [0 .. Len(q) -> Seq(Chars)] : SX!FlattenSeq(q) = g[Len(q)]
                                               /\ g[0] = <<>>
  BY <1>2, FlattenIs DEF IsJoin
<1>4. FlattenSeq(q) = SX!FlattenSeq(q)
  BY DEF FlattenSeq, SX!FlattenSeq
<1> QED
  BY <1>2, <1>3, <1>4 DEF Strip, q

LEMMA PageIs ==
  ASSUME NEW s \in Sections, NEW t \in Seq(Chars)
  PROVE  ResultsPage(s, t) \in Pages
<1>1. Content[s] \in Seq(Chars) /\ Content[s] # <<>>
  BY ContentAssumption
<1>2. Len(Content[s]) \in Nat /\ 1 \in 1 .. Len(Content[s])
      /\ DOMAIN Content[s] = 1 .. Len(Content[s])
  <2> DEFINE c == Content[s]
  <2> HIDE DEF c
  <2>1. c \in Seq(Chars) /\ c # <<>>
    BY <1>1 DEF c
  <2>2. Len(c) \in Nat /\ Len(c) # 0 /\ DOMAIN c = 1 .. Len(c)
    BY <2>1, EmptySeq, LenProperties
  <2>3. 1 \in 1 .. Len(c)
    BY <2>2, SMT
  <2> QED
    BY <2>2, <2>3 DEF c
<1>3. \A n \in 1 .. Len(Content[s]) : Page(s, Content[s][n]) \in DOMAIN Rows
  BY ContentAssumption
<1>4. ASSUME NEW ch, Contains(Content[s], ch) PROVE Page(s, ch) \in DOMAIN Rows
  BY <1>2, <1>3, <1>4 DEF Contains
<1> QED
  BY <1>2, <1>3, <1>4 DEF ResultsPage, Pages

-----------------------------------------------------------------------------
(* The calls, once more                                                    *)

LEMMA ActivateSound ==
  ASSUME NEW b, NEW f, Sound(b, f), NEW on \in BOOLEAN, NEW n, n = Activate(b, on)
  PROVE  Sound(n, f)
<1>1. IsBox(b) /\ <<>> \in Seq(Chars)
  BY EmptySeq DEF Sound
<1>2. CASE (on \/ b.popup) /\ b.value = Label
  <2>1. n = [b EXCEPT !.boxActive = TRUE, !.value = <<>>, !.searchActive = TRUE]
    BY <1>2 DEF Activate
  <2>2. /\ IsBox(n) /\ n.value = <<>> /\ n.popup = b.popup /\ n.select = b.select
        /\ n.lastSearchValue = b.lastSearchValue /\ n.searchIndex = b.searchIndex
        /\ n.keyTimer = b.keyTimer /\ n.lostSearches = b.lostSearches
        /\ n.lostHides = b.lostHides /\ n.loading = b.loading /\ n.owed = b.owed
    BY <1>1, <2>1 DEF IsBox
  <2>3. Typed(n)
    BY <2>2 DEF Sound, Typed
  <2>4. CatchesUp(n, f)
    BY <2>2, StripEmpty DEF Sound, CatchesUp, TextSeen, Found, InSection, SearchThrows
  <2> QED
    BY <2>2, <2>3, <2>4 DEF Sound
<1>3. CASE (on \/ b.popup) /\ b.value # Label
  <2>1. n = [b EXCEPT !.boxActive = TRUE]
    BY <1>3 DEF Activate
  <2>2. IsBox(n) /\ Kept(b, n) /\ n.select = b.select /\ n.lostHides = b.lostHides
    BY <1>1, <2>1 DEF IsBox, Kept
  <2> QED
    BY <2>2, KeptSound DEF Sound, Typed
<1>4. CASE ~(on \/ b.popup)
  <2>1. n = [b EXCEPT !.boxActive = FALSE, !.value = Label, !.searchActive = FALSE,
                      !.lastSearchValue = <<>>]
    BY <1>4 DEF Activate
  <2>2. /\ IsBox(n) /\ n.value = Label /\ n.popup = b.popup /\ n.select = b.select
        /\ n.lastSearchValue = <<>> /\ n.searchIndex = b.searchIndex
        /\ n.keyTimer = b.keyTimer /\ n.lostSearches = b.lostSearches
        /\ n.lostHides = b.lostHides /\ n.loading = b.loading
    BY <1>1, <2>1 DEF IsBox
  <2>3. Typed(n)
    BY <1>1, <2>2 DEF Sound, Typed
  <2> QED
    BY <1>4, <2>2, <2>3 DEF Sound, CatchesUp
<1> QED
  BY <1>2, <1>3, <1>4

LEMMA MoveFocusSound ==
  ASSUME NEW b, NEW f, Sound(b, f), NEW place, NEW n, n = MoveFocus(b, place)
  PROVE  Sound(n, f)
<1> DEFINE left == IF b.focus = Field THEN Activate(b, FALSE) ELSE b
           here == [left EXCEPT !.focus = place]
<1>1. Sound(left, f)
  BY ActivateSound
<1>2. n = b \/ n = here \/ n = Activate(here, TRUE)
  BY DEF MoveFocus
<1> HIDE DEF left
<1>3. IsBox(here) /\ Kept(left, here) /\ here.select = left.select /\ here.lostHides = left.lostHides
  BY <1>1 DEF Sound, IsBox, Kept
<1> HIDE DEF here
<1>4. Sound(here, f)
  BY <1>1, <1>3, KeptSound DEF Sound, Typed
<1> QED
  BY <1>2, <1>4, ActivateSound

LEMMA HidePopupSound ==
  ASSUME NEW b, NEW f, Sound(b, f), NEW n, n = HidePopup(b)
  PROVE  Sound(n, f) /\ ~n.popup
<1> DEFINE place == IF InResults(b.focus) THEN Nowhere ELSE b.focus
<1>1. n = [b EXCEPT !.popup = FALSE, !.close = FALSE, !.owed = {}, !.focus = place]
  BY DEF HidePopup
<1> HIDE DEF place
<1>2. /\ IsBox(n) /\ ~n.popup /\ n.value = b.value /\ n.select = b.select
      /\ n.lastSearchValue = b.lastSearchValue /\ n.searchIndex = b.searchIndex
      /\ n.keyTimer = b.keyTimer /\ n.lostSearches = b.lostSearches
      /\ n.lostHides = b.lostHides /\ n.loading = b.loading
  BY <1>1 DEF Sound, IsBox
<1> QED
  BY <1>2 DEF Sound, Typed, CatchesUp

\* The last search is forgotten when the results are closed.
LEMMA ForgetSound ==
  ASSUME NEW b, NEW f, Sound(b, f), ~b.popup, NEW n, n = [b EXCEPT !.lastSearchValue = <<>>]
  PROVE  Sound(n, f) /\ ~n.popup
<1>1. <<>> \in Seq(Chars)
  BY EmptySeq
<1>2. /\ IsBox(n) /\ ~n.popup /\ n.value = b.value /\ n.select = b.select
      /\ n.lastSearchValue = <<>> /\ n.searchIndex = b.searchIndex
      /\ n.keyTimer = b.keyTimer /\ n.lostSearches = b.lostSearches
      /\ n.lostHides = b.lostHides /\ n.loading = b.loading
  BY DEF Sound, IsBox
<1> QED
  BY <1>1, <1>2 DEF Sound, Typed, CatchesUp

LEMMA CloseSelectionWindowSound ==
  ASSUME NEW b, NEW f, Sound(b, f), NEW n, n = CloseSelectionWindow(b)
  PROVE  Sound(n, f)
<1> DEFINE place == IF b.focus = Select THEN Nowhere ELSE b.focus
<1>1. n = [b EXCEPT !.select = FALSE, !.focus = place]
  BY DEF CloseSelectionWindow
<1> HIDE DEF place
<1>2. IsBox(n) /\ Kept(b, n) /\ n.select = FALSE /\ n.lostHides = b.lostHides
  BY <1>1 DEF Sound, IsBox, Kept
<1> QED
  BY <1>2, KeptSound DEF Sound, Typed

LEMMA CloseResultsWindowSound ==
  ASSUME NEW b, NEW f, Sound(b, f), NEW n, n = CloseResultsWindow(b)
  PROVE  Sound(n, f)
BY HidePopupSound, ActivateSound DEF CloseResultsWindow

\* A search, of which only the section may not be that of the results before.
LEMMA SearchSound ==
  ASSUME NEW b, NEW f, IsBox(b), Typed(b), b.popup => \E s \in Sections : Found(b, f, s),
         NEW n, n = Search(b)
  PROVE  Sound(n, f)
<1> DEFINE t    == StripLeading(b.value)
           num  == b.lostSearches + Count(b.keyTimer)
           page == ResultsPage(b.searchIndex, t)
           pages == {[page |-> page, query |-> t]}
           calm == [b EXCEPT !.keyTimer = FALSE, !.lostSearches = num]
           done == [calm EXCEPT !.loading = pages, !.popup = TRUE, !.close = TRUE,
                                !.lastSearchValue = t, !.owed = {}]
<1>1. n = IF SearchThrows(b) THEN calm ELSE done
  BY DEF Search
<1>2. num \in Nat /\ t \in Seq(Chars)
  BY ValueIs DEF Typed, Count
<1>3. ~SearchThrows(b) => b.searchIndex \in Sections /\ page \in Pages
  BY <1>2, PageIs DEF SearchThrows
<1> HIDE DEF num, page
<1>4. CASE SearchThrows(b)
  <2>1. n = calm
    BY <1>1, <1>4
  <2> HIDE DEF t
  <2>2. /\ IsBox(n) /\ n.popup = b.popup /\ n.value = b.value /\ n.select = b.select
        /\ n.lastSearchValue = b.lastSearchValue /\ n.searchIndex = b.searchIndex
        /\ n.keyTimer = FALSE /\ n.lostSearches = num
        /\ n.lostHides = b.lostHides /\ n.loading = b.loading /\ n.owed = b.owed
    BY <2>1 DEF IsBox
  <2>3. Typed(n)
    BY <1>2, <2>2 DEF Typed
  <2>4. CatchesUp(n, f)
    BY <1>4, <2>2 DEF CatchesUp, TextSeen, Found, InSection, SearchThrows
  <2> QED
    BY <2>2, <2>3, <2>4 DEF Sound
<1>5. CASE ~SearchThrows(b)
  <2>1. n = done
    BY <1>1, <1>5
  <2> HIDE DEF t, pages
  <2>2. /\ IsBox(n) /\ n.value = b.value /\ n.select = b.select
        /\ n.lastSearchValue = t /\ n.searchIndex = b.searchIndex
        /\ n.keyTimer = FALSE /\ n.lostSearches = num
        /\ n.lostHides = b.lostHides /\ n.loading = pages
    <3>1. calm = [b EXCEPT !.keyTimer = FALSE, !.lostSearches = num]
      OBVIOUS
    <3> HIDE DEF calm
    <3>2. /\ IsBox(calm) /\ calm.value = b.value /\ calm.select = b.select
          /\ calm.searchIndex = b.searchIndex /\ calm.keyTimer = FALSE
          /\ calm.lostSearches = num /\ calm.lostHides = b.lostHides
      BY <3>1 DEF IsBox
    <3> QED
      BY <2>1, <3>2 DEF IsBox
  <2>3. \A next \in pages : next.page \in Pages /\ next.query \in Seq(Chars)
    BY <1>2, <1>3, <1>5 DEF pages
  <2>4. Typed(n)
    BY <1>2, <2>2, <2>3 DEF Typed
  <2>5. TextSeen(n)
    BY <2>2 DEF TextSeen, t
  <2>6. Found(n, f, b.searchIndex) /\ InSection(n, b.searchIndex)
    BY <2>2 DEF Found, InSection, pages, page
  <2> QED
    BY <1>3, <1>5, <2>2, <2>4, <2>5, <2>6 DEF Sound, CatchesUp
<1> QED
  BY <1>4, <1>5

LEMMA OnSelectItemSound ==
  ASSUME NEW b, NEW f, Sound(b, f), NEW id \in 0 .. ItemCount, NEW n, n = OnSelectItem(b, id)
  PROVE  Sound(n, f)
<1> DEFINE chosen == [b EXCEPT !.searchIndex = id]
<1>1. n = Search(chosen) \/ n = [chosen EXCEPT !.owed = @ \cup {"section"}]
  BY DEF OnSelectItem
<1>2. /\ IsBox(chosen) /\ chosen.popup = b.popup /\ chosen.value = b.value
      /\ chosen.select = b.select /\ chosen.lastSearchValue = b.lastSearchValue
      /\ chosen.searchIndex = id /\ chosen.keyTimer = b.keyTimer
      /\ chosen.lostSearches = b.lostSearches /\ chosen.lostHides = b.lostHides
      /\ chosen.loading = b.loading
  BY DEF Sound, IsBox
<1> HIDE DEF chosen
<1>3. Typed(chosen)
  BY <1>2 DEF Sound, Typed
<1>4. chosen.popup => \E s \in Sections : Found(chosen, f, s)
  BY <1>2 DEF Sound, CatchesUp, Found
<1>5. CASE n = Search(chosen)
  BY <1>2, <1>3, <1>4, <1>5, SearchSound
<1>6. CASE n = [chosen EXCEPT !.owed = @ \cup {"section"}]
  <2> DEFINE owed == chosen.owed \cup {"section"}
  <2>1. n = [chosen EXCEPT !.owed = owed] /\ "section" \in owed
    BY <1>6
  <2> HIDE DEF owed
  <2>2. /\ IsBox(n) /\ n.popup = chosen.popup /\ n.value = chosen.value
        /\ n.select = chosen.select /\ n.lastSearchValue = chosen.lastSearchValue
        /\ n.searchIndex = chosen.searchIndex /\ n.keyTimer = chosen.keyTimer
        /\ n.lostSearches = chosen.lostSearches /\ n.lostHides = chosen.lostHides
        /\ n.loading = chosen.loading /\ n.owed = owed
    BY <1>2, <2>1 DEF IsBox
  <2>3. Typed(n)
    BY <1>3, <2>2 DEF Typed
  <2>4. CatchesUp(n, f)
    BY <1>4, <2>1, <2>2 DEF CatchesUp, TextSeen, Found, InSection
  <2> QED
    BY <2>2, <2>3, <2>4 DEF Sound
<1> QED
  BY <1>1, <1>5, <1>6

LEMMA OnSearchSelectShowSound ==
  ASSUME NEW b, NEW f, Sound(b, f), NEW n, n = OnSearchSelectShow(b)
  PROVE  Sound(n, f)
<1>1. n = [b EXCEPT !.select = TRUE, !.hideTimer = FALSE]
  BY DEF OnSearchSelectShow
<1>2. IsBox(n) /\ Kept(b, n) /\ n.select = TRUE /\ n.lostHides = b.lostHides
  BY <1>1 DEF Sound, IsBox, Kept
<1> QED
  BY <1>2, KeptSound DEF Sound, Typed

LEMMA OnSearchSelectKeySound ==
  ASSUME NEW b, NEW f, Sound(b, f), NEW key, NEW n, n = OnSearchSelectKey(b, key)
  PROVE  Sound(n, f)
<1> DEFINE index  == b.searchIndex
           chosen == OnSelectItem(b, index)
<1>1. ItemCount \in Nat /\ index \in 0 .. ItemCount /\ 0 \in 0 .. ItemCount
  BY ContentAssumption, SMT DEF Sound, Typed
<1>2. Sound(chosen, f)
  BY <1>1, OnSelectItemSound
<1>3. ASSUME index < ItemCount, n = OnSelectItem(b, index + 1)
      PROVE  Sound(n, f)
  <2> HIDE DEF index
  <2>1. index + 1 \in 0 .. ItemCount
    BY <1>1, <1>3, SMT
  <2> QED
    BY <1>3, <2>1, OnSelectItemSound
<1>4. ASSUME index > 0, n = OnSelectItem(b, index - 1)
      PROVE  Sound(n, f)
  <2> HIDE DEF index
  <2>1. index - 1 \in 0 .. ItemCount
    BY <1>1, <1>4, SMT
  <2> QED
    BY <1>4, <2>1, OnSelectItemSound
<1>5. ASSUME n = MoveFocus(CloseSelectionWindow(chosen), Field)
      PROVE  Sound(n, f)
  BY <1>2, <1>5, CloseSelectionWindowSound, MoveFocusSound
<1>6. ASSUME n = OnSelectItem(chosen, 0)
      PROVE  Sound(n, f)
  BY <1>1, <1>2, <1>6, OnSelectItemSound
<1> QED
  BY <1>2, <1>3, <1>4, <1>5, <1>6 DEF OnSearchSelectKey

LEMMA CompareSound ==
  ASSUME NEW b, NEW f, Sound(b, f), NEW n, n = Compare(b)
  PROVE  Sound(n, f)
<1> DEFINE owed == b.owed \ {"text"}
           seen == [b EXCEPT !.owed = owed]
           hidden == HidePopup(b)
<1>1. \/ n = seen /\ Strip(b.value) = b.lastSearchValue
      \/ n = [seen EXCEPT !.keyTimer = TRUE]
      \/ n = [hidden EXCEPT !.lastSearchValue = <<>>]
  BY DEF Compare
<1>2. "section" \in b.owed => "section" \in owed
  OBVIOUS
<1> HIDE DEF owed
<1>3. /\ IsBox(seen) /\ seen.popup = b.popup /\ seen.value = b.value /\ seen.select = b.select
      /\ seen.lastSearchValue = b.lastSearchValue /\ seen.searchIndex = b.searchIndex
      /\ seen.keyTimer = b.keyTimer /\ seen.lostSearches = b.lostSearches
      /\ seen.lostHides = b.lostHides /\ seen.loading = b.loading /\ seen.owed = owed
  BY DEF Sound, IsBox
<1> HIDE DEF seen, hidden
<1>4. CASE n = seen /\ Strip(b.value) = b.lastSearchValue
  <2>1. Typed(n)
    BY <1>3, <1>4 DEF Sound, Typed
  <2>2. CatchesUp(n, f)
    BY <1>2, <1>3, <1>4 DEF Sound, CatchesUp, TextSeen, Found, InSection, SearchThrows
  <2> QED
    BY <1>3, <1>4, <2>1, <2>2 DEF Sound
<1>5. CASE n = [seen EXCEPT !.keyTimer = TRUE]
  <2>1. /\ IsBox(n) /\ n.popup = b.popup /\ n.value = b.value /\ n.select = b.select
        /\ n.lastSearchValue = b.lastSearchValue /\ n.searchIndex = b.searchIndex
        /\ n.keyTimer = TRUE /\ n.lostSearches = b.lostSearches
        /\ n.lostHides = b.lostHides /\ n.loading = b.loading /\ n.owed = owed
    BY <1>3, <1>5 DEF IsBox
  <2>2. Typed(n)
    BY <2>1 DEF Sound, Typed
  <2>3. CatchesUp(n, f)
    BY <1>2, <2>1 DEF Sound, CatchesUp, TextSeen, Found, InSection, SearchThrows
  <2> QED
    BY <2>1, <2>2, <2>3 DEF Sound
<1>6. CASE n = [hidden EXCEPT !.lastSearchValue = <<>>]
  BY <1>6, HidePopupSound, ForgetSound DEF hidden
<1> QED
  BY <1>1, <1>4, <1>5, <1>6

LEMMA LeaveFieldSound ==
  ASSUME NEW b, NEW f, Sound(b, f), NEW n, n = LeaveField(b)
  PROVE  Sound(n, f)
<1> DEFINE hidden == HidePopup(MoveFocus(b, Nowhere))
           clear  == [hidden EXCEPT !.lastSearchValue = <<>>]
<1>1. Sound(hidden, f) /\ ~hidden.popup
  BY MoveFocusSound, HidePopupSound
<1> HIDE DEF hidden
<1>2. Sound(clear, f)
  BY <1>1, ForgetSound
<1> HIDE DEF clear
<1>3. n = Activate(clear, FALSE)
  BY DEF LeaveField, clear, hidden
<1> QED
  BY <1>2, <1>3, ActivateSound

LEMMA OnSearchFieldChangeSound ==
  ASSUME NEW b, NEW f, Sound(b, f), NEW key, NEW shift, NEW n,
         n = OnSearchFieldChange(b, f, key, shift)
  PROVE  Sound(n, f)
<1> DEFINE owed == b.owed \cup (IF b.keyTimer THEN {"text"} ELSE {})
           calm == [b EXCEPT !.keyTimer = FALSE, !.owed = owed]
           moved == GoToResults(calm, f)
<1>1. \/ n = GoToSelect(calm) \/ n = Compare(moved)
      \/ n = LeaveField(calm) \/ n = Compare(calm)
  BY DEF OnSearchFieldChange
<1>2. /\ "section" \in b.owed => "section" \in owed
      /\ "text" \in b.owed \/ b.keyTimer => "text" \in owed
  OBVIOUS
<1> HIDE DEF owed, moved
<1>3. /\ IsBox(calm) /\ calm.popup = b.popup /\ calm.value = b.value /\ calm.select = b.select
      /\ calm.lastSearchValue = b.lastSearchValue /\ calm.searchIndex = b.searchIndex
      /\ calm.keyTimer = FALSE /\ calm.lostSearches = b.lostSearches
      /\ calm.lostHides = b.lostHides /\ calm.loading = b.loading /\ calm.owed = owed
  <2>1. calm = [b EXCEPT !.keyTimer = FALSE, !.owed = owed]
    OBVIOUS
  <2> HIDE DEF calm
  <2> QED
    BY <2>1 DEF Sound, IsBox
<1> HIDE DEF calm
<1>4. Sound(calm, f)
  <2>1. Typed(calm)
    BY <1>3 DEF Sound, Typed
  <2>2. CatchesUp(calm, f)
    BY <1>2, <1>3 DEF Sound, CatchesUp, TextSeen, Found, InSection, SearchThrows
  <2> QED
    BY <1>3, <2>1, <2>2 DEF Sound
<1>5. moved = calm \/ moved = MoveFocus(calm, NavNext(f, 0))
  BY DEF GoToResults, moved
<1>6. Sound(moved, f)
  BY <1>4, <1>5, MoveFocusSound
<1>7. CASE n = GoToSelect(calm)
  BY <1>4, <1>7, OnSearchSelectShowSound, MoveFocusSound DEF GoToSelect
<1> QED
  BY <1>1, <1>4, <1>6, <1>7, CompareSound, LeaveFieldSound

-----------------------------------------------------------------------------
(* The frame                                                               *)

FrameFine(f) ==
  /\ f = [page |-> f.page, shown |-> f.shown, open |-> f.open,
          lastKey |-> f.lastKey, repeatOn |-> f.repeatOn]
  /\ f.page \in Pages \cup {Blank}
  /\ f.lastKey \in Keys \cup {"none"} /\ f.repeatOn \in BOOLEAN
  /\ HasResults(f) => \E t \in Seq(Chars) : f.shown = Matches(f.page, t)

SamePage(f, g) == g.page = f.page /\ g.shown = f.shown

LEMMA ToggleIs ==
  ASSUME NEW f, FrameFine(f), NEW i, NEW g,
         g = f \/ g = Open(f, i) \/ g = Close(f, i) \/ g = Toggle(f, i)
  PROVE  FrameFine(g) /\ SamePage(f, g)
<1>1. ASSUME NEW open, g = [f EXCEPT !.open = open]
      PROVE  FrameFine(g) /\ SamePage(f, g)
  BY <1>1 DEF FrameFine, SamePage, HasResults
<1>2. g = f \/ \E open : g = [f EXCEPT !.open = open]
  BY DEF Open, Close, Toggle
<1> QED
  BY <1>1, <1>2 DEF SamePage

LEMMA ProcessKeysIs ==
  ASSUME NEW f, FrameFine(f), NEW type \in {"keydown", "keypress", "keyup"}, NEW key \in Keys,
         NEW g, g = ProcessKeys(f, type, key)
  PROVE  FrameFine(g) /\ SamePage(f, g)
<1>1. ASSUME NEW last \in Keys \cup {"none"}, NEW on \in BOOLEAN,
             g = [f EXCEPT !.lastKey = last, !.repeatOn = on]
      PROVE  FrameFine(g) /\ SamePage(f, g)
  BY <1>1 DEF FrameFine, SamePage, HasResults
<1>2. ASSUME NEW on \in BOOLEAN, g = [f EXCEPT !.repeatOn = on]
      PROVE  FrameFine(g) /\ SamePage(f, g)
  BY <1>2 DEF FrameFine, SamePage, HasResults
<1>3. CASE type = "keydown"
  <2>1. g = [f EXCEPT !.lastKey = key, !.repeatOn = FALSE]
    BY <1>3 DEF ProcessKeys
  <2> DEFINE no == FALSE
  <2>2. no \in BOOLEAN /\ g = [f EXCEPT !.lastKey = key, !.repeatOn = no]
    BY <2>1
  <2> HIDE DEF no
  <2> QED
    BY <1>1, <2>2
<1>4. CASE type = "keypress"
  <2> DEFINE on == f.repeatOn \/ f.lastKey # "none"
  <2>1. g = [f EXCEPT !.repeatOn = on] /\ on \in BOOLEAN
    BY <1>4 DEF ProcessKeys, FrameFine
  <2> HIDE DEF on
  <2> QED
    BY <1>2, <2>1
<1>5. CASE type = "keyup"
  <2>1. g = [f EXCEPT !.lastKey = "none", !.repeatOn = FALSE]
    BY <1>5 DEF ProcessKeys
  <2> DEFINE no == FALSE
             none == "none"
  <2>2. no \in BOOLEAN /\ none \in Keys \cup {"none"}
        /\ g = [f EXCEPT !.lastKey = none, !.repeatOn = no]
    BY <2>1
  <2> HIDE DEF no, none
  <2> QED
    BY <1>1, <2>2
<1> QED
  BY <1>3, <1>4, <1>5

LEMMA LoadedIs ==
  ASSUME NEW page \in Pages, NEW t \in Seq(Chars), NEW g, g = Loaded(page, t)
  PROVE  FrameFine(g) /\ g.page = page /\ g.shown = Loaded(page, t).shown
<1> DEFINE shown == IF page \in DOMAIN Rows THEN Matches(page, t) ELSE {}
<1>1. g = FrameOf(page, shown)
  BY DEF Loaded
<1> HIDE DEF shown
<1>2. /\ g = [page |-> g.page, shown |-> g.shown, open |-> g.open,
              lastKey |-> g.lastKey, repeatOn |-> g.repeatOn]
      /\ g.page = page /\ g.shown = shown /\ g.lastKey = "none" /\ g.repeatOn = FALSE
  BY <1>1 DEF FrameOf
<1>3. HasResults(g) => g.shown = Matches(g.page, t)
  BY <1>2 DEF HasResults, shown
<1> QED
  BY <1>2, <1>3 DEF FrameFine

-----------------------------------------------------------------------------
(* The events, once more                                                   *)

SearchInv ==
  /\ Sound(box, frame) /\ FrameFine(frame)
  /\ box.lostSearches <= MaxLost
  /\ hover \in BOOLEAN /\ down \in Keys \cup {"none", "text"}

LEMMA InitSearch == Init => SearchInv
<1> SUFFICES ASSUME Init PROVE SearchInv
  OBVIOUS
<1> DEFINE new == NewBox
<1>1. <<>> \in Seq(Chars) /\ 0 \in Nat /\ 0 <= MaxLost
  BY EmptySeq, TextAssumption, SMT
<1>2. ItemCount \in Nat /\ 0 \in 0 .. ItemCount
  BY ContentAssumption, SMT
<1>3. /\ IsBox(new) /\ ~new.popup /\ new.value = Label /\ new.select = FALSE
      /\ new.lastSearchValue = <<>> /\ new.searchIndex = 0 /\ new.keyTimer = FALSE
      /\ new.lostSearches = 0 /\ new.lostHides = 0 /\ new.loading = {} /\ ~new.searchActive
  BY NoField DEF NewBox, IsBox
<1>4. box = OnSelectItem(new, 0) /\ frame = FrameOf(Blank, {}) /\ hover = FALSE /\ down = "none"
  BY DEF Init
<1> HIDE DEF new
<1>5. Sound(new, frame)
  BY <1>1, <1>2, <1>3 DEF Sound, Typed, CatchesUp
<1>6. Sound(box, frame)
  BY <1>2, <1>4, <1>5, OnSelectItemSound
<1>7. box.lostSearches = 0
  <2> DEFINE zero == 0
             chosen == [new EXCEPT !.searchIndex = zero]
  <2> HIDE DEF zero
  <2>1. IsBox(chosen) /\ chosen.lostSearches = 0 /\ ~chosen.searchActive /\ chosen.value = new.value
    BY <1>3 DEF IsBox
  <2>2. box = [chosen EXCEPT !.owed = @ \cup {"section"}]
    BY <1>3, <1>4 DEF OnSelectItem, zero
  <2> DEFINE owed == chosen.owed \cup {"section"}
  <2>3. box = [chosen EXCEPT !.owed = owed]
    BY <2>2
  <2> HIDE DEF chosen, owed
  <2> QED
    BY <2>1, <2>3 DEF IsBox
<1>8. FrameFine(frame)
  <2>1. Blank \notin DOMAIN Rows
    <3>1. Len(Blank) = 1 /\ \A s, ch : Len(Page(s, ch)) = 2
      BY DEF Blank, Page
    <3>2. \A s, ch : Page(s, ch) # Blank
      BY <3>1
    <3> QED
      BY <3>2, ContentAssumption
  <2> QED
    BY <1>4, <2>1 DEF FrameFine, FrameOf, HasResults
<1> QED
  BY <1>1, <1>4, <1>6, <1>7, <1>8 DEF SearchInv

LEMMA KeyEventsSearch ==
  ASSUME SearchInv, KeyEvent
  PROVE  Sound(box', frame') /\ FrameFine(frame')
<1>0. Sound(box, frame) /\ FrameFine(frame)
  BY DEF SearchInv
<1>1. ASSUME NEW t \in Texts, Type(t)
      PROVE  Sound(box', frame') /\ FrameFine(frame')
  <2> DEFINE owed == box.owed \cup {"text"}
  <2>1. box' = [box EXCEPT !.value = t, !.owed = owed] /\ frame' = frame /\ "text" \in owed
        /\ ("section" \in box.owed => "section" \in owed)
    BY <1>1 DEF Type, Panel
  <2> HIDE DEF owed
  <2>2. /\ IsBox(box') /\ box'.popup = box.popup /\ box'.value = t /\ box'.select = box.select
        /\ box'.lastSearchValue = box.lastSearchValue /\ box'.searchIndex = box.searchIndex
        /\ box'.keyTimer = box.keyTimer /\ box'.lostSearches = box.lostSearches
        /\ box'.lostHides = box.lostHides /\ box'.loading = box.loading /\ box'.owed = owed
    BY <1>0, <2>1 DEF Sound, IsBox
  <2>3. Typed(box')
    BY <1>0, <2>2 DEF Sound, Typed
  <2>4. CatchesUp(box', frame)
    BY <1>0, <2>1, <2>2 DEF Sound, CatchesUp, TextSeen, Found, InSection, SearchThrows
  <2> QED
    BY <1>0, <2>1, <2>2, <2>3, <2>4 DEF Sound
<1>2. ASSUME NEW shift \in BOOLEAN, FieldKeyUp(shift)
      PROVE  Sound(box', frame') /\ FrameFine(frame')
  BY <1>0, <1>2, OnSearchFieldChangeSound DEF FieldKeyUp, Panel
<1>3. ASSUME NEW key \in Keys, SelectKeyDown(key)
      PROVE  Sound(box', frame') /\ FrameFine(frame')
  BY <1>0, <1>3, OnSearchSelectKeySound DEF SelectKeyDown, Panel
<1>4. ASSUME NEW type \in {"keydown", "keypress", "keyup"}, NEW key \in Keys, FrameKey(type, key)
      PROVE  Sound(box', frame') /\ FrameFine(frame')
  <2> DEFINE f == ProcessKeys(frame, type, key)
  <2>1. FrameFine(f) /\ SamePage(frame, f)
    BY <1>0, ProcessKeysIs
  <2>2. frame' = f \/ \E place, last : frame' = NavPage(f, place, last)
    BY <1>4 DEF FrameKey
  <2>3. \/ box' = box
        \/ box' = MoveFocus(CloseResultsWindow(box), Field)
        \/ \E place : box' = MoveFocus(box, place)
    BY <1>4 DEF FrameKey, Panel
  <2> HIDE DEF f
  <2>4. \A place, last : \/ NavPage(f, place, last) = f
                         \/ NavPage(f, place, last) = Open(f, place[2])
                         \/ NavPage(f, place, last) = Close(f, place[2])
    BY DEF NavPage
  <2>5. FrameFine(frame') /\ SamePage(f, frame')
    BY <2>1, <2>2, <2>4, ToggleIs
  <2>6. Sound(box', frame)
    BY <1>0, <2>3, CloseResultsWindowSound, MoveFocusSound
  <2> QED
    BY <2>1, <2>5, <2>6, FrameSound DEF SamePage
<1>5. CASE FrameEnter
  BY <1>0, <1>5, ToggleIs, FrameSound DEF FrameEnter, SamePage
<1>6. ASSUME UNCHANGED <<box, frame>>
      PROVE  Sound(box', frame') /\ FrameFine(frame')
  BY <1>0, <1>6
<1> QED
  BY <1>1, <1>2, <1>3, <1>4, <1>5, <1>6
  DEF KeyEvent, FieldKeyDown, KeyUpUnheard, FrameKeyDown, FrameKeyPress, FrameKeyUp

LEMMA MouseEventsSearch ==
  ASSUME SearchInv, MouseEvent
  PROVE  Sound(box', frame') /\ FrameFine(frame')
<1>0. Sound(box, frame) /\ FrameFine(frame)
  BY DEF SearchInv
<1>1. ASSUME NEW place, box' = MoveFocus(box, place), frame' = frame
      PROVE  Sound(box', frame') /\ FrameFine(frame')
  BY <1>0, <1>1, MoveFocusSound
<1>2. CASE ClickClose
  BY <1>0, <1>2, MoveFocusSound, CloseResultsWindowSound DEF ClickClose, Panel
<1>3. CASE MouseOver
  BY <1>0, <1>3, OnSearchSelectShowSound DEF MouseOver, Panel
<1>4. CASE MouseOut
  <2> DEFINE hides == box.lostHides + Count(box.hideTimer)
  <2>1. box' = [box EXCEPT !.hideTimer = TRUE, !.lostHides = hides] /\ frame' = frame
    BY <1>4 DEF MouseOut, OnSearchSelectHide, Panel
  <2>2. hides \in Nat
    BY <1>0 DEF Sound, Typed, Count
  <2> HIDE DEF hides
  <2>3. IsBox(box') /\ Kept(box, box') /\ box'.select = box.select /\ box'.lostHides = hides
    BY <1>0, <2>1 DEF Sound, IsBox, Kept
  <2>4. box'.select \in BOOLEAN /\ box'.lostHides \in Nat
    BY <1>0, <2>2, <2>3 DEF Sound, Typed
  <2>5. Sound(box', frame)
    BY <1>0, <2>3, <2>4, KeptSound
  <2> QED
    BY <1>0, <2>1, <2>5
<1>5. ASSUME NEW s \in Sections, ClickSelectItem(s)
      PROVE  Sound(box', frame') /\ FrameFine(frame')
  <2>1. s \in 0 .. ItemCount
    BY ContentAssumption, SMT
  <2> DEFINE moved == MoveFocus(box, Select)
  <2>2. Sound(moved, frame)
    BY <1>0, MoveFocusSound
  <2>3. box' = OnSelectItem(moved, s) /\ frame' = frame
    BY <1>5 DEF ClickSelectItem, Panel
  <2> HIDE DEF moved
  <2> QED
    BY <1>0, <2>1, <2>2, <2>3, OnSelectItemSound
<1>6. ASSUME NEW i, ClickRow(i)
      PROVE  Sound(box', frame') /\ FrameFine(frame')
  <2>1. box' = MoveFocus(box, Item(i)) /\ frame' = Toggle(frame, i)
    BY <1>6 DEF ClickRow, Panel
  <2>2. FrameFine(frame') /\ SamePage(frame, frame')
    BY <1>0, <2>1, ToggleIs
  <2> QED
    BY <1>0, <2>1, <2>2, MoveFocusSound, FrameSound DEF SamePage
<1> QED
  BY <1>1, <1>2, <1>3, <1>4, <1>5, <1>6 DEF MouseEvent, ClickField, ClickElsewhere, Panel

LEMMA DelayedEventsSearch ==
  ASSUME SearchInv, Delayed
  PROVE  Sound(box', frame') /\ FrameFine(frame')
<1>0. Sound(box, frame) /\ FrameFine(frame) /\ IsBox(box)
  BY DEF SearchInv, Sound
<1>1. ASSUME NEW b, IsBox(b), Typed(b), b.popup = box.popup, b.loading = box.loading,
             b.lastSearchValue = box.lastSearchValue, box' = Search(b), frame' = frame
      PROVE  Sound(box', frame') /\ FrameFine(frame')
  <2>1. b.popup => \E s \in Sections : Found(b, frame, s)
    BY <1>0, <1>1 DEF Sound, CatchesUp, Found
  <2> QED
    BY <1>0, <1>1, <2>1, SearchSound
<1>2. CASE SearchTimer
  <2> DEFINE b == [box EXCEPT !.keyTimer = FALSE]
  <2>1. box' = Search(b) /\ frame' = frame
    BY <1>2 DEF SearchTimer, Panel
  <2>2. /\ IsBox(b) /\ b.value = box.value /\ b.popup = box.popup /\ b.select = box.select
        /\ b.lastSearchValue = box.lastSearchValue /\ b.searchIndex = box.searchIndex
        /\ b.keyTimer = FALSE /\ b.lostSearches = box.lostSearches
        /\ b.lostHides = box.lostHides /\ b.loading = box.loading
    <3>1. b = [box EXCEPT !.keyTimer = FALSE]
      OBVIOUS
    <3> HIDE DEF b
    <3> QED
      BY <1>0, <3>1 DEF IsBox
  <2> HIDE DEF b
  <2>3. Typed(b)
    BY <1>0, <2>2 DEF Sound, Typed
  <2> QED
    BY <1>1, <2>1, <2>2, <2>3
<1>3. CASE LostSearchTimer
  <2> DEFINE left == box.lostSearches - 1
             b    == [box EXCEPT !.lostSearches = left]
  <2>1. box' = Search(b) /\ frame' = frame /\ box.lostSearches > 0
    BY <1>3 DEF LostSearchTimer, Panel
  <2>2. left \in Nat
    BY <1>0, <2>1 DEF Sound, Typed
  <2> HIDE DEF left
  <2>3. /\ IsBox(b) /\ b.value = box.value /\ b.popup = box.popup /\ b.select = box.select
        /\ b.lastSearchValue = box.lastSearchValue /\ b.searchIndex = box.searchIndex
        /\ b.keyTimer = box.keyTimer /\ b.lostSearches = left
        /\ b.lostHides = box.lostHides /\ b.loading = box.loading
    BY <1>0 DEF IsBox
  <2> HIDE DEF b
  <2>4. Typed(b)
    BY <1>0, <2>2, <2>3 DEF Sound, Typed
  <2> QED
    BY <1>1, <2>1, <2>3, <2>4
<1>4. CASE HideTimer
  <2> DEFINE b == [box EXCEPT !.hideTimer = FALSE]
  <2>1. box' = CloseSelectionWindow(b) /\ frame' = frame
    BY <1>4 DEF HideTimer, Panel
  <2>2. IsBox(b) /\ Kept(box, b) /\ b.select = box.select /\ b.lostHides = box.lostHides
    <3>1. b = [box EXCEPT !.hideTimer = FALSE]
      OBVIOUS
    <3> HIDE DEF b
    <3> QED
      BY <1>0, <3>1 DEF IsBox, Kept
  <2> HIDE DEF b
  <2>3. Sound(b, frame)
    BY <1>0, <2>2, KeptSound DEF Sound, Typed
  <2> QED
    BY <1>0, <2>1, <2>3, CloseSelectionWindowSound
<1>5. CASE PageLoads
  <2> DEFINE place == IF InFrame THEN Nowhere ELSE box.focus
             none  == {}
  <2>1. PICK next \in box.loading : frame' = Loaded(next.page, next.query)
    BY <1>5 DEF PageLoads
  <2>2. box' = [box EXCEPT !.loading = none, !.focus = place]
    BY <1>5 DEF PageLoads, Panel
  <2> HIDE DEF place
  <2>3. /\ IsBox(box') /\ box'.value = box.value /\ box'.popup = box.popup
        /\ box'.select = box.select /\ box'.owed = box.owed
        /\ box'.lastSearchValue = box.lastSearchValue /\ box'.searchIndex = box.searchIndex
        /\ box'.keyTimer = box.keyTimer /\ box'.lostSearches = box.lostSearches
        /\ box'.lostHides = box.lostHides /\ box'.loading = {}
    BY <1>0, <2>2 DEF IsBox
  <2>4. Typed(box')
    BY <1>0, <2>3 DEF Sound, Typed
  <2>5. next.page \in Pages /\ next.query \in Seq(Chars)
    BY <1>0, <2>1 DEF Sound, Typed
  <2>6. /\ FrameFine(frame') /\ frame'.page = next.page
        /\ frame'.shown = Loaded(next.page, next.query).shown
    BY <2>1, <2>5, LoadedIs
  <2>7. ASSUME NEW s, Found(box, frame, s) PROVE Found(box', frame', s)
    <3> DEFINE t    == box.lastSearchValue
               page == ResultsPage(s, t)
    <3>1. box.loading = {[page |-> page, query |-> t]}
      BY <2>1, <2>7 DEF Found
    <3>2. next = [page |-> page, query |-> t]
      BY <2>1, <3>1
    <3>3. next.page = page /\ next.query = t
      BY <3>2
    <3> HIDE DEF page, t
    <3>4. frame'.page = page /\ frame'.shown = Loaded(page, t).shown
      BY <2>6, <3>3
    <3> QED
      BY <2>3, <3>4 DEF Found, page, t
  <2>8. CatchesUp(box', frame')
    BY <1>0, <2>3, <2>7 DEF Sound, CatchesUp, TextSeen, InSection, SearchThrows
  <2> QED
    BY <2>3, <2>4, <2>6, <2>8 DEF Sound
<1> QED
  BY <1>2, <1>3, <1>4, <1>5 DEF Delayed

\* The bound, the pointer and the key held.
LEMMA Others ==
  ASSUME SearchInv, Next
  PROVE  /\ box'.lostSearches <= MaxLost
         /\ hover' \in BOOLEAN /\ down' \in Keys \cup {"none", "text"}
<1>0. box.lostSearches <= MaxLost /\ hover \in BOOLEAN /\ down \in Keys \cup {"none", "text"}
  BY DEF SearchInv
<1>1. ASSUME NEW b, Panel(b)
      PROVE  box'.lostSearches <= MaxLost
  BY <1>1 DEF Panel
<1>2. CASE KeyEvent
  <2>1. ASSUME NEW t, Type(t)
        PROVE  (\E b : Panel(b)) /\ hover' = hover /\ down' = "text"
    BY <2>1 DEF Type, Press
  <2>2. ASSUME NEW shift, FieldKeyUp(shift)
        PROVE  (\E b : Panel(b)) /\ hover' = hover /\ down' = "none"
    BY <2>2 DEF FieldKeyUp
  <2>3. ASSUME NEW key \in Keys, SelectKeyDown(key)
        PROVE  (\E b : Panel(b)) /\ hover' = hover /\ down' \in Keys
    BY <2>3 DEF SelectKeyDown, Press
  <2>4. ASSUME NEW type, NEW key, FrameKey(type, key)
        PROVE  (\E b : Panel(b)) /\ hover' = hover
    BY <2>4 DEF FrameKey
  <2>5. ASSUME NEW key \in Keys, FrameKeyDown(key) \/ FrameKeyPress(key) \/ FrameKeyUp(key)
        PROVE  (\E b : Panel(b)) /\ hover' = hover /\ down' \in Keys \cup {"none"}
    BY <2>4, <2>5 DEF FrameKeyDown, FrameKeyPress, FrameKeyUp, Press
  <2>6. ASSUME NEW key \in Keys, FieldKeyDown(key)
        PROVE  box' = box /\ hover' = hover /\ down' \in Keys
    BY <2>6 DEF FieldKeyDown, Press
  <2>7. CASE FrameEnter \/ KeyUpUnheard
    BY <1>0, <2>7 DEF FrameEnter, KeyUpUnheard, Press, Keys
  <2> QED
    BY <1>0, <1>1, <1>2, <2>1, <2>2, <2>3, <2>5, <2>6, <2>7 DEF KeyEvent
<1>3. CASE MouseEvent
  <2>1. (\E b : Panel(b)) /\ hover' \in BOOLEAN /\ down' = down
    <3>1. CASE ClickField \/ ClickElsewhere \/ ClickClose
      BY <1>0, <3>1 DEF ClickField, ClickElsewhere, ClickClose
    <3>2. CASE MouseOver \/ MouseOut
      BY <3>2 DEF MouseOver, MouseOut
    <3>3. ASSUME NEW i, ClickRow(i) \/ ClickSelectItem(i)
          PROVE  (\E b : Panel(b)) /\ hover' = hover /\ down' = down
      BY <3>3 DEF ClickRow, ClickSelectItem
    <3> QED
      BY <1>0, <1>3, <3>1, <3>2, <3>3 DEF MouseEvent
  <2> QED
    BY <1>0, <1>1, <2>1
<1>4. CASE Delayed
  <2>1. (\E b : Panel(b)) /\ hover' = hover /\ down' = down
    BY <1>4 DEF Delayed, SearchTimer, LostSearchTimer, HideTimer, PageLoads
  <2> QED
    BY <1>0, <1>1, <2>1
<1> QED
  BY <1>2, <1>3, <1>4 DEF Next

LEMMA SearchInvariant == Spec => []SearchInv
<1>1. Init => SearchInv
  BY InitSearch
<1>2. SearchInv /\ [Next]_vars => SearchInv'
  <2>1. ASSUME SearchInv, Next PROVE SearchInv'
    <3>1. Sound(box', frame') /\ FrameFine(frame')
      BY <2>1, KeyEventsSearch, MouseEventsSearch, DelayedEventsSearch DEF Next
    <3> QED
      BY <2>1, <3>1, Others DEF SearchInv
  <2>2. ASSUME SearchInv, UNCHANGED vars PROVE SearchInv'
    BY <2>2 DEF SearchInv, vars
  <2> QED
    BY <2>1, <2>2
<1> QED
  BY <1>1, <1>2, PTL DEF Spec

-----------------------------------------------------------------------------

\* The section chosen is a section or the place after the last one, to which Down
\* goes in the list; the text is one typed, the label or nothing; and the frame has
\* a page of search data, or one that lists nothing (OnSearchSelectKey, Activate
\* and Search of search.js).
THEOREM PanelTyped == Spec => []TypeOK
<1>1. SearchInv => TypeOK
  <2> SUFFICES ASSUME SearchInv PROVE TypeOK
    OBVIOUS
  <2>1. Typed(box) /\ IsBox(box) /\ FrameFine(frame) /\ box.lostSearches <= MaxLost
        /\ hover \in BOOLEAN /\ down \in Keys \cup {"none", "text"}
    BY DEF SearchInv, Sound
  <2>2. box.lostSearches \in 0 .. MaxLost
    BY <2>1, TextAssumption DEF Typed
  <2>3. \A flag \in {box.boxActive, box.popup, box.close, box.select, box.searchActive,
                     box.keyTimer, box.hideTimer, hover, frame.repeatOn} : flag \in BOOLEAN
    BY <2>1 DEF Typed, IsBox, FrameFine
  <2>4. frame.page \in DOMAIN Rows \cup {Blank, NoMatches} /\ frame.lastKey \in Keys \cup {"none"}
    BY <2>1 DEF FrameFine, Pages
  <2> QED
    BY <2>1, <2>2, <2>3, <2>4 DEF TypeOK, Typed
<1> QED
  BY <1>1, SearchInvariant, PTL

\* When nothing is under way the results displayed are those for the text in the
\* field in the section chosen, whatever the order in which keys, timers and pages
\* came (OnSearchFieldChange, Search and OnSelectItem of search.js).
THEOREM ResultsAreThose == Spec => []ResultsCatchUp
<1>1. SearchInv => ResultsCatchUp
  <2> SUFFICES ASSUME SearchInv, Quiet, box.popup, ~SearchThrows(box),
                      Strip(box.value) # <<>>, ~Spaced(box.value)
               PROVE  LET t    == Strip(box.value)
                          page == ResultsPage(box.searchIndex, t)
                      IN  frame.page = page /\ frame.shown = Loaded(page, t).shown
    BY DEF ResultsCatchUp
  <2> DEFINE w == Strip(box.value)
             l == StripLeading(box.value)
             t == box.lastSearchValue
             s == box.searchIndex
  <2>1. Sound(box, frame) /\ Typed(box) /\ box.value \in Seq(Chars)
    BY ValueIs DEF SearchInv, Sound
  <2>2. t = w \/ t = l
    BY <2>1 DEF Sound, CatchesUp, TextSeen, Quiet
  <2>3. Found(box, frame, s)
    BY <2>1 DEF Sound, CatchesUp, InSection, Quiet
  <2>4. frame.page = ResultsPage(s, t) /\ frame.shown = Loaded(ResultsPage(s, t), t).shown
    BY <2>3 DEF Found, Quiet
  <2>5. w = StripTrailing(l) /\ w # <<>>
    BY DEF Spaced
  <2>6. ResultsPage(s, w) = ResultsPage(s, l) /\ SearchId(w) = SearchId(l)
    BY <2>1, <2>5, SameSearch
  <2>7. ResultsPage(s, t) = ResultsPage(s, w) /\ SearchId(t) = SearchId(w)
    BY <2>2, <2>6
  <2> HIDE DEF w, l, t, s
  <2>8. \A page : Matches(page, t) = Matches(page, w)
    BY <2>7 DEF Matches
  <2>9. \A page : Loaded(page, t).shown = Loaded(page, w).shown
    BY <2>8 DEF Loaded, FrameOf
  <2> QED
    BY <2>4, <2>7, <2>9 DEF w, s
<1> QED
  BY <1>1, SearchInvariant, PTL

\* In every results page Down and Up walk through the lines displayed, for every
\* sorted list of rows (Nav, NavChild, NavNext and NavPrev of search.js).
THEOREM LinesWalked == Spec => []KeysWalkLines
<1>1. SearchInv => KeysWalkLines
  <2>1. SearchInv /\ HasResults(frame) => Walks(frame)
    BY ResultsWalk DEF SearchInv, FrameFine
  <2> QED
    BY <2>1 DEF KeysWalkLines, Walks
<1> QED
  BY <1>1, SearchInvariant, PTL
=============================================================================
