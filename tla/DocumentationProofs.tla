-------------------------- MODULE DocumentationProofs --------------------------
(***************************************************************************)
(* Proofs about a page of the documentation.                               *)
(*                                                                         *)
(* The search panel, for every number of results, children and filters and *)
(* every set of texts: the first part is about moving on a page of         *)
(* results, the second about the handlers, the third about the steps of    *)
(* the panel.                                                              *)
(*                                                                         *)
(* The table, for every tree of rows.  That the icons tell the truth is    *)
(* inductive as it stands: that icons of hidden rows may be wrong does no  *)
(* harm, because a row that appears appears folded.  That the stripes      *)
(* alternate rests on the order of the rows: it is strict and total, so of *)
(* two neighbours one has just one row more before it.                     *)
(***************************************************************************)
EXTENDS SearchPanel, DirectoryTree, FiniteSetTheorems, WellFoundedInduction, TLAPS

-----------------------------------------------------------------------------
(* Moving on a page of results                                             *)

(* A set of numbers that is not empty has a least element.                  *)
LEMMA HasLeast ==
  ASSUME NEW S, S \subseteq Nat, S # {}
  PROVE  \E m \in S : \A k \in S : m <= k
<1>1. PICK m \in S : \A k \in S : <<k, m>> \notin OpToRel(<, Nat)
  BY WFMin, NatLessThanWellFounded, Zenon
<1>2. \A k \in S : ~(k < m)
  BY <1>1, Zenon DEF OpToRel
<1>3. \A k \in S : m <= k
  BY <1>2
<1> QED
  BY <1>3

(* The first displayed item from i on is displayed; it is item i if the     *)
(* one before it is displayed.                                              *)
LEMMA NavNextIsNext ==
  ASSUME NEW shown \in SUBSET Items, NEW i \in Nat, Contiguous(shown),
         NavNext(shown, i) # Nowhere
  PROVE  \E j \in shown : /\ NavNext(shown, i) = <<j, 0>>
                          /\ i - 1 \in shown => j = i
<1>1. shown \subseteq Nat /\ NumItems \in Nat
  BY SearchResultsAssumption DEF Items
<1> DEFINE From == {j \in shown : j >= i}
<1>2. From # {}
  BY DEF NavNext
<1>3. PICK m \in From : \A k \in From : m <= k
  BY <1>1, <1>2, HasLeast
<1> DEFINE FirstFrom(j) == j >= i /\ \A k \in shown : k >= i => j <= k
<1>4. m \in shown /\ FirstFrom(m)
  BY <1>3
<1>5. \A j \in shown : FirstFrom(j) => j = m
  BY <1>1, <1>4
<1>6. NavNext(shown, i) = <<CHOOSE j \in shown : FirstFrom(j), 0>>
  BY <1>2 DEF NavNext
<1>7. NavNext(shown, i) = <<m, 0>>
  BY <1>4, <1>5, <1>6
<1>8. ASSUME i - 1 \in shown
      PROVE  m = i
  <2>1. i - 1 <= i /\ i <= m /\ i \in Items
    BY <1>1, <1>4, <1>8 DEF Items
  <2>2. i \in shown
    BY <1>4, <1>8, <2>1 DEF Contiguous
  <2> QED
    BY <1>1, <1>4, <2>2
<1> QED
  BY <1>4, <1>7, <1>8

(* The last displayed item up to i, if i is displayed or comes just before  *)
(* one that is.                                                             *)
LEMMA NavPrevIsPrevious ==
  ASSUME NEW shown \in SUBSET Items, NEW i \in Int, Contiguous(shown),
         i \in shown \/ i + 1 \in shown
  PROVE  NavPrev(shown, i) = IF i \in shown THEN <<i, 0>> ELSE Nowhere
<1>1. shown \subseteq Nat /\ NumItems \in Nat
  BY SearchResultsAssumption DEF Items
<1>2. CASE i \in shown
  <2> DEFINE LastUpTo(j) == j <= i /\ \A k \in shown : k <= i => j >= k
  <2>1. \A j \in shown : LastUpTo(j) => j = i
    BY <1>1, <1>2
  <2>2. LastUpTo(i)
    BY <1>1
  <2>3. (CHOOSE j \in shown : LastUpTo(j)) = i
    BY <1>2, <2>1, <2>2
  <2>4. NavPrev(shown, i) = <<CHOOSE j \in shown : LastUpTo(j), 0>>
    BY <1>2, <2>2 DEF NavPrev
  <2> QED
    BY <1>2, <2>3, <2>4
<1>3. CASE i \notin shown /\ i + 1 \in shown
  <2>1. \A j \in shown : ~(j <= i)
    <3> SUFFICES ASSUME NEW j \in shown, j <= i
                 PROVE  FALSE
      OBVIOUS
    <3>1. j <= i /\ i <= i + 1 /\ i \in Items
      BY <1>1, <1>3 DEF Items
    <3> QED
      BY <1>3, <3>1 DEF Contiguous
  <2> QED
    BY <1>3, <2>1 DEF NavPrev
<1> QED
  BY <1>2, <1>3

(* What is displayed is a position of a displayed item.                     *)
LEMMA DisplayedPosition ==
  ASSUME NEW shown \in SUBSET Items, NEW open \in SUBSET Lists,
         NEW p \in Displayed(shown, open)
  PROVE  /\ p[1] \in shown /\ p[1] \in Nat /\ p[2] \in Nat
         /\ p = <<p[1], p[2]>> /\ p[2] <= NumChildren[p[1]]
         /\ NumChildren[p[1]] \in Nat
         /\ p[2] # 0 => p[1] \in open
<1>1. PICK i \in Items : \E c \in 0 .. NumChildren[i] : p = <<i, c>>
  BY DEF Displayed, Positions
<1>2. i \in Nat /\ NumChildren[i] \in Nat
  BY SearchResultsAssumption DEF Items
<1> QED
  BY <1>1, <1>2 DEF Displayed

(* A position of a displayed item is displayed if its list is open.         *)
LEMMA DisplayedIs ==
  ASSUME NEW shown \in SUBSET Items, NEW open \in SUBSET Lists,
         NEW i \in shown, NEW c \in Nat, c <= NumChildren[i],
         c # 0 => i \in open
  PROVE  <<i, c>> \in Displayed(shown, open)
<1>1. i \in Items /\ NumChildren[i] \in Nat
  BY SearchResultsAssumption
<1>2. <<i, c>> \in Positions
  BY <1>1 DEF Positions
<1> QED
  BY <1>2 DEF Displayed

(* Arrow up leads to a link that is displayed, if to any.                   *)
LEMMA UpIsDisplayed ==
  ASSUME NEW shown \in SUBSET Items, NEW open \in SUBSET Lists,
         Contiguous(shown), NEW p \in Displayed(shown, open),
         Up(shown, open, p) # Nowhere
  PROVE  Up(shown, open, p) \in Displayed(shown, open)
<1> DEFINE i == p[1]
<1>1. /\ i \in shown /\ i \in Nat /\ p[2] \in Nat /\ p[2] <= NumChildren[i]
      /\ p[2] # 0 => i \in open
  BY DisplayedPosition
<1>2. CASE p[2] > 0
  <2>1. Up(shown, open, p) = <<i, p[2] - 1>>
    BY <1>2 DEF Up
  <2>2. p[2] - 1 \in Nat /\ p[2] - 1 <= NumChildren[i] /\ i \in open
    BY <1>1, <1>2, SearchResultsAssumption
  <2> QED
    BY <1>1, <2>1, <2>2, DisplayedIs
<1>3. CASE ~(p[2] > 0)
  <2>1. NavPrev(shown, i - 1) = IF i - 1 \in shown THEN <<i - 1, 0>> ELSE Nowhere
    BY <1>1, NavPrevIsPrevious
  <2>2. i - 1 \in shown /\ NavPrev(shown, i - 1) = <<i - 1, 0>>
    BY <1>3, <2>1 DEF Up, Nowhere
  <2>3. NumChildren[i - 1] \in Nat
    BY <2>2, SearchResultsAssumption
  <2>4. CASE i - 1 \in open /\ NumChildren[i - 1] > 0
    <3>1. Up(shown, open, p) = <<i - 1, NumChildren[i - 1]>>
      BY <1>1, <1>3, <2>2, <2>4 DEF Up, Nowhere
    <3> DEFINE last == NumChildren[i - 1]
    <3>2. last \in Nat /\ last <= NumChildren[i - 1]
      BY <2>3
    <3>3. <<i - 1, last>> \in Displayed(shown, open)
      <4> HIDE DEF last
      <4> QED
        BY <2>2, <2>4, <3>2, DisplayedIs
    <3> QED
      BY <3>1, <3>3
  <2>5. CASE ~(i - 1 \in open /\ NumChildren[i - 1] > 0)
    <3>1. Up(shown, open, p) = <<i - 1, 0>>
      BY <1>3, <2>2, <2>5 DEF Up
    <3>2. 0 \in Nat /\ 0 <= NumChildren[i - 1]
      BY <2>3
    <3>3. <<i - 1, 0>> \in Displayed(shown, open)
      BY <2>2, <3>2, DisplayedIs
    <3> QED
      BY <3>1, <3>3
  <2> QED
    BY <2>4, <2>5
<1> QED
  BY <1>1, <1>2, <1>3

(* Arrow down leads to a link that is displayed, if to any, from where      *)
(* arrow up leads back.                                                     *)
LEMMA DownIsUndone ==
  ASSUME NEW shown \in SUBSET Items, NEW open \in SUBSET Lists,
         Contiguous(shown), NEW p \in Displayed(shown, open),
         Down(shown, open, p) # Nowhere
  PROVE  /\ Down(shown, open, p) \in Displayed(shown, open)
         /\ Up(shown, open, Down(shown, open, p)) = p
<1> DEFINE i == p[1]
           c == p[2]
           n == NumChildren[i]
           inside == (c = 0 /\ i \in open /\ n > 0) \/ (c # 0 /\ c < n)
<1>1. /\ i \in shown /\ i \in Nat /\ c \in Nat /\ c <= n /\ n \in Nat
      /\ p = <<i, c>> /\ (c # 0 => i \in open)
  BY DisplayedPosition
<1>2. CASE inside
  <2>1. Down(shown, open, p) = <<i, c + 1>>
    BY <1>2 DEF Down
  <2>2. c + 1 \in Nat /\ c + 1 <= n /\ i \in open /\ c + 1 > 0
    BY <1>1, <1>2
  <2>3. Up(shown, open, <<i, c + 1>>) = <<i, c + 1 - 1>>
    BY <1>1, <2>2 DEF Up
  <2>4. c + 1 - 1 = c
    BY <1>1
  <2>5. <<i, c + 1>> \in Displayed(shown, open)
    BY <1>1, <2>2, DisplayedIs
  <2>6. Up(shown, open, <<i, c + 1>>) = p
    BY <1>1, <2>3, <2>4
  <2> QED
    BY <2>1, <2>5, <2>6
<1>3. CASE ~inside
  <2>1. Down(shown, open, p) = NavNext(shown, i + 1)
    BY <1>1, <1>3 DEF Down
  <2>2. i + 1 \in Nat /\ i + 1 - 1 = i
    BY <1>1
  <2>3. PICK j \in shown : NavNext(shown, i + 1) = <<j, 0>> /\ j = i + 1
    BY <1>1, <2>1, <2>2, NavNextIsNext
  <2>4. Down(shown, open, p) = <<i + 1, 0>> /\ i + 1 \in shown
    BY <2>1, <2>3
  <2>5. <<i + 1, 0>> \in Displayed(shown, open)
    <3>1. 0 <= NumChildren[i + 1]
      BY <2>4, SearchResultsAssumption
    <3> QED
      BY <2>4, <3>1, DisplayedIs
  <2>6. NavPrev(shown, i) = <<i, 0>>
    BY <1>1, NavPrevIsPrevious
  <2>7. <<i, 0>> # Nowhere
    BY <1>1 DEF Nowhere
  <2>8. Up(shown, open, <<i + 1, 0>>) =
          IF i \in open /\ n > 0 THEN <<i, n>> ELSE <<i, 0>>
    BY <1>1, <2>2, <2>6, <2>7 DEF Up
  <2>9. IF i \in open /\ n > 0 THEN c = n ELSE c = 0
    BY <1>1, <1>3
  <2>10. Up(shown, open, <<i + 1, 0>>) = p
    BY <1>1, <2>8, <2>9
  <2> QED
    BY <2>4, <2>5, <2>10
<1> QED
  BY <1>2, <1>3

-----------------------------------------------------------------------------
(* The handlers                                                            *)

Reset(b) == ~b.active /\ b.value = Label /\ ~b.searchActive
            /\ b.lastSearchValue = <<>>

(* What holds between any two calls: the type, the timer of the popup, and  *)
(* the reset of a panel nobody uses.                                        *)
Settled(b) ==
  /\ b \in Panels
  /\ b.hideTimers <= 1
  /\ b.pointer # "away" => b.hideTimers = 0
  /\ b.focus.at # "field" /\ ~b.resultsShown => Reset(b)

(* What holds between any two steps: the focus is in an open window, too.   *)
Good(b) == Settled(b) /\ (b.focus.at = "results" => b.resultsShown)

(* The places the focus can be in, by their names.                          *)
LEMMA PlaceFacts ==
  /\ At("none") \in Places /\ At("none").at = "none"
  /\ At("field") \in Places /\ At("field").at = "field"
  /\ \A j \in Filters : /\ Filter(j) \in Places /\ Filter(j).at = "filter"
                         /\ Filter(j).item[1] = j
  /\ \A p \in Positions : /\ InResults(p) \in Places
                           /\ InResults(p).at = "results"
                           /\ InResults(p).item = p
  /\ \A f \in Places : f.at = "field" => f = At("field")
  /\ \A f \in Places : f.at = "filter" => f.item[1] \in Filters
<1>1. At("none") \in Places /\ At("field") \in Places
  BY DEF Places
<1>2. At("none").at = "none" /\ At("field").at = "field"
  BY DEF At
<1>3. ASSUME NEW j \in Filters
      PROVE  Filter(j) \in Places /\ Filter(j).at = "filter" /\ Filter(j).item[1] = j
  BY DEF Places, Filter
<1>4. ASSUME NEW p \in Positions
      PROVE  /\ InResults(p) \in Places /\ InResults(p).at = "results"
             /\ InResults(p).item = p
  BY DEF Places, InResults
<1>5. ASSUME NEW f \in Places
      PROVE  /\ f.at = "field" => f = At("field")
             /\ f.at = "filter" => f.item[1] \in Filters
  <2>1. CASE f = At("none") \/ f = At("field")
    BY <1>2, <2>1
  <2>2. CASE \E j \in Filters : f = Filter(j)
    BY <1>3, <2>2
  <2>3. CASE \E p \in Positions : f = InResults(p)
    BY <1>4, <2>3
  <2> QED
    BY <2>1, <2>2, <2>3 DEF Places
<1> QED
  BY <1>1, <1>2, <1>3, <1>4, <1>5

(* Activate, and with it everything else, leaves the window and the focus   *)
(* alone; if the window is not displayed, it resets the panel.              *)
LEMMA ActivateFacts ==
  ASSUME NEW b \in Panels, NEW isActive \in BOOLEAN
  PROVE  /\ Activate(b, isActive) \in Panels
         /\ Activate(b, isActive).focus = b.focus
         /\ Activate(b, isActive).resultsShown = b.resultsShown
         /\ Activate(b, isActive).hideTimers = b.hideTimers
         /\ Activate(b, isActive).pointer = b.pointer
         /\ ~isActive /\ ~b.resultsShown => Reset(Activate(b, isActive))
<1>1. CASE isActive \/ b.resultsShown
  BY <1>1 DEF Activate, Panels, Values
<1>2. CASE ~(isActive \/ b.resultsShown)
  BY <1>2 DEF Activate, Panels, Values, Searched, Reset
<1> QED
  BY <1>1, <1>2

(* Wherever the focus moves, the panel is good if the focus may be there.   *)
LEMMA MoveFocusGood ==
  ASSUME NEW b, Settled(b), NEW to \in Places,
         to.at = "results" => b.resultsShown
  PROVE  /\ Good(MoveFocus(b, to))
         /\ MoveFocus(b, to).focus = to
         /\ MoveFocus(b, to).resultsShown = b.resultsShown
<1> DEFINE left == IF b.focus = At("field") /\ to # b.focus
                   THEN Activate(b, FALSE) ELSE b
           moved == [left EXCEPT !.focus = to]
<1>1. b \in Panels
  BY DEF Settled
<1>2. /\ left \in Panels /\ left.resultsShown = b.resultsShown
      /\ left.hideTimers = b.hideTimers /\ left.pointer = b.pointer
  BY <1>1, ActivateFacts
<1>3. to.at # "field" /\ ~b.resultsShown => Reset(left)
  <2> SUFFICES ASSUME to.at # "field", ~b.resultsShown
               PROVE  Reset(left)
    OBVIOUS
  <2>1. CASE b.focus.at = "field"
    BY <1>1, <2>1, ActivateFacts, PlaceFacts DEF Panels
  <2>2. CASE b.focus.at # "field"
    BY <2>2, PlaceFacts DEF Settled
  <2> QED
    BY <2>1, <2>2
<1> HIDE DEF left
<1>4. /\ moved \in Panels /\ moved.focus = to
      /\ moved.resultsShown = b.resultsShown
      /\ moved.hideTimers = b.hideTimers /\ moved.pointer = b.pointer
      /\ Reset(left) => Reset(moved)
  BY <1>2 DEF Panels, Reset
<1> HIDE DEF moved
<1>5. MoveFocus(b, to) = IF to = At("field") /\ to # b.focus
                         THEN Activate(moved, TRUE) ELSE moved
  BY DEF MoveFocus, left, moved
<1>6. CASE to = At("field") /\ to # b.focus
  <2>1. MoveFocus(b, to) = Activate(moved, TRUE)
    BY <1>5, <1>6
  <2>2. to.at = "field"
    BY <1>6, PlaceFacts
  <2> DEFINE m == Activate(moved, TRUE)
  <2>3. /\ m \in Panels /\ m.focus = to /\ m.resultsShown = b.resultsShown
        /\ m.hideTimers = b.hideTimers /\ m.pointer = b.pointer
    BY <1>4, ActivateFacts
  <2>4. m.focus.at = "field"
    BY <2>2, <2>3
  <2> HIDE DEF m
  <2>5. Good(m)
    BY <2>3, <2>4 DEF Good, Settled
  <2> QED
    BY <2>1, <2>3, <2>5 DEF m
<1>7. CASE ~(to = At("field") /\ to # b.focus)
  BY <1>3, <1>4, <1>5, <1>7 DEF Good, Settled
<1> QED
  BY <1>6, <1>7

(* Closing the window resets the panel, wherever the focus is.              *)
LEMMA CloseResultsWindowSettled ==
  ASSUME NEW b, Settled(b)
  PROVE  Settled(CloseResultsWindow(b)) /\ CloseResultsWindow(b).focus = b.focus
<1> DEFINE closed == [b EXCEPT !.resultsShown = FALSE]
<1>1. /\ closed \in Panels /\ closed.focus = b.focus /\ ~closed.resultsShown
      /\ closed.hideTimers = b.hideTimers /\ closed.pointer = b.pointer
  BY DEF Settled, Panels
<1> HIDE DEF closed
<1>2. CloseResultsWindow(b) = Activate(closed, FALSE)
  BY DEF CloseResultsWindow, closed
<1> QED
  BY <1>1, <1>2, ActivateFacts DEF Settled

(* Closing the window and moving the focus out of it.                       *)
LEMMA CloseAndMove ==
  ASSUME NEW b, Settled(b), NEW to \in {At("none"), At("field")}
  PROVE  /\ Good(MoveFocus(CloseResultsWindow(b), to))
         /\ MoveFocus(CloseResultsWindow(b), to).focus.at # "results"
<1>1. Settled(CloseResultsWindow(b))
  BY CloseResultsWindowSettled
<1>2. to \in Places /\ to.at # "results"
  BY PlaceFacts
<1> HIDE DEF Settled
<1> QED
  BY <1>1, <1>2, MoveFocusGood

(* A search opens the window or, beyond the last filter, changes only the   *)
(* account of timers.                                                       *)
LEMMA SearchGood ==
  ASSUME NEW b, Good(b)
  PROVE  Good(Search(b)) /\ Search(b).focus = b.focus
<1> DEFINE more == b.orphans + (IF b.keyTimeout THEN 1 ELSE 0)
           c == [b EXCEPT !.keyTimeout = FALSE, !.orphans = more]
           text == StripLeading(b.value)
           page == ResultsPage(b.searchIndex, text)
           d == [c EXCEPT !.loading = page, !.resultsShown = TRUE,
                          !.lastSearchValue = text]
<1>1. b \in Panels
  BY DEF Good, Settled
<1>8. more \in Nat
  BY <1>1 DEF Panels
<1> HIDE DEF more
<1>2. /\ c \in Panels /\ c.focus = b.focus /\ c.resultsShown = b.resultsShown
      /\ c.hideTimers = b.hideTimers /\ c.pointer = b.pointer
      /\ Reset(b) => Reset(c)
  BY <1>1, <1>8 DEF Panels, Reset
<1> HIDE DEF c
<1>3. text \in Searched
  BY <1>1 DEF Panels, Searched
<1> HIDE DEF text
<1>4. page \in Pages
  BY <1>3 DEF ResultsPage, Pages
<1> HIDE DEF page
<1>5. /\ d \in Panels /\ d.focus = b.focus /\ d.resultsShown
      /\ d.hideTimers = b.hideTimers /\ d.pointer = b.pointer
  BY <1>2, <1>3, <1>4 DEF Panels
<1>6. Good(c) /\ Good(d)
  <2> HIDE DEF d
  <2> QED
    BY <1>2, <1>5 DEF Good, Settled
<1>7. Search(b) = IF Raises(b) THEN c ELSE d
  BY DEF Search, more, c, text, page
<1> QED
  <2> HIDE DEF d
  <2> QED
    BY <1>2, <1>5, <1>6, <1>7

(* Selecting a filter, with the search it makes at once.                    *)
LEMMA OnSelectItemGood ==
  ASSUME NEW b, Good(b), NEW id \in 0 .. NumFilters
  PROVE  Good(OnSelectItem(b, id)) /\ OnSelectItem(b, id).focus = b.focus
<1> DEFINE c == [b EXCEPT !.searchIndex = id]
<1>1. /\ c \in Panels /\ c.focus = b.focus /\ c.resultsShown = b.resultsShown
      /\ c.hideTimers = b.hideTimers /\ c.pointer = b.pointer
      /\ Reset(b) => Reset(c)
  BY DEF Good, Settled, Panels, Reset
<1> HIDE DEF c
<1>2. Good(c)
  BY <1>1 DEF Good, Settled
<1>3. OnSelectItem(b, id) = IF SearchesAt(c) THEN Search(c) ELSE c
  BY DEF OnSelectItem, c
<1> QED
  BY <1>1, <1>2, <1>3, SearchGood

(* Showing the popup stops the only timer there can be.                     *)
LEMMA OnSearchSelectShowGood ==
  ASSUME NEW b \in Panels, b.hideTimers <= 1,
         b.focus.at # "field" /\ ~b.resultsShown => Reset(b),
         b.focus.at = "results" => b.resultsShown
  PROVE  /\ Good(OnSearchSelectShow(b))
         /\ OnSearchSelectShow(b).focus = b.focus
<1> DEFINE left == IF b.hideTimers > 0 THEN b.hideTimers - 1 ELSE 0
           c == [b EXCEPT !.selectShown = TRUE, !.hideTimers = left]
<1>1. b.hideTimers \in Nat
  BY DEF Panels
<1>2. left = 0
  BY <1>1
<1>3. OnSearchSelectShow(b) = c
  BY DEF OnSearchSelectShow
<1> HIDE DEF left
<1>4. /\ c \in Panels /\ c.focus = b.focus /\ c.resultsShown = b.resultsShown
      /\ c.hideTimers = 0
      /\ Reset(b) => Reset(c)
  BY <1>2 DEF Panels, Reset
<1> HIDE DEF c
<1>5. Good(c)
  BY <1>4 DEF Good, Settled
<1> QED
  BY <1>3, <1>4, <1>5

(* Hiding the popup takes focus and pointer away from it, and from nothing  *)
(* else.                                                                    *)
LEMMA CloseSelectionWindowGood ==
  ASSUME NEW b, Good(b)
  PROVE  /\ Good(CloseSelectionWindow(b))
         /\ CloseSelectionWindow(b).focus.at = "results" =>
              CloseSelectionWindow(b).focus = b.focus
<1> DEFINE focus == IF b.focus.at = "filter" THEN At("none") ELSE b.focus
           pointer == IF b.pointer = "popup" THEN "away" ELSE b.pointer
           c == [b EXCEPT !.selectShown = FALSE, !.focus = focus,
                          !.pointer = pointer]
<1>7. /\ b \in Panels /\ b.focus \in Places
      /\ b.pointer \in {"away", "image", "popup"}
  BY DEF Good, Settled, Panels
<1>1. focus \in Places /\ (focus.at = "results" => focus = b.focus)
  BY <1>7, PlaceFacts
<1>2. /\ pointer \in {"away", "image", "popup"}
      /\ (pointer # "away" => b.pointer # "away")
  BY <1>7
<1> HIDE DEF focus, pointer
<1>3. /\ c \in Panels /\ c.focus = focus /\ c.pointer = pointer
      /\ c.resultsShown = b.resultsShown /\ c.hideTimers = b.hideTimers
      /\ Reset(b) => Reset(c)
  BY <1>1, <1>2 DEF Good, Settled, Panels, Reset
<1>4. CloseSelectionWindow(b) = c
  BY DEF CloseSelectionWindow, c, focus, pointer
<1> HIDE DEF c
<1>5. c.focus.at # "field" /\ ~c.resultsShown => Reset(c)
  <2> SUFFICES ASSUME c.focus.at # "field", ~c.resultsShown
               PROVE  Reset(c)
    OBVIOUS
  <2>1. b.focus.at # "field"
    BY <1>3, PlaceFacts DEF focus
  <2> QED
    BY <1>3, <2>1 DEF Good, Settled
<1>6. Good(c)
  BY <1>1, <1>2, <1>3, <1>5 DEF Good, Settled
<1> QED
  BY <1>1, <1>3, <1>4, <1>6

(* A key in the popup never moves the focus into the window.                *)
LEMMA OnSearchSelectKeyGood ==
  ASSUME NEW b, Good(b), b.focus.at = "filter", NEW key
  PROVE  /\ Good(OnSearchSelectKey(b, key))
         /\ OnSearchSelectKey(b, key).focus.at # "results"
<1> DEFINE selected == OnSelectItem(b, b.searchIndex)
           closed == MoveFocus(CloseSelectionWindow(selected), At("field"))
<1>1. /\ b.searchIndex \in 0 .. NumFilters /\ NumFilters \in Nat
      /\ b.focus.item[1] \in 0 .. NumFilters
  BY PlaceFacts, SearchPanelAssumption DEF Good, Settled, Panels, Filters
<1>2. Good(selected) /\ selected.focus = b.focus
  BY <1>1, OnSelectItemGood
<1>3. Good(closed) /\ closed.focus.at # "results"
  <2>1. Good(CloseSelectionWindow(selected))
    BY <1>2, CloseSelectionWindowGood
  <2>2. Settled(CloseSelectionWindow(selected))
    BY <2>1 DEF Good
  <2> QED
    BY <2>2, MoveFocusGood, PlaceFacts
<1> DEFINE again == OnSelectItem(selected, b.focus.item[1])
<1>4. Good(again) /\ again.focus = b.focus
  BY <1>1, <1>2, OnSelectItemGood
<1>5. ASSUME key = "down", b.searchIndex < NumFilters
      PROVE  /\ Good(OnSelectItem(b, b.searchIndex + 1))
             /\ OnSelectItem(b, b.searchIndex + 1).focus = b.focus
  <2>1. b.searchIndex + 1 \in 0 .. NumFilters
    BY <1>1, <1>5
  <2> QED
    BY <2>1, OnSelectItemGood
<1>6. ASSUME key = "up", b.searchIndex > 0
      PROVE  /\ Good(OnSelectItem(b, b.searchIndex - 1))
             /\ OnSelectItem(b, b.searchIndex - 1).focus = b.focus
  <2>1. b.searchIndex - 1 \in 0 .. NumFilters
    BY <1>1, <1>6
  <2> QED
    BY <2>1, OnSelectItemGood
<1>7. CASE key = "down" /\ b.searchIndex < NumFilters
  <2>1. OnSearchSelectKey(b, key) = OnSelectItem(b, b.searchIndex + 1)
    BY <1>7 DEF OnSearchSelectKey
  <2> QED
    BY <1>5, <1>7, <2>1
<1>8. CASE key = "up" /\ b.searchIndex > 0
  <2>1. OnSearchSelectKey(b, key) = OnSelectItem(b, b.searchIndex - 1)
    BY <1>8 DEF OnSearchSelectKey
  <2> QED
    BY <1>6, <1>8, <2>1
<1>9. CASE key \in {"enter", "escape"}
  <2>1. OnSearchSelectKey(b, key) =
          IF ~(SearchesAt(b) /\ Raises(b)) THEN closed
          ELSE IF key = "enter" THEN again ELSE selected
    BY <1>9 DEF OnSearchSelectKey
  <2> HIDE DEF closed, again, selected
  <2> QED
    BY <1>2, <1>3, <1>4, <2>1
<1>10. CASE /\ ~(key = "down" /\ b.searchIndex < NumFilters)
            /\ ~(key = "up" /\ b.searchIndex > 0)
            /\ key \notin {"enter", "escape"}
  <2>1. OnSearchSelectKey(b, key) = b
    BY <1>10 DEF OnSearchSelectKey
  <2> QED
    BY <2>1
<1> QED
  BY <1>7, <1>8, <1>9, <1>10

(* Comparing what is entered with what was searched.                        *)
LEMMA CompareValueGood ==
  ASSUME NEW b, Good(b), b.focus.at = "field"
  PROVE  Good(CompareValue(b)) /\ CompareValue(b).focus = b.focus
<1> DEFINE text == NoSpaces(b.value)
           due == [b EXCEPT !.keyTimeout = TRUE]
           emptied == [b EXCEPT !.resultsShown = FALSE, !.lastSearchValue = <<>>]
<1>1. b \in Panels
  BY DEF Good, Settled
<1>2. /\ due \in Panels /\ due.focus = b.focus
      /\ due.hideTimers = b.hideTimers /\ due.pointer = b.pointer
  BY <1>1 DEF Panels
<1>3. /\ emptied \in Panels /\ emptied.focus = b.focus
      /\ emptied.hideTimers = b.hideTimers /\ emptied.pointer = b.pointer
  BY <1>1 DEF Panels, Searched
<1> HIDE DEF due, emptied
<1>4. Good(due) /\ Good(emptied)
  BY <1>2, <1>3 DEF Good, Settled
<1>5. CompareValue(b) = IF text = b.lastSearchValue THEN b
                        ELSE IF text # <<>> THEN due ELSE emptied
  BY DEF CompareValue, due, emptied
<1> QED
  BY <1>2, <1>3, <1>4, <1>5

(* A key in the field never moves the focus into the window by itself.      *)
LEMMA OnSearchFieldChangeGood ==
  ASSUME NEW b, Good(b), b.focus.at = "field", NEW key
  PROVE  /\ Good(OnSearchFieldChange(b, key))
         /\ OnSearchFieldChange(b, key).focus.at # "results"
<1> DEFINE c == [b EXCEPT !.keyTimeout = FALSE]
           asked == [c EXCEPT !.takeFocus = TRUE]
           left == MoveFocus(c, At("none"))
           hidden == [left EXCEPT !.resultsShown = FALSE,
                                  !.lastSearchValue = <<>>]
<1>1. b \in Panels
  BY DEF Good, Settled
<1>2. /\ c \in Panels /\ c.focus = b.focus /\ c.resultsShown = b.resultsShown
      /\ c.hideTimers = b.hideTimers /\ c.pointer = b.pointer
  BY <1>1 DEF Panels
<1>3. /\ asked \in Panels /\ asked.focus = b.focus
      /\ asked.hideTimers = b.hideTimers /\ asked.pointer = b.pointer
  BY <1>2 DEF Panels
<1> HIDE DEF c, asked
<1>4. Good(c) /\ Good(asked) /\ Settled(c)
  BY <1>2, <1>3 DEF Good, Settled
<1>5. CASE key = "shift+down"
  <2> DEFINE s == OnSearchSelectShow(c)
  <2>1. Good(s)
    BY <1>4, OnSearchSelectShowGood DEF Good, Settled
  <2>2. 0 \in Filters
    BY SearchPanelAssumption DEF Filters
  <2>3. Filter(0) \in Places /\ Filter(0).at = "filter"
    BY <2>2, PlaceFacts
  <2>4. OnSearchFieldChange(b, key) = MoveFocus(s, Filter(0))
    BY <1>5 DEF OnSearchFieldChange, c
  <2> HIDE DEF s
  <2>5. Settled(s)
    BY <2>1 DEF Good
  <2> QED
    BY <2>3, <2>4, <2>5, MoveFocusGood
<1>6. CASE key = "escape"
  <2>1. Good(left) /\ left.focus = At("none")
    BY <1>4, MoveFocusGood, PlaceFacts
  <2> HIDE DEF left
  <2>2. /\ hidden \in Panels /\ hidden.focus = At("none")
        /\ ~hidden.resultsShown /\ hidden.hideTimers = left.hideTimers
        /\ hidden.pointer = left.pointer
    BY <2>1 DEF Good, Settled, Panels, Searched
  <2> HIDE DEF hidden
  <2> DEFINE d == Activate(hidden, FALSE)
  <2>3. /\ d \in Panels /\ d.focus = At("none") /\ Reset(d)
        /\ d.hideTimers = left.hideTimers /\ d.pointer = left.pointer
    BY <2>2, ActivateFacts
  <2>4. OnSearchFieldChange(b, key) = d
    BY <1>6 DEF OnSearchFieldChange, hidden, left, c
  <2> HIDE DEF d
  <2>5. Good(d) /\ d.focus.at # "results"
    BY <2>1, <2>3, PlaceFacts DEF Good, Settled
  <2> QED
    BY <2>4, <2>5
<1>7. CASE key \in {"down", "enter"}
  <2>1. OnSearchFieldChange(b, key) = CompareValue(asked)
    BY <1>7 DEF OnSearchFieldChange, c, asked
  <2> QED
    BY <1>3, <1>4, <2>1, CompareValueGood
<1>8. CASE key \notin {"shift+down", "escape", "down", "enter"}
  <2>1. OnSearchFieldChange(b, key) = CompareValue(c)
    BY <1>8 DEF OnSearchFieldChange, c
  <2> QED
    BY <1>2, <1>4, <2>1, CompareValueGood
<1> QED
  BY <1>5, <1>6, <1>7, <1>8

-----------------------------------------------------------------------------
(* The steps                                                               *)

DocGood(d) == d \in Docs /\ Contiguous(d.shown)

IInv ==
  /\ Good(panel)
  /\ DocGood(doc)
  /\ held \in Keys \union {NoKey}
  /\ panel.focus.at = "results" =>
       panel.focus.item \in Displayed(doc.shown, doc.open)

(* No page has been loaded in the beginning, and nothing is displayed.      *)
LEMMA EmptyDocGood == DocGood(EmptyDoc)
<1>1. NoPage = [NoPage EXCEPT !.text = <<>>]
  BY DEF NoPage
<1> QED
  BY DEF DocGood, Docs, EmptyDoc, Contiguous

(* The panel is reset in the beginning.                                     *)
LEMMA InitialPanelGood ==
  Good(InitialPanel) /\ InitialPanel.focus.at # "results"
<1>1. InitialPanel.focus = At("none") /\ At("none") \in Places
      /\ At("none").at = "none"
  BY PlaceFacts DEF InitialPanel
<1>2. 0 \in 0 .. NumFilters
  BY SearchPanelAssumption
<1>3. InitialPanel \in Panels
  BY <1>1, <1>2 DEF InitialPanel, Panels, Values, Searched, Pages
<1> QED
  BY <1>1, <1>3 DEF Good, Settled, Reset, InitialPanel

(* Following a link: the focus goes to it if it folds or unfolds a list.    *)
LEMMA FollowLinkKeeps ==
  ASSUME IInv, NEW p \in Displayed(doc.shown, doc.open), FollowLink(p),
         panel.resultsShown, held' \in Keys \union {NoKey}
  PROVE  IInv'
<1>1. p \in Positions /\ p[1] \in doc.shown
  BY DEF Displayed
<1>2. CASE p[2] = 0 /\ p[1] \in Lists
  <2> DEFINE open == IF p[1] \in doc.open THEN doc.open \ {p[1]}
                     ELSE doc.open \union {p[1]}
  <2>1. /\ doc' = [doc EXCEPT !.open = open]
        /\ panel' = [panel EXCEPT !.focus = InResults(p)]
    BY <1>2 DEF FollowLink
  <2>2. open \in SUBSET Lists
    BY <1>2 DEF IInv, DocGood, Docs
  <2> HIDE DEF open
  <2>3. DocGood(doc') /\ doc'.shown = doc.shown /\ doc'.open = open
    BY <2>1, <2>2 DEF IInv, DocGood, Docs
  <2>4. /\ InResults(p) \in Places /\ InResults(p).item = p
        /\ InResults(p).at = "results"
    BY <1>1, PlaceFacts
  <2>5. /\ panel' \in Panels /\ panel'.focus = InResults(p)
        /\ panel'.resultsShown /\ panel'.hideTimers = panel.hideTimers
        /\ panel'.pointer = panel.pointer
    BY <2>1, <2>4 DEF IInv, Good, Settled, Panels
  <2>6. Good(panel')
    BY <2>5 DEF IInv, Good, Settled
  <2>7. p \in Displayed(doc'.shown, doc'.open)
    BY <1>1, <1>2, <2>3 DEF Displayed
  <2> QED
    BY <2>3, <2>4, <2>5, <2>6, <2>7 DEF IInv
<1>3. CASE ~(p[2] = 0 /\ p[1] \in Lists)
  <2>1. CASE /\ panel' = MoveFocus(CloseResultsWindow(panel), At("none"))
             /\ UNCHANGED doc
    <3>1. Settled(panel)
      BY DEF IInv, Good
    <3>2. Good(panel') /\ panel'.focus.at # "results"
      BY <2>1, <3>1, CloseAndMove
    <3> QED
      BY <2>1, <3>2 DEF IInv
  <2>2. CASE panel' = InitialPanel /\ doc' = EmptyDoc
    BY <2>2, InitialPanelGood, EmptyDocGood DEF IInv
  <2> QED
    BY <1>3, <2>1, <2>2 DEF FollowLink
<1> QED
  BY <1>2, <1>3

(* Navigating: where the arrows lead is displayed, and only the list of the *)
(* item that has the focus is folded.                                       *)
LEMMA NavigateKeeps ==
  ASSUME IInv, panel.focus.at = "results", NEW key, NEW d,
         DocGood(d), d.shown = doc.shown, d.open = doc.open,
         Navigate(key, panel.focus.item, d), held' \in Keys \union {NoKey}
  PROVE  IInv'
<1> DEFINE p == panel.focus.item
           up == Up(d.shown, d.open, p)
           down == Down(d.shown, d.open, p)
           onItem == p[2] = 0 /\ p[1] \in Lists
           open == IF key = "right" /\ onItem THEN d.open \union {p[1]}
                   ELSE IF key = "left" /\ onItem THEN d.open \ {p[1]}
                   ELSE d.open
<1>1. /\ Good(panel) /\ Settled(panel) /\ panel.resultsShown
      /\ p \in Displayed(d.shown, d.open)
  BY DEF IInv, Good
<1>2. /\ d.shown \in SUBSET Items /\ d.open \in SUBSET Lists
      /\ d.open \in SUBSET Items /\ Contiguous(d.shown)
  BY DEF DocGood, Docs, Lists
<1>3. doc' = [d EXCEPT !.open = open]
  BY DEF Navigate
<1>4. open \in SUBSET Lists
  BY <1>2
<1>5. p \in Displayed(d.shown, open)
  BY <1>1 DEF Displayed
<1>6. key \notin {"right", "left"} => open = d.open
  OBVIOUS
<1>7. Displayed(d.shown, d.open) \subseteq Positions
  BY DEF Displayed
<1> HIDE DEF open
<1>8. DocGood(doc') /\ doc'.shown = d.shown /\ doc'.open = open
  BY <1>3, <1>4 DEF DocGood, Docs
<1>9. CASE key = "up"
  <2>1. panel' = MoveFocus(panel, IF up = Nowhere THEN At("field")
                                  ELSE InResults(up))
    BY <1>9 DEF Navigate
  <2>2. CASE up = Nowhere
    <3>1. Good(panel') /\ panel'.focus.at # "results"
      BY <1>1, <2>1, <2>2, MoveFocusGood, PlaceFacts
    <3> QED
      BY <1>8, <3>1 DEF IInv
  <2>3. CASE up # Nowhere
    <3>1. up \in Displayed(d.shown, d.open)
      BY <1>1, <1>2, <2>3, UpIsDisplayed
    <3> HIDE DEF up
    <3>2. InResults(up) \in Places /\ InResults(up).item = up
      BY <1>7, <3>1, PlaceFacts
    <3>3. Good(panel') /\ panel'.focus = InResults(up)
      BY <1>1, <2>1, <2>3, <3>2, MoveFocusGood
    <3> QED
      BY <1>6, <1>8, <1>9, <3>1, <3>2, <3>3 DEF IInv
  <2> QED
    BY <2>2, <2>3
<1>10. CASE key = "down" /\ down # Nowhere
  <2>1. panel' = MoveFocus(panel, InResults(down))
    BY <1>10 DEF Navigate
  <2>2. down \in Displayed(d.shown, d.open)
    BY <1>1, <1>2, <1>10, DownIsUndone
  <2> HIDE DEF down
  <2>3. InResults(down) \in Places /\ InResults(down).item = down
    BY <1>7, <2>2, PlaceFacts
  <2>4. Good(panel') /\ panel'.focus = InResults(down)
    BY <1>1, <2>1, <2>3, MoveFocusGood
  <2> QED
    BY <1>6, <1>8, <1>10, <2>2, <2>3, <2>4 DEF IInv
<1>11. CASE key = "escape"
  <2>1. panel' = MoveFocus(CloseResultsWindow(panel), At("field"))
    BY <1>11 DEF Navigate
  <2>2. Good(panel') /\ panel'.focus.at # "results"
    BY <1>1, <2>1, CloseAndMove
  <2> QED
    BY <1>8, <2>2 DEF IInv
<1>12. CASE ~(key = "up" \/ (key = "down" /\ down # Nowhere) \/ key = "escape")
  <2>1. panel' = panel
    BY <1>12 DEF Navigate
  <2> QED
    BY <1>1, <1>5, <1>8, <2>1 DEF IInv
<1> QED
  BY <1>9, <1>10, <1>11, <1>12

(* A key goes down.                                                         *)
LEMMA KeyDownKeeps ==
  ASSUME IInv, NEW key \in Keys, KeyDown(key)
  PROVE  IInv'
<1>1. Good(panel) /\ held' \in Keys \union {NoKey}
  BY DEF IInv, KeyDown
<1>2. CASE panel.focus.at = "field"
  <2>1. UNCHANGED doc
    BY <1>2 DEF KeyDown
  <2>2. CASE key = "type"
    <3>1. PICK t \in Texts : panel' = [panel EXCEPT !.value = t]
      BY <1>2, <2>2 DEF KeyDown
    <3>2. /\ panel' \in Panels /\ panel'.focus = panel.focus
          /\ panel'.hideTimers = panel.hideTimers
          /\ panel'.pointer = panel.pointer
      BY <1>1, <3>1 DEF Good, Settled, Panels, Values
    <3> QED
      BY <1>1, <1>2, <2>1, <3>2 DEF IInv, Good, Settled
  <2>3. CASE key # "type"
    <3>1. UNCHANGED panel
      BY <1>2, <2>3 DEF KeyDown
    <3> QED
      BY <1>1, <2>1, <3>1 DEF IInv
  <2> QED
    BY <2>2, <2>3
<1>3. CASE panel.focus.at = "filter"
  <2>1. panel' = OnSearchSelectKey(panel, key) /\ UNCHANGED doc
    BY <1>3 DEF KeyDown
  <2>2. Good(panel') /\ panel'.focus.at # "results"
    BY <1>1, <1>3, <2>1, OnSearchSelectKeyGood
  <2> QED
    BY <1>1, <2>1, <2>2 DEF IInv
<1>4. CASE panel.focus.at = "results"
  <2>1. CASE key = "enter"
    <3>1. FollowLink(panel.focus.item)
      BY <1>4, <2>1 DEF KeyDown
    <3>2. /\ panel.focus.item \in Displayed(doc.shown, doc.open)
          /\ panel.resultsShown
      BY <1>1, <1>4 DEF IInv, Good
    <3> QED
      BY <1>1, <3>1, <3>2, FollowLinkKeeps
  <2>2. CASE key # "enter"
    <3> DEFINE d == [doc EXCEPT !.lastKey = key, !.repeatOn = FALSE]
    <3>1. Navigate(key, panel.focus.item, d)
      BY <1>4, <2>2 DEF KeyDown
    <3>2. DocGood(d) /\ d.shown = doc.shown /\ d.open = doc.open
      BY DEF IInv, DocGood, Docs
    <3> HIDE DEF d
    <3> QED
      BY <1>1, <1>4, <3>1, <3>2, NavigateKeeps
  <2> QED
    BY <2>1, <2>2
<1> QED
  BY <1>2, <1>3, <1>4 DEF KeyDown

(* A held key produces characters.                                          *)
LEMMA KeyPressKeeps ==
  ASSUME IInv, KeyPress
  PROVE  IInv'
<1>1. /\ panel.focus.at = "results" /\ held' = held
      /\ held' \in Keys \union {NoKey} /\ DocGood(doc)
  BY DEF IInv, KeyPress
<1>2. CASE doc.repeatOn
  <2>1. Navigate(doc.lastKey, panel.focus.item, doc)
    BY <1>2 DEF KeyPress
  <2> QED
    BY <1>1, <2>1, NavigateKeeps
<1>3. CASE ~doc.repeatOn
  <2>1. doc' = [doc EXCEPT !.repeatOn = TRUE] /\ panel' = panel
    BY <1>3 DEF KeyPress
  <2>2. DocGood(doc') /\ doc'.shown = doc.shown /\ doc'.open = doc.open
    BY <1>1, <2>1 DEF DocGood, Docs
  <2> QED
    BY <1>1, <2>1, <2>2 DEF IInv
<1> QED
  BY <1>2, <1>3

(* A key is released.                                                       *)
LEMMA KeyUpKeeps ==
  ASSUME IInv, KeyUp
  PROVE  IInv'
<1>1. Good(panel) /\ DocGood(doc) /\ held' \in Keys \union {NoKey}
  BY DEF IInv, KeyUp
<1>2. DocGood(doc') /\ doc'.shown = doc.shown /\ doc'.open = doc.open
  <2>1. \/ doc' = doc
        \/ doc' = [doc EXCEPT !.lastKey = NoKey, !.repeatOn = FALSE]
    BY DEF KeyUp
  <2> QED
    BY <1>1, <2>1 DEF DocGood, Docs
<1>3. CASE panel.focus.at = "field"
  <2>1. panel' = OnSearchFieldChange(panel, held)
    BY <1>3 DEF KeyUp
  <2>2. Good(panel') /\ panel'.focus.at # "results"
    BY <1>1, <1>3, <2>1, OnSearchFieldChangeGood
  <2> QED
    BY <1>1, <1>2, <2>2 DEF IInv
<1>4. CASE panel.focus.at # "field"
  <2>1. panel' = panel
    BY <1>4 DEF KeyUp
  <2> QED
    BY <1>1, <1>2, <2>1 DEF IInv
<1> QED
  BY <1>3, <1>4

(* The reader uses the mouse.                                               *)
LEMMA MouseKeeps ==
  ASSUME IInv,
         \/ ClickField \/ ClickElsewhere \/ ClickClose
         \/ \E j \in Filters : ClickFilter(j)
         \/ \E p \in Positions : ClickResult(p)
         \/ \E place \in {"image", "popup"} : PointerEnters(place)
         \/ PointerLeaves
  PROVE  IInv'
<1>1. /\ Good(panel) /\ Settled(panel) /\ panel \in Panels
      /\ held \in Keys \union {NoKey}
  BY DEF IInv, Good, Settled
<1>2. CASE ClickField
  <2>1. /\ panel' = MoveFocus(panel, At("field")) /\ UNCHANGED doc
        /\ held' = held
    BY <1>2 DEF ClickField, Mouse
  <2>2. Good(panel') /\ panel'.focus.at # "results"
    BY <1>1, <2>1, MoveFocusGood, PlaceFacts
  <2> QED
    BY <1>1, <2>1, <2>2 DEF IInv
<1>3. CASE ClickElsewhere
  <2>1. /\ panel' = MoveFocus(panel, At("none")) /\ UNCHANGED doc
        /\ held' = held
    BY <1>3 DEF ClickElsewhere, Mouse
  <2>2. Good(panel') /\ panel'.focus.at # "results"
    BY <1>1, <2>1, MoveFocusGood, PlaceFacts
  <2> QED
    BY <1>1, <2>1, <2>2 DEF IInv
<1>4. CASE ClickClose
  <2> DEFINE b == MoveFocus(panel, At("none"))
  <2>1. /\ panel' = CloseResultsWindow(b) /\ UNCHANGED doc
        /\ held' = held
    BY <1>4 DEF ClickClose, Mouse
  <2>2. Good(b) /\ b.focus = At("none") /\ At("none").at = "none"
    BY <1>1, MoveFocusGood, PlaceFacts
  <2> HIDE DEF b
  <2>3. Settled(panel') /\ panel'.focus = At("none")
    BY <2>1, <2>2, CloseResultsWindowSettled DEF Good
  <2> QED
    BY <1>1, <2>1, <2>2, <2>3 DEF IInv, Good
<1>5. ASSUME NEW j \in Filters, ClickFilter(j)
      PROVE  IInv'
  <2> DEFINE b == MoveFocus(panel, Filter(j))
  <2>1. panel' = OnSelectItem(b, j) /\ UNCHANGED doc /\ held' = held
    BY <1>5 DEF ClickFilter, Mouse
  <2>2. Good(b) /\ b.focus = Filter(j) /\ Filter(j).at = "filter"
    BY <1>1, MoveFocusGood, PlaceFacts
  <2>3. j \in 0 .. NumFilters
    BY SearchPanelAssumption DEF Filters
  <2> HIDE DEF b
  <2>4. Good(panel') /\ panel'.focus = Filter(j)
    BY <2>1, <2>2, <2>3, OnSelectItemGood
  <2> QED
    BY <1>1, <2>1, <2>2, <2>4 DEF IInv
<1>6. ASSUME NEW p \in Positions, ClickResult(p)
      PROVE  IInv'
  BY <1>1, <1>6, FollowLinkKeeps DEF ClickResult, Mouse
<1>7. ASSUME NEW place \in {"image", "popup"}, PointerEnters(place)
      PROVE  IInv'
  <2> DEFINE b == [panel EXCEPT !.pointer = place]
  <2>1. panel' = OnSearchSelectShow(b) /\ UNCHANGED doc /\ held' = held
    BY <1>7 DEF PointerEnters, Mouse
  <2>2. /\ b \in Panels /\ b.focus = panel.focus
        /\ b.hideTimers = panel.hideTimers
        /\ b.resultsShown = panel.resultsShown
        /\ Reset(panel) => Reset(b)
    BY <1>1 DEF Panels, Reset
  <2> HIDE DEF b
  <2>3. /\ b.hideTimers <= 1
        /\ b.focus.at # "field" /\ ~b.resultsShown => Reset(b)
        /\ b.focus.at = "results" => b.resultsShown
    BY <1>1, <2>2 DEF Good, Settled
  <2>4. Good(panel') /\ panel'.focus = panel.focus
    BY <2>1, <2>2, <2>3, OnSearchSelectShowGood
  <2> QED
    BY <1>1, <2>1, <2>4 DEF IInv
<1>8. CASE PointerLeaves
  <2> DEFINE one == panel.hideTimers + 1
  <2>1. /\ panel' = [panel EXCEPT !.pointer = "away", !.hideTimers = one]
        /\ UNCHANGED doc /\ held' = held
    BY <1>1, <1>8 DEF PointerLeaves, Mouse, OnSearchSelectHide, Panels
  <2>2. one = 1
    BY <1>1, <1>8 DEF PointerLeaves, Settled
  <2> HIDE DEF one
  <2>3. /\ panel' \in Panels /\ panel'.focus = panel.focus
        /\ panel'.hideTimers = 1 /\ panel'.pointer = "away"
        /\ panel'.resultsShown = panel.resultsShown
        /\ Reset(panel) => Reset(panel')
    BY <1>1, <2>1, <2>2 DEF Panels, Reset
  <2>4. Good(panel')
    BY <1>1, <2>3 DEF Good, Settled
  <2> QED
    BY <1>1, <2>1, <2>3, <2>4 DEF IInv
<1> QED
  BY <1>2, <1>3, <1>4, <1>5, <1>6, <1>7, <1>8

(* A timer of Search fires.                                                 *)
LEMMA KeyTimerKeeps ==
  ASSUME IInv, KeyTimer
  PROVE  IInv'
<1> DEFINE fewer == panel.orphans - 1
           forgotten == [panel EXCEPT !.orphans = fewer]
           fired == [panel EXCEPT !.keyTimeout = FALSE]
<1>1. Good(panel) /\ panel \in Panels /\ UNCHANGED <<doc, held>>
  BY DEF IInv, Good, Settled, KeyTimer
<1>2. panel.orphans > 0 => fewer \in Nat
  BY <1>1 DEF Panels
<1> HIDE DEF fewer
<1>3. /\ fired \in Panels /\ fired.focus = panel.focus
      /\ fired.resultsShown = panel.resultsShown
      /\ fired.hideTimers = panel.hideTimers
      /\ fired.pointer = panel.pointer
      /\ Reset(panel) => Reset(fired)
  BY <1>1 DEF Panels, Reset
<1>4. ASSUME panel.orphans > 0
      PROVE  /\ forgotten \in Panels /\ forgotten.focus = panel.focus
             /\ forgotten.resultsShown = panel.resultsShown
             /\ forgotten.hideTimers = panel.hideTimers
             /\ forgotten.pointer = panel.pointer
             /\ Reset(panel) => Reset(forgotten)
  BY <1>1, <1>2, <1>4 DEF Panels, Reset
<1>5. panel' = IF panel.orphans > 0 THEN Search(forgotten) ELSE Search(fired)
  BY <1>1 DEF KeyTimer, fewer
<1> HIDE DEF forgotten, fired
<1>6. Good(fired) /\ (panel.orphans > 0 => Good(forgotten))
  BY <1>1, <1>3, <1>4 DEF Good, Settled
<1>7. Good(panel') /\ panel'.focus = panel.focus
  BY <1>3, <1>4, <1>5, <1>6, SearchGood
<1> QED
  BY <1>1, <1>7 DEF IInv

(* The timer of the popup fires.                                            *)
LEMMA HideTimerKeeps ==
  ASSUME IInv, HideTimer
  PROVE  IInv'
<1> DEFINE fewer == panel.hideTimers - 1
           b == [panel EXCEPT !.hideTimers = fewer]
<1>1. Good(panel) /\ panel \in Panels /\ UNCHANGED <<doc, held>>
  BY DEF IInv, Good, Settled, HideTimer
<1>2. panel.hideTimers > 0 /\ panel' = CloseSelectionWindow(b)
  BY DEF HideTimer
<1>3. fewer = 0 /\ fewer \in Nat
  BY <1>1, <1>2 DEF Good, Settled, Panels
<1> HIDE DEF fewer
<1>4. /\ b \in Panels /\ b.focus = panel.focus /\ b.hideTimers = 0
      /\ b.resultsShown = panel.resultsShown
      /\ Reset(panel) => Reset(b)
  BY <1>1, <1>3 DEF Panels, Reset
<1> HIDE DEF b
<1>5. Good(b)
  BY <1>1, <1>4 DEF Good, Settled
<1>6. /\ Good(panel')
      /\ panel'.focus.at = "results" => panel'.focus = b.focus
  BY <1>2, <1>5, CloseSelectionWindowGood
<1> QED
  BY <1>1, <1>4, <1>6 DEF IInv

(* The frame loads a page.                                                  *)
LEMMA FrameLoadsKeeps ==
  ASSUME IInv, FrameLoads
  PROVE  IInv'
<1> DEFINE focus == IF panel.focus.at = "results" THEN At("none")
                    ELSE panel.focus
           page == [panel.loading EXCEPT !.text = Strip(@)]
           shown == IF panel.loading.name = "nomatches" THEN {}
                    ELSE Found[Strip(panel.loading.text)]
<1>1. Good(panel) /\ panel \in Panels /\ held' = held
  BY DEF IInv, Good, Settled, FrameLoads
<1>2. /\ doc' = [EmptyDoc EXCEPT !.page = page, !.shown = shown]
      /\ panel' = [panel EXCEPT !.loading = NoPage, !.takeFocus = FALSE,
                                !.focus = focus]
  BY <1>1 DEF FrameLoads, Panels
<1>3. shown \in SUBSET Items /\ Contiguous(shown)
  <2>1. panel.loading.name # "nomatches" => panel.loading.text \in Searched
    BY <1>1 DEF Panels, Pages, NoPage, NoMatches, Searched
  <2> QED
    BY <2>1, NamesAreSorted DEF Found, MatchingItems, Contiguous
<1>4. page \in {[g EXCEPT !.text = Strip(@)] : g \in Pages}
  BY <1>1 DEF Panels
<1>5. focus \in Places /\ focus.at # "results"
      /\ (focus.at = "field" <=> panel.focus.at = "field")
  BY <1>1, PlaceFacts DEF Panels
<1> HIDE DEF shown, page, focus
<1>6. DocGood(doc')
  BY <1>2, <1>3, <1>4 DEF DocGood, Docs, EmptyDoc
<1>7. /\ panel' \in Panels /\ panel'.focus = focus
      /\ panel'.resultsShown = panel.resultsShown
      /\ panel'.hideTimers = panel.hideTimers
      /\ panel'.pointer = panel.pointer
      /\ Reset(panel) => Reset(panel')
  BY <1>1, <1>2, <1>5 DEF Panels, Pages, Reset
<1>8. Good(panel')
  BY <1>1, <1>5, <1>7 DEF Good, Settled
<1> QED
  BY <1>1, <1>5, <1>6, <1>7, <1>8 DEF IInv

(* The frame takes the focus.                                               *)
LEMMA TakeFocusKeeps ==
  ASSUME IInv, TakeFocus
  PROVE  IInv'
<1> DEFINE first == NavNext(doc.shown, 0)
           asked == [panel EXCEPT !.takeFocus = FALSE]
<1>1. /\ Good(panel) /\ panel \in Panels /\ UNCHANGED <<doc, held>>
      /\ doc.shown \in SUBSET Items /\ doc.open \in SUBSET Items
      /\ Contiguous(doc.shown)
  BY DEF IInv, Good, Settled, DocGood, Docs, Lists, TakeFocus
<1>2. panel' = IF first = Nowhere \/ ~panel.resultsShown
               THEN asked ELSE MoveFocus(asked, InResults(first))
  BY DEF TakeFocus
<1>3. /\ asked \in Panels /\ asked.focus = panel.focus
      /\ asked.resultsShown = panel.resultsShown
      /\ asked.hideTimers = panel.hideTimers
      /\ asked.pointer = panel.pointer
      /\ Reset(panel) => Reset(asked)
  BY <1>1 DEF Panels, Reset
<1> HIDE DEF asked
<1>4. Good(asked) /\ Settled(asked)
  BY <1>1, <1>3 DEF Good, Settled
<1>5. CASE first = Nowhere \/ ~panel.resultsShown
  BY <1>1, <1>2, <1>3, <1>4, <1>5 DEF IInv
<1>6. CASE first # Nowhere /\ panel.resultsShown
  <2>1. PICK j \in doc.shown : first = <<j, 0>>
    BY <1>1, <1>6, NavNextIsNext
  <2>2. NumChildren[j] \in Nat
    BY <1>1, <2>1, SearchResultsAssumption
  <2>3. first \in Displayed(doc.shown, doc.open)
    BY <1>1, <2>1, <2>2 DEF Displayed, Positions
  <2>4. first \in Positions
    BY <2>3 DEF Displayed
  <2> HIDE DEF first
  <2>5. InResults(first) \in Places /\ InResults(first).item = first
    BY <2>4, PlaceFacts
  <2>6. Good(panel') /\ panel'.focus = InResults(first)
    BY <1>2, <1>3, <1>4, <1>6, <2>5, MoveFocusGood
  <2> QED
    BY <1>1, <2>3, <2>5, <2>6 DEF IInv
<1> QED
  BY <1>5, <1>6

(* The invariant holds in the beginning, is kept by every step, and says    *)
(* all that the properties say.                                             *)
LEMMA InvInit == Init => IInv
BY InitialPanelGood, EmptyDocGood DEF Init, IInv

LEMMA InvNext == IInv /\ [Next]_vars => IInv'
<1> SUFFICES ASSUME IInv, [Next]_vars
             PROVE  IInv'
  OBVIOUS
<1>1. CASE Reader
  <2>1. ASSUME NEW key \in Keys, KeyDown(key)
        PROVE  IInv'
    BY <2>1, KeyDownKeeps
  <2> QED
    BY <1>1, <2>1, KeyPressKeeps, KeyUpKeeps, MouseKeeps DEF Reader
<1>2. CASE UNCHANGED vars
  BY <1>2 DEF IInv, vars
<1> QED
  BY <1>1, <1>2, KeyTimerKeeps, HideTimerKeeps, FrameLoadsKeeps,
     TakeFocusKeeps DEF Next

LEMMA InvImplies ==
  ASSUME IInv
  PROVE  /\ QuietPanelIsReset /\ PopupStaysUnderPointer
         /\ FocusIsDisplayed /\ UpUndoesDown
<1>1. QuietPanelIsReset
  BY DEF IInv, Good, Settled, Reset, DocGood, QuietPanelIsReset, PanelTypeOK
<1>2. PopupStaysUnderPointer
  BY DEF IInv, Good, Settled, PopupStaysUnderPointer
<1>3. FocusIsDisplayed
  BY DEF IInv, Good, FocusIsDisplayed
<1>4. UpUndoesDown
  <2>1. /\ doc.shown \in SUBSET Items /\ doc.open \in SUBSET Lists
        /\ Contiguous(doc.shown)
    BY DEF IInv, DocGood, Docs
  <2> QED
    BY <2>1, DownIsUndone DEF UpUndoesDown
<1> QED
  BY <1>1, <1>2, <1>3, <1>4

(* A panel nobody uses is as it was in the beginning, after whatever the    *)
(* reader and the browser do in whatever order.                             *)
THEOREM PanelIsReset == Spec => []QuietPanelIsReset
<1>1. IInv => QuietPanelIsReset
  BY InvImplies
<1> QED
  BY <1>1, InvInit, InvNext, PTL DEF Spec

(* No timer takes the popup of the filters away from under the pointer.     *)
THEOREM PopupStays == Spec => []PopupStaysUnderPointer
<1>1. IInv => PopupStaysUnderPointer
  BY InvImplies
<1> QED
  BY <1>1, InvInit, InvNext, PTL DEF Spec

(* The focus is never on a link of the results that is not displayed.       *)
THEOREM FocusIsSeen == Spec => []FocusIsDisplayed
<1>1. IInv => FocusIsDisplayed
  BY InvImplies
<1> QED
  BY <1>1, InvInit, InvNext, PTL DEF Spec

(* Arrow up takes back arrow down on every page the frame can show.         *)
THEOREM UpTakesBackDown == Spec => []UpUndoesDown
<1>1. IInv => UpUndoesDown
  BY InvImplies
<1> QED
  BY <1>1, InvInit, InvNext, PTL DEF Spec

-----------------------------------------------------------------------------
(* The table: which rows are displayed                                     *)

(* The row above a row is a row, one level up, and the row a first row      *)
(* below is made for.                                                       *)
LEMMA ParentIsRow ==
  ASSUME NEW x \in Rows, Len(x) > 1
  PROVE  /\ Parent(x) \in Rows
         /\ Len(Parent(x)) = Len(x) - 1
         /\ x \in ChildRows(Parent(x))
         /\ Parent(x) \in Folders
         /\ FirstChild(Parent(x)) \in Rows
<1>1. x \in Seq(Nat) /\ Len(x) \in Nat
  BY RowsAssumption
<1>2. Parent(x) \in Rows /\ FirstChild(Parent(x)) \in Rows
  BY RowsAssumption DEF Parent, FirstChild
<1>3. Len(Parent(x)) = Len(x) - 1
  BY <1>1 DEF Parent
<1>4. x \in ChildRows(Parent(x))
  BY <1>1, <1>3 DEF ChildRows
<1> QED
  BY <1>2, <1>3, <1>4 DEF Folders

(* A folder has a first row below it, which stands directly below it.       *)
LEMMA FolderHasFirstChild ==
  ASSUME NEW r \in Folders
  PROVE  /\ r \in Rows /\ FirstChild(r) \in Rows
         /\ Len(FirstChild(r)) > 1 /\ Parent(FirstChild(r)) = r
<1>1. r \in Rows /\ r \in Seq(Nat) /\ r # <<>> /\ Len(r) \in Nat \ {0}
  BY RowsAssumption DEF Folders
<1>2. PICK x \in Rows : Len(x) = Len(r) + 1 /\ Parent(x) = r
  BY DEF Folders, ChildRows
<1>3. FirstChild(r) \in Rows
  BY <1>1, <1>2, ParentIsRow
<1>4. FirstChild(r) \in Seq(Nat) /\ Len(FirstChild(r)) = Len(r) + 1
  BY <1>1 DEF FirstChild
<1>5. Parent(FirstChild(r)) = r
  BY <1>1, <1>4 DEF Parent, FirstChild
<1> QED
  BY <1>1, <1>3, <1>4, <1>5

(* The rows below a row are those directly below it, and those below one    *)
(* that is below it.                                                        *)
LEMMA BelowByParent ==
  ASSUME NEW r \in Rows, NEW x \in Rows, Len(x) > 1
  PROVE  x \in RowsBelow(r) <=> Parent(x) = r \/ Parent(x) \in RowsBelow(r)
<1>1. r \in Seq(Nat) /\ x \in Seq(Nat) /\ Len(r) \in Nat /\ Len(x) \in Nat
  BY RowsAssumption
<1>2. /\ Parent(x) \in Rows /\ Parent(x) \in Seq(Nat)
      /\ Len(Parent(x)) = Len(x) - 1
  BY ParentIsRow, RowsAssumption
<1>3. \A n \in 1 .. Len(x) - 1 : SubSeq(Parent(x), 1, n) = SubSeq(x, 1, n)
  BY <1>1 DEF Parent
<1>4. SubSeq(Parent(x), 1, Len(x) - 1) = Parent(x)
  BY <1>1, <1>2
<1>5. CASE Len(x) > Len(r) + 1
  <2>1. Len(r) \in 1 .. Len(x) - 1
    <3>1. r # <<>>
      BY RowsAssumption
    <3> QED
      BY <1>1, <1>5, <3>1
  <2>2. SubSeq(Parent(x), 1, Len(r)) = SubSeq(x, 1, Len(r))
    BY <1>3, <2>1
  <2>3. Parent(x) # r
    BY <1>1, <1>2, <1>5
  <2>4. Len(x) > Len(r) /\ Len(Parent(x)) > Len(r)
    BY <1>1, <1>2, <1>5
  <2> QED
    BY <1>2, <2>2, <2>3, <2>4 DEF RowsBelow
<1>6. CASE Len(x) = Len(r) + 1
  BY <1>1, <1>2, <1>6 DEF RowsBelow, Parent
<1>7. CASE Len(x) <= Len(r)
  BY <1>1, <1>2, <1>7 DEF RowsBelow
<1> QED
  BY <1>1, <1>5, <1>6, <1>7

-----------------------------------------------------------------------------

(* A table as it is generated.                                              *)
LEMMA InitTruth == TreeInit => IconsTellTheTruth
<1> SUFFICES ASSUME NEW level \in Levels, DisplayedTo(level)
             PROVE  IconsTellTheTruth
  BY DEF TreeInit
<1>1. level \in Nat /\ level > 0
  BY RowsAssumption DEF Levels
<1>2. TreeTypeOK
  BY DEF DisplayedTo, TreeTypeOK
<1>3. ASSUME NEW r \in Rows
      PROVE  r \in visible <=>
               (Len(r) > 1 => Parent(r) \in visible /\ Parent(r) \in unfolded)
  <2>1. Len(r) \in Nat /\ Len(r) > 0
    BY RowsAssumption
  <2>2. CASE Len(r) > 1
    BY <1>1, <2>1, <2>2, ParentIsRow DEF DisplayedTo
  <2>3. CASE ~(Len(r) > 1)
    BY <1>1, <2>1, <2>3 DEF DisplayedTo
  <2> QED
    BY <2>2, <2>3
<1> QED
  BY <1>2, <1>3 DEF IconsTellTheTruth

(* Choosing a level gives rows above it their icon, and leaves the icons of *)
(* rows it hides, which do not matter.                                      *)
LEMMA ToggleLevelTruth ==
  ASSUME TreeTypeOK, NEW level \in Levels, ToggleLevel(level)
  PROVE  IconsTellTheTruth'
<1>1. level \in Nat /\ level > 0
  BY RowsAssumption DEF Levels
<1>2. TreeTypeOK'
  BY DEF ToggleLevel, UpdateStripes, TreeTypeOK
<1>3. ASSUME NEW r \in Rows
      PROVE  r \in visible' <=>
               (Len(r) > 1 => Parent(r) \in visible' /\ Parent(r) \in unfolded')
  <2>1. Len(r) \in Nat /\ Len(r) > 0
    BY RowsAssumption
  <2>2. CASE Len(r) > 1
    BY <1>1, <2>1, <2>2, ParentIsRow DEF ToggleLevel
  <2>3. CASE ~(Len(r) > 1)
    BY <1>1, <2>1, <2>3 DEF ToggleLevel
  <2> QED
    BY <2>2, <2>3
<1> QED
  BY <1>2, <1>3 DEF IconsTellTheTruth

(* A folder is unfolded if and only if its first row below is displayed, as *)
(* long as it is displayed itself.                                          *)
LEMMA ShowTruth ==
  ASSUME IconsTellTheTruth, NEW r \in Folders, r \in visible,
         FirstChild(r) \notin visible, Show(r), UpdateStripes
  PROVE  IconsTellTheTruth'
<1>1. r \notin unfolded
  BY FolderHasFirstChild DEF IconsTellTheTruth
<1>2. TreeTypeOK'
  BY DEF IconsTellTheTruth, TreeTypeOK, Show, UpdateStripes, ChildRows
<1>3. ASSUME NEW x \in Rows
      PROVE  x \in visible' <=>
               (Len(x) > 1 => Parent(x) \in visible' /\ Parent(x) \in unfolded')
  <2>1. Len(x) \in Nat /\ Len(x) > 0 /\ Len(r) \in Nat /\ Len(r) > 0
    BY RowsAssumption DEF Folders
  <2>2. CASE x \in ChildRows(r)
    BY <2>2 DEF Show, ChildRows
  <2>3. CASE Len(x) > 1 /\ x \notin ChildRows(r)
    <3>1. Parent(x) # r /\ Parent(x) \in Rows
      BY <2>3, ParentIsRow
    <3>2. x \in visible' <=> Parent(x) \in visible /\ Parent(x) \in unfolded
      BY <2>3 DEF Show, IconsTellTheTruth
    <3>3. CASE Parent(x) \in ChildRows(r)
      <4>1. Len(Parent(x)) > 1 /\ Parent(Parent(x)) = r
        BY <2>1, <3>3 DEF ChildRows
      <4>2. Parent(x) \notin visible
        BY <1>1, <3>1, <4>1 DEF IconsTellTheTruth
      <4> QED
        BY <2>3, <3>1, <3>2, <3>3, <4>2 DEF Show
    <3>4. CASE Parent(x) \notin ChildRows(r)
      BY <2>3, <3>1, <3>2, <3>4 DEF Show
    <3> QED
      BY <3>3, <3>4
  <2>4. CASE ~(Len(x) > 1) /\ x \notin ChildRows(r)
    BY <2>4 DEF Show, IconsTellTheTruth
  <2> QED
    BY <2>2, <2>3, <2>4
<1> QED
  BY <1>2, <1>3 DEF IconsTellTheTruth

(* Folding a row hides all rows below it, unfolded or not.                  *)
LEMMA HideTruth ==
  ASSUME IconsTellTheTruth, NEW r \in Folders, Hide(r), UpdateStripes
  PROVE  IconsTellTheTruth'
<1>1. r \in Rows /\ Len(r) \in Nat /\ Len(r) > 0
  BY RowsAssumption DEF Folders
<1>2. TreeTypeOK'
  BY DEF IconsTellTheTruth, TreeTypeOK, Hide, UpdateStripes
<1>3. ASSUME NEW x \in Rows
      PROVE  x \in visible' <=>
               (Len(x) > 1 => Parent(x) \in visible' /\ Parent(x) \in unfolded')
  <2>1. CASE Len(x) > 1
    BY <1>1, <2>1, BelowByParent DEF Hide, IconsTellTheTruth
  <2>2. CASE ~(Len(x) > 1)
    <3>1. Len(x) \in Nat
      BY RowsAssumption
    <3>2. x \notin RowsBelow(r)
      BY <1>1, <2>2, <3>1 DEF RowsBelow
    <3> QED
      BY <2>2, <3>2 DEF Hide, IconsTellTheTruth
  <2> QED
    BY <2>1, <2>2
<1> QED
  BY <1>2, <1>3 DEF IconsTellTheTruth

(* A row is displayed exactly when the row above it is displayed and shows  *)
(* the icon of an unfolded one, for every tree of rows and however they     *)
(* were folded and unfolded before.                                         *)
THEOREM IconsTell == TreeSpec => []IconsTellTheTruth
<1>1. IconsTellTheTruth /\ [TreeNext]_treeVars => IconsTellTheTruth'
  <2> SUFFICES ASSUME IconsTellTheTruth, [TreeNext]_treeVars
               PROVE  IconsTellTheTruth'
    OBVIOUS
  <2>1. ASSUME NEW level \in Levels, ToggleLevel(level)
        PROVE  IconsTellTheTruth'
    BY <2>1, ToggleLevelTruth DEF IconsTellTheTruth
  <2>2. ASSUME NEW r \in Folders, ToggleFolder(r)
        PROVE  IconsTellTheTruth'
    BY <2>2, ShowTruth, HideTruth DEF ToggleFolder
  <2>3. CASE UNCHANGED treeVars
    BY <2>3 DEF treeVars, IconsTellTheTruth, TreeTypeOK
  <2> QED
    BY <2>1, <2>2, <2>3 DEF TreeNext
<1> QED
  BY InitTruth, <1>1, PTL DEF TreeSpec

-----------------------------------------------------------------------------
(* The order of the rows                                                    *)

(* Row x begins row y: y is below x.                                        *)
Begins(x, y) == Len(x) < Len(y) /\ \A k \in 1 .. Len(x) : x[k] = y[k]

(* Row x comes before row y because of the number of level n.               *)
LessAt(x, y, n) ==
  /\ n \in 1 .. Len(x) /\ n \in 1 .. Len(y)
  /\ x[n] < y[n] /\ \A k \in 1 .. n - 1 : x[k] = y[k]

(* The order by the numbers of the levels.                                  *)
LEMMA BeforeByLevel ==
  ASSUME NEW x \in Rows, NEW y \in Rows
  PROVE  Before(x, y) <=> Begins(x, y) \/ \E n \in Nat : LessAt(x, y, n)
<1>1. /\ x \in Seq(Nat) /\ y \in Seq(Nat) /\ Len(x) \in Nat /\ Len(y) \in Nat
      /\ DOMAIN x = 1 .. Len(x) /\ DOMAIN y = 1 .. Len(y)
  BY RowsAssumption
<1>2. Len(x) < Len(y) /\ SubSeq(y, 1, Len(x)) = x <=> Begins(x, y)
  BY <1>1 DEF Begins
<1>3. (\E n \in DOMAIN x \intersect DOMAIN y :
         x[n] < y[n] /\ \A k \in 1 .. n - 1 : x[k] = y[k])
      <=> \E n \in Nat : LessAt(x, y, n)
  <2>1. ASSUME NEW n
        PROVE  n \in DOMAIN x \intersect DOMAIN y
                 <=> n \in Nat /\ n \in 1 .. Len(x) /\ n \in 1 .. Len(y)
    BY <1>1
  <2> QED
    BY <2>1, Zenon DEF LessAt
<1> QED
  BY <1>2, <1>3 DEF Before

(* No row stands before itself.                                             *)
LEMMA BeforeIrreflexive ==
  ASSUME NEW x \in Rows
  PROVE  ~ Before(x, x)
<1>1. Len(x) \in Nat /\ \A n \in 1 .. Len(x) : x[n] \in Nat
  BY RowsAssumption
<1> QED
  BY <1>1, BeforeByLevel DEF Begins, LessAt

(* A row before one that stands before a third stands before the third.     *)
LEMMA BeforeTransitive ==
  ASSUME NEW x \in Rows, NEW y \in Rows, NEW z \in Rows,
         Before(x, y), Before(y, z)
  PROVE  Before(x, z)
<1>1. /\ Len(x) \in Nat /\ Len(y) \in Nat /\ Len(z) \in Nat
      /\ \A n \in 1 .. Len(x) : x[n] \in Nat
      /\ \A n \in 1 .. Len(y) : y[n] \in Nat
      /\ \A n \in 1 .. Len(z) : z[n] \in Nat
  BY RowsAssumption
<1>2. CASE Begins(x, y) /\ Begins(y, z)
  <2>1. Begins(x, z)
    BY <1>1, <1>2 DEF Begins
  <2> QED
    BY <2>1, BeforeByLevel
<1>3. ASSUME Begins(x, y), NEW n \in Nat, LessAt(y, z, n)
      PROVE  Before(x, z)
  <2>1. CASE n <= Len(x)
    <3>1. LessAt(x, z, n)
      BY <1>1, <1>3, <2>1 DEF Begins, LessAt
    <3> QED
      BY <3>1, BeforeByLevel
  <2>2. CASE n > Len(x)
    <3>1. Begins(x, z)
      BY <1>1, <1>3, <2>2 DEF Begins, LessAt
    <3> QED
      BY <3>1, BeforeByLevel
  <2> QED
    BY <1>1, <2>1, <2>2
<1>4. ASSUME NEW n \in Nat, LessAt(x, y, n), Begins(y, z)
      PROVE  Before(x, z)
  <2>1. LessAt(x, z, n)
    BY <1>1, <1>4 DEF Begins, LessAt
  <2> QED
    BY <2>1, BeforeByLevel
<1>5. ASSUME NEW n \in Nat, LessAt(x, y, n), NEW m \in Nat, LessAt(y, z, m)
      PROVE  Before(x, z)
  <2>1. CASE n <= m
    <3>1. LessAt(x, z, n)
      BY <1>1, <1>5, <2>1 DEF LessAt
    <3> QED
      BY <3>1, BeforeByLevel
  <2>2. CASE m < n
    <3>1. LessAt(x, z, m)
      BY <1>1, <1>5, <2>2 DEF LessAt
    <3> QED
      BY <3>1, BeforeByLevel
  <2> QED
    BY <2>1, <2>2
<1> QED
  BY BeforeByLevel, <1>2, <1>3, <1>4, <1>5

(* Of two rows one stands before the other.                                 *)
LEMMA BeforeTotal ==
  ASSUME NEW x \in Rows, NEW y \in Rows, x # y
  PROVE  Before(x, y) \/ Before(y, x)
<1>1. /\ x \in Seq(Nat) /\ y \in Seq(Nat) /\ Len(x) \in Nat /\ Len(y) \in Nat
      /\ \A n \in 1 .. Len(x) : x[n] \in Nat
      /\ \A n \in 1 .. Len(y) : y[n] \in Nat
  BY RowsAssumption
<1> DEFINE Differ == {n \in Nat : /\ n \in 1 .. Len(x) /\ n \in 1 .. Len(y)
                                 /\ x[n] # y[n]}
<1>2. CASE Differ = {}
  <2>1. ASSUME NEW n \in 1 .. Len(x), n \in 1 .. Len(y)
        PROVE  x[n] = y[n]
    <3>1. n \in Nat
      BY <1>1
    <3>2. n \notin Differ
      BY <1>2
    <3> QED
      BY <2>1, <3>1, <3>2
  <2>2. CASE Len(x) = Len(y)
    BY <1>1, <2>1, <2>2
  <2>3. CASE Len(x) < Len(y)
    <3>1. Begins(x, y)
      BY <1>1, <2>1, <2>3 DEF Begins
    <3> QED
      BY <3>1, BeforeByLevel
  <2>4. CASE Len(y) < Len(x)
    <3>1. Begins(y, x)
      BY <1>1, <2>1, <2>4 DEF Begins
    <3> QED
      BY <3>1, BeforeByLevel
  <2> QED
    BY <1>1, <2>2, <2>3, <2>4
<1>3. CASE Differ # {}
  <2>1. PICK m \in Differ : \A k \in Differ : m <= k
    BY <1>3, HasLeast
  <2>2. /\ m \in Nat /\ m \in 1 .. Len(x) /\ m \in 1 .. Len(y)
        /\ x[m] # y[m] /\ \A k \in 1 .. m - 1 : x[k] = y[k]
    BY <1>1, <2>1
  <2>3. LessAt(x, y, m) \/ LessAt(y, x, m)
    BY <1>1, <2>2 DEF LessAt
  <2> QED
    BY <2>2, <2>3, BeforeByLevel
<1> QED
  BY <1>2, <1>3

-----------------------------------------------------------------------------
(* The stripes                                                              *)

(* The displayed rows above a row, of which an even row has an even number. *)
Above(r) == {x \in visible : Before(x, r)}

Striped ==
  /\ visible \subseteq Rows
  /\ even = {r \in visible : Cardinality(Above(r)) % 2 = 0}

(* Above the second of two neighbours stand the rows above the first, and   *)
(* the first.                                                               *)
LEMMA OneMoreAbove ==
  ASSUME Striped, NEW x \in visible, NEW y \in visible, Before(x, y),
         ~ \E z \in visible : Before(x, z) /\ Before(z, y)
  PROVE  /\ Cardinality(Above(x)) \in Nat
         /\ Cardinality(Above(y)) = Cardinality(Above(x)) + 1
<1>1. visible \subseteq Rows /\ x \in Rows /\ y \in Rows
  BY DEF Striped
<1>2. Above(y) = Above(x) \union {x}
  <2>1. ASSUME NEW z \in Above(y)
        PROVE  z \in Above(x) \union {x}
    BY <1>1, <2>1, BeforeTotal DEF Above
  <2>2. ASSUME NEW z \in Above(x)
        PROVE  z \in Above(y)
    BY <1>1, <2>2, BeforeTransitive DEF Above
  <2>3. x \in Above(y)
    BY DEF Above
  <2> QED
    BY <2>1, <2>2, <2>3
<1>3. x \notin Above(x)
  BY <1>1, BeforeIrreflexive DEF Above
<1>4. IsFiniteSet(Above(x))
  <2>1. Above(x) \in SUBSET Rows
    BY <1>1 DEF Above
  <2> QED
    BY <2>1, FS_Subset, RowsAssumption
<1>5. Cardinality(Above(x)) \in Nat
  BY <1>4, FS_CardinalityType
<1>6. Cardinality(Above(x) \union {x}) = Cardinality(Above(x)) + 1
  BY <1>3, <1>4, FS_AddElement
<1> QED
  BY <1>2, <1>5, <1>6

(* Of neighbours one is even, as of two numbers in a row.                   *)
LEMMA StripedAlternates == Striped => StripesAlternate
<1> SUFFICES ASSUME Striped, NEW x \in visible, NEW y \in visible, Before(x, y),
                    ~ \E z \in visible : Before(x, z) /\ Before(z, y)
             PROVE  x \in even <=> y \notin even
  BY DEF StripesAlternate
<1> DEFINE a == Cardinality(Above(x))
           b == Cardinality(Above(y))
<1>1. a \in Nat /\ b = a + 1
  BY OneMoreAbove
<1>2. (x \in even <=> a % 2 = 0) /\ (y \in even <=> b % 2 = 0)
  BY DEF Striped
<1> HIDE DEF a, b
<1>3. a % 2 = 0 <=> b % 2 # 0
  BY <1>1
<1> QED
  BY <1>2, <1>3

(* Of two rows displayed next to each other exactly one has the style of an *)
(* even one, whatever the reader folded and unfolded, in every table.  It   *)
(* holds because every handler that shows or hides rows ends by giving the  *)
(* styles anew, to the rows that are displayed then.                        *)
THEOREM StripesDo == TreeSpec => []StripesAlternate
<1>1. TreeInit => Striped
  BY DEF TreeInit, DisplayedTo, Striped, Above
<1>2. Striped /\ [TreeNext]_treeVars => Striped'
  <2> SUFFICES ASSUME Striped, [TreeNext]_treeVars
               PROVE  Striped'
    OBVIOUS
  <2>1. ASSUME NEW level \in Levels, ToggleLevel(level)
        PROVE  Striped'
    BY <2>1 DEF ToggleLevel, UpdateStripes, Striped, Above
  <2>2. ASSUME NEW r \in Folders, ToggleFolder(r)
        PROVE  Striped'
    <3>1. visible' \subseteq Rows
      BY <2>2 DEF ToggleFolder, Show, Hide, Striped, ChildRows
    <3> QED
      BY <2>2, <3>1 DEF ToggleFolder, UpdateStripes, Striped, Above
  <2>3. CASE UNCHANGED treeVars
    BY <2>3 DEF treeVars, Striped, Above
  <2> QED
    BY <2>1, <2>2, <2>3 DEF TreeNext
<1> QED
  BY <1>1, <1>2, StripedAlternates, PTL DEF TreeSpec

=============================================================================
