---------------------------- MODULE SearchPanel -----------------------------
(***************************************************************************)
(* The search panel of the HTML documentation and its reader               *)
(* (documentation/html/search/search.js, wired up by index.html and by the *)
(* pages in search/).                                                      *)
(*                                                                         *)
(* The panel is a search field, a popup with the filters, and a window     *)
(* with a frame into which the page of results is loaded.  A search is     *)
(* made some time after the last key (keyTimeout); the popup goes away     *)
(* some time after the pointer left it (hideTimeout).  Handlers run one    *)
(* after the other, but focus and blur handlers run inside the call that   *)
(* moves the focus, timers fire whenever they get their turn, and a frame  *)
(* loads its page and receives its messages later.  A key is pressed in    *)
(* one place and may be released in another, if its handler moves the      *)
(* focus in between.                                                       *)
(*                                                                         *)
(* Handlers are functions from a state of the panel to the next one, so    *)
(* that one can call another, as in the code.  A text is a sequence of     *)
(* characters.                                                             *)
(***************************************************************************)
EXTENDS SearchResults

CONSTANTS Texts,        \* what the reader may enter
          Label,        \* the text of the field when the panel is not active
          NumFilters,   \* number of entries of the filter popup
          Contents,     \* of each filter: characters for which there is a page
          MaxOrphans    \* bound on timers that are pending and forgotten

ASSUME SearchPanelAssumption ==
  /\ NumFilters \in Nat \ {0}
  /\ Label \notin Texts /\ Label # <<>>
  /\ MaxOrphans \in Nat

Filters == 0 .. NumFilters - 1

VARIABLES
  panel,   \* the SearchBox, the elements it shows and hides, focus, pointer
  doc,     \* the page in the frame, with its SearchResults
  held     \* the key the reader holds down

vars == <<panel, doc, held>>

Keys == {"type", "up", "down", "left", "right", "escape", "enter",
         "shift+down"}
NoKey == "no key"

(* The keys worth pressing in a place: others do nothing there that one of  *)
(* these does not do as well.                                               *)
KeysAt(place) ==
  CASE place = "field" -> Keys \ {"left", "right"}
    [] place = "filter" -> {"up", "down", "escape", "enter"}
    [] place = "results" -> Keys \ {"type", "shift+down"}
    [] OTHER -> {}

-----------------------------------------------------------------------------
(* Texts and pages                                                         *)

Blank == 32

NoSpaces(t) == SelectSeq(t, LAMBDA c : c # Blank)

(* Without the blanks in front. *)
StripLeading(t) ==
  LET n == CHOOSE i \in 0 .. Len(t) :
             /\ \A k \in 1 .. i : t[k] = Blank
             /\ i < Len(t) => t[i + 1] # Blank
  IN  SubSeq(t, n + 1, Len(t))

(* Without the blanks in front and behind. *)
Strip(t) == Reverse(StripLeading(Reverse(StripLeading(t))))

NoPage == [name |-> "none", text |-> <<>>]
NoMatches == [name |-> "nomatches", text |-> <<>>]

(* The page for text t under filter i; for the empty text indexOf finds the *)
(* empty character at once.                                                 *)
ResultsPage(i, t) ==
  IF t = <<>> \/ (t # <<>> /\ Lower(t[1]) \in Contents[i])
  THEN [name |-> "results", text |-> t]
  ELSE NoMatches

-----------------------------------------------------------------------------
(* The state                                                               *)

At(place) == [at |-> place, item |-> Nowhere]
Filter(j) == [at |-> "filter", item |-> <<j, 0>>]
InResults(p) == [at |-> "results", item |-> p]

InitialPanel ==
  [value |-> Label, active |-> FALSE, searchActive |-> FALSE,
   lastSearchValue |-> <<>>, searchIndex |-> 0,
   keyTimeout |-> FALSE,     \* keyTimeout refers to a timer that is pending
   orphans |-> 0,            \* timers of Search pending without a reference
   hideTimers |-> 0,         \* timers of CloseSelectionWindow pending
   resultsShown |-> FALSE, selectShown |-> FALSE,
   loading |-> NoPage,       \* what the frame has been told to load
   takeFocus |-> FALSE,      \* the message "take_focus" is under way to it
   focus |-> At("none"),
   pointer |-> "away"]       \* over the image or the popup of the filters

EmptyDoc == [page |-> NoPage, shown |-> {}, open |-> {},
             lastKey |-> NoKey, repeatOn |-> FALSE]

Init == panel = InitialPanel /\ doc = EmptyDoc /\ held = NoKey

Places == {At("none"), At("field")} \union {Filter(j) : j \in Filters}
            \union {InResults(p) : p \in Positions}
Values == Texts \union {Label, <<>>}
Searched == {StripLeading(t) : t \in Values} \union {<<>>}
Found == [t \in {Strip(s) : s \in Searched} |-> MatchingItems(t)]

(* The items are sorted by name, so that those that begin with the same     *)
(* text are next to each other.                                             *)
ASSUME NamesAreSorted == \A t \in DOMAIN Found : Contiguous(Found[t])

Pages == {NoPage, NoMatches} \union
         {[name |-> "results", text |-> t] : t \in Searched}

Panels ==
  [value : Values, active : BOOLEAN, searchActive : BOOLEAN,
   lastSearchValue : Searched, searchIndex : 0 .. NumFilters,
   keyTimeout : BOOLEAN, orphans : Nat, hideTimers : Nat,
   resultsShown : BOOLEAN, selectShown : BOOLEAN, loading : Pages,
   takeFocus : BOOLEAN, focus : Places, pointer : {"away", "image", "popup"}]

Docs ==
  [page : {NoPage} \union {[g EXCEPT !.text = Strip(@)] : g \in Pages},
   shown : SUBSET Items, open : SUBSET Lists,
   lastKey : Keys \union {NoKey}, repeatOn : BOOLEAN]

PanelTypeOK == panel \in Panels /\ doc \in Docs /\ held \in Keys \union {NoKey}

-----------------------------------------------------------------------------
(* The panel                                                               *)

(* Fault: the last search is remembered. *)
ActivateFault(b, isActive) ==
  IF isActive \/ b.resultsShown
  THEN [b EXCEPT !.active = TRUE,
                 !.value = IF @ = Label THEN <<>> ELSE @,
                 !.searchActive = @ \/ b.value = Label]
  ELSE [b EXCEPT !.active = FALSE, !.value = Label, !.searchActive = FALSE]

(* Activate: with an open window of results the panel stays active. *)
Activate(b, isActive) ==
  IF isActive \/ b.resultsShown
  THEN [b EXCEPT !.active = TRUE,
                 !.value = IF @ = Label THEN <<>> ELSE @,
                 !.searchActive = @ \/ b.value = Label]
  ELSE [b EXCEPT !.active = FALSE, !.value = Label, !.searchActive = FALSE,
                 !.lastSearchValue = <<>>]

(* The focus moves; OnSearchFieldFocus is called for the field it leaves or *)
(* comes to.                                                                *)
MoveFocus(b, to) ==
  LET left == IF b.focus = At("field") /\ to # b.focus
              THEN Activate(b, FALSE) ELSE b
      moved == [left EXCEPT !.focus = to]
  IN  IF to = At("field") /\ to # b.focus THEN Activate(moved, TRUE) ELSE moved

(* Fault: the timer that hides the popup is not stopped. *)
OnSearchSelectShowFault(b) == [b EXCEPT !.selectShown = TRUE]

(* The timer started last is stopped, if it is pending. *)
OnSearchSelectShow(b) ==
  [b EXCEPT !.selectShown = TRUE, !.hideTimers = IF @ > 0 THEN @ - 1 ELSE 0]

OnSearchSelectHide(b) == [b EXCEPT !.hideTimers = @ + 1]

(* What is hidden cannot keep the focus, and has no pointer over it. *)
CloseSelectionWindow(b) ==
  [b EXCEPT !.selectShown = FALSE,
            !.focus = IF @.at = "filter" THEN At("none") ELSE @,
            !.pointer = IF @ = "popup" THEN "away" ELSE @]

CloseResultsWindow(b) ==
  Activate([b EXCEPT !.resultsShown = FALSE], FALSE)

(* Beyond the last filter the index has no entry in the table of sections,  *)
(* and the script ends with an exception.                                   *)
Raises(b) == b.searchIndex = NumFilters

(* Fault: a window that is open keeps its page. *)
SearchFault(b) ==
  LET c == [b EXCEPT !.keyTimeout = FALSE,
                     !.orphans = @ + (IF b.keyTimeout THEN 1 ELSE 0)]
      text == StripLeading(b.value)
  IN  IF Raises(b)
      THEN c
      ELSE [c EXCEPT !.loading = IF b.resultsShown THEN @
                                 ELSE ResultsPage(b.searchIndex, text),
                     !.resultsShown = TRUE,
                     !.lastSearchValue = text]

(* Search: the reference to the timer is dropped, whether it is pending or  *)
(* not; the frame is told what to load and the window is shown.             *)
Search(b) ==
  LET c == [b EXCEPT !.keyTimeout = FALSE,
                     !.orphans = @ + (IF b.keyTimeout THEN 1 ELSE 0)]
      text == StripLeading(b.value)
  IN  IF Raises(b)
      THEN c
      ELSE [c EXCEPT !.loading = ResultsPage(b.searchIndex, text),
                     !.resultsShown = TRUE,
                     !.lastSearchValue = text]

SearchesAt(b) == NoSpaces(b.value) # <<>> /\ b.searchActive

(* A filter is selected; if something is entered, it is searched at once.   *)
OnSelectItem(b, id) ==
  LET c == [b EXCEPT !.searchIndex = id]
  IN  IF SearchesAt(c) THEN Search(c) ELSE c

(* A key in the popup.  Down goes on as long as the index is less than the  *)
(* number of filters.  Enter and Escape are done with the popup, unless the *)
(* search fails; then Enter still follows the link that has the focus.      *)
OnSearchSelectKey(b, key) ==
  LET selected == OnSelectItem(b, b.searchIndex)
  IN  CASE key = "down" /\ b.searchIndex < NumFilters ->
             OnSelectItem(b, b.searchIndex + 1)
        [] key = "up" /\ b.searchIndex > 0 ->
             OnSelectItem(b, b.searchIndex - 1)
        [] key \in {"enter", "escape"} ->
             IF ~(SearchesAt(b) /\ Raises(b))
             THEN MoveFocus(CloseSelectionWindow(selected), At("field"))
             ELSE IF key = "enter"
                  THEN OnSelectItem(selected, b.focus.item[1])
                  ELSE selected
        [] OTHER -> b

(* The end of OnSearchFieldChange: what is entered is compared, without any *)
(* blanks, with what was searched last.                                     *)
CompareValue(b) ==
  LET text == NoSpaces(b.value)
  IN  CASE text = b.lastSearchValue -> b
        [] text # b.lastSearchValue /\ text # <<>> ->
             [b EXCEPT !.keyTimeout = TRUE]
        [] text # b.lastSearchValue /\ text = <<>> ->
             [b EXCEPT !.resultsShown = FALSE, !.lastSearchValue = <<>>]

(* A key is released in the field: OnSearchFieldChange.                     *)
OnSearchFieldChange(b, key) ==
  LET c == [b EXCEPT !.keyTimeout = FALSE]
      hidden == [MoveFocus(c, At("none")) EXCEPT !.resultsShown = FALSE,
                                                 !.lastSearchValue = <<>>]
  IN  CASE key = "shift+down" -> MoveFocus(OnSearchSelectShow(c), Filter(0))
        [] key = "escape" -> Activate(hidden, FALSE)
        [] key \in {"down", "enter"} ->
             CompareValue([c EXCEPT !.takeFocus = TRUE])
        [] OTHER -> CompareValue(c)

-----------------------------------------------------------------------------
(* The page of results                                                     *)

(* The reader follows the link of position p: the list of an item with      *)
(* several results is opened or closed; a result closes the window, and the *)
(* browser goes there: to another place of this page, or to another page.   *)
FollowLink(p) ==
  IF p[2] = 0 /\ p[1] \in Lists
  THEN /\ doc' = [doc EXCEPT !.open = IF p[1] \in @ THEN @ \ {p[1]}
                                      ELSE @ \union {p[1]}]
       /\ panel' = [panel EXCEPT !.focus = InResults(p)]
  ELSE \/ /\ panel' = MoveFocus(CloseResultsWindow(panel), At("none"))
          /\ UNCHANGED doc
       \/ panel' = InitialPanel /\ doc' = EmptyDoc

(* Fault: the arrow to the left folds the list a child is in. *)
NavigateFault(key, p, d) ==
  LET up == Up(d.shown, d.open, p)
      down == Down(d.shown, d.open, p)
  IN  /\ panel' =
           CASE key = "up" ->
                  MoveFocus(panel, IF up = Nowhere THEN At("field")
                                   ELSE InResults(up))
             [] key = "down" /\ down # Nowhere ->
                  MoveFocus(panel, InResults(down))
             [] key = "escape" ->
                  MoveFocus(CloseResultsWindow(panel), At("field"))
             [] OTHER -> panel
      /\ doc' = [d EXCEPT !.open =
                   IF key = "right" THEN @ \union ({p[1]} \intersect Lists)
                   ELSE IF key = "left" THEN @ \ {p[1]} ELSE @]

(* What Nav and NavChild do for a key at position p; d is the page after    *)
(* ProcessKeys.                                                             *)
Navigate(key, p, d) ==
  LET up == Up(d.shown, d.open, p)
      down == Down(d.shown, d.open, p)
      onItem == p[2] = 0 /\ p[1] \in Lists
  IN  /\ panel' =
           CASE key = "up" ->
                  MoveFocus(panel, IF up = Nowhere THEN At("field")
                                   ELSE InResults(up))
             [] key = "down" /\ down # Nowhere ->
                  MoveFocus(panel, InResults(down))
             [] key = "escape" ->
                  MoveFocus(CloseResultsWindow(panel), At("field"))
             [] OTHER -> panel
      /\ doc' =
           [d EXCEPT !.open = IF key = "right" /\ onItem THEN @ \union {p[1]}
                              ELSE IF key = "left" /\ onItem THEN @ \ {p[1]}
                              ELSE @]

-----------------------------------------------------------------------------
(* The reader                                                              *)

(* A key goes down, or is repeated while it is held. *)
KeyDown(key) ==
  /\ key \in KeysAt(panel.focus.at)
  /\ held \in {NoKey, key}
  /\ held' = key
  /\ \/ /\ panel.focus.at = "field"
        /\ IF key = "type"
           THEN \E t \in Texts : panel' = [panel EXCEPT !.value = t]
           ELSE UNCHANGED panel
        /\ UNCHANGED doc
     \/ /\ panel.focus.at = "filter"
        /\ panel' = OnSearchSelectKey(panel, key)
        /\ UNCHANGED doc
     \/ /\ panel.focus.at = "results"
        /\ IF key = "enter"
           THEN FollowLink(panel.focus.item)
           ELSE Navigate(key, panel.focus.item,
                         [doc EXCEPT !.lastKey = key, !.repeatOn = FALSE])

(* A held key produces characters: the first one is ignored, for it was     *)
(* dealt with when the key went down; for others the last key counts again. *)
KeyPress ==
  /\ held \notin {NoKey, "enter"}
  /\ panel.focus.at = "results"
  /\ IF doc.repeatOn
     THEN /\ doc.lastKey # NoKey
          /\ Navigate(doc.lastKey, panel.focus.item, doc)
     ELSE /\ doc.lastKey # NoKey
          /\ doc' = [doc EXCEPT !.repeatOn = TRUE]
          /\ UNCHANGED panel
  /\ UNCHANGED held

KeyUp ==
  /\ held # NoKey
  /\ held' = NoKey
  /\ panel' = IF panel.focus.at = "field"
              THEN OnSearchFieldChange(panel, held) ELSE panel
  /\ doc' = IF panel.focus.at = "results" /\ held # "enter"
            THEN [doc EXCEPT !.lastKey = NoKey, !.repeatOn = FALSE] ELSE doc

(* The reader uses the mouse with no key held. *)
Mouse == held = NoKey /\ UNCHANGED held

ClickField ==
  Mouse /\ panel' = MoveFocus(panel, At("field")) /\ UNCHANGED doc

ClickElsewhere ==
  Mouse /\ panel' = MoveFocus(panel, At("none")) /\ UNCHANGED doc

ClickClose ==
  /\ Mouse /\ panel.resultsShown
  /\ panel' = CloseResultsWindow(MoveFocus(panel, At("none")))
  /\ UNCHANGED doc

ClickFilter(j) ==
  /\ Mouse /\ panel.selectShown
  /\ panel.keyTimeout => panel.orphans < MaxOrphans
  /\ panel' = OnSelectItem(MoveFocus(panel, Filter(j)), j)
  /\ UNCHANGED doc

(* The focus has left the field before. *)
ClickResult(p) ==
  /\ Mouse /\ panel.resultsShown
  /\ p \in Displayed(doc.shown, doc.open)
  /\ panel.focus.at # "field"
  /\ FollowLink(p)

PointerEnters(place) ==
  /\ Mouse /\ panel.pointer = "away"
  /\ place = "popup" => panel.selectShown
  /\ panel' = OnSearchSelectShow([panel EXCEPT !.pointer = place])
  /\ UNCHANGED doc

PointerLeaves ==
  /\ Mouse /\ panel.pointer # "away"
  /\ panel' = OnSearchSelectHide([panel EXCEPT !.pointer = "away"])
  /\ UNCHANGED doc

Reader ==
  \/ \E key \in Keys : KeyDown(key)
  \/ KeyPress \/ KeyUp
  \/ ClickField \/ ClickElsewhere \/ ClickClose
  \/ \E j \in Filters : ClickFilter(j)
  \/ \E p \in Positions : ClickResult(p)
  \/ \E place \in {"image", "popup"} : PointerEnters(place)
  \/ PointerLeaves

-----------------------------------------------------------------------------
(* The browser                                                             *)

(* A timer of Search fires; a forgotten one is older than the other. *)
KeyTimer ==
  /\ panel.orphans > 0 \/ panel.keyTimeout
  /\ panel' = IF panel.orphans > 0
              THEN Search([panel EXCEPT !.orphans = @ - 1])
              ELSE Search([panel EXCEPT !.keyTimeout = FALSE])
  /\ UNCHANGED <<doc, held>>

HideTimer ==
  /\ panel.hideTimers > 0
  /\ panel' = CloseSelectionWindow([panel EXCEPT !.hideTimers = @ - 1])
  /\ UNCHANGED <<doc, held>>

(* The frame has loaded a page: its items are made (createResults), and the *)
(* ones that match the text are displayed.  The page before it is gone,     *)
(* with the focus and with a message it has not received.                   *)
FrameLoads ==
  /\ panel.loading # NoPage
  /\ doc' = [EmptyDoc EXCEPT
               !.page = [panel.loading EXCEPT !.text = Strip(@)],
               !.shown = IF panel.loading.name = "nomatches" THEN {}
                         ELSE Found[Strip(panel.loading.text)]]
  /\ panel' = [panel EXCEPT !.loading = NoPage, !.takeFocus = FALSE,
                            !.focus = IF @.at = "results" THEN At("none")
                                      ELSE @]
  /\ UNCHANGED held

(* The message "take_focus" arrives; in a window that is not displayed no   *)
(* link can have the focus.                                                 *)
TakeFocus ==
  /\ panel.takeFocus
  /\ LET first == NavNext(doc.shown, 0)
         asked == [panel EXCEPT !.takeFocus = FALSE]
     IN  panel' = IF first = Nowhere \/ ~panel.resultsShown
                  THEN asked ELSE MoveFocus(asked, InResults(first))
  /\ UNCHANGED <<doc, held>>

Next == Reader \/ KeyTimer \/ HideTimer \/ FrameLoads \/ TakeFocus

(* Of a search that is due and a page to be loaded, the browser gets to one *)
(* or the other; the reader may do anything or nothing.                     *)
Fairness == WF_vars(KeyTimer \/ FrameLoads)

Spec == Init /\ [][Next]_vars /\ Fairness

-----------------------------------------------------------------------------
(* Properties                                                              *)

KeyTimerPending == panel.keyTimeout \/ panel.orphans > 0

(* A panel that nobody uses is as it was in the beginning: without the      *)
(* focus in the field and without results the label is in the field and the *)
(* last search is forgotten, by whichever of the handlers and in whatever   *)
(* order the panel got there.                                               *)
QuietPanelIsReset ==
  /\ PanelTypeOK
  /\ panel.focus.at # "field" /\ ~panel.resultsShown =>
       /\ ~panel.active /\ panel.value = Label /\ ~panel.searchActive
       /\ panel.lastSearchValue = <<>>

(* The popup is never taken away from under the pointer by a timer: as long *)
(* as the pointer is over it or over its image no timer is pending.         *)
PopupStaysUnderPointer == panel.pointer # "away" => panel.hideTimers = 0

(* The focus is never in a window, an item or a list that is not displayed, *)
(* where the reader would not find it again.                                *)
FocusIsDisplayed ==
  panel.focus.at = "results" =>
    /\ panel.resultsShown
    /\ panel.focus.item \in Displayed(doc.shown, doc.open)

(* Arrow up takes back what arrow down did, at every place of the page that *)
(* is displayed, whatever lists are open.                                   *)
UpUndoesDown ==
  \A p \in Displayed(doc.shown, doc.open) :
    LET q == Down(doc.shown, doc.open, p)
    IN  q # Nowhere => /\ q \in Displayed(doc.shown, doc.open)
                       /\ Up(doc.shown, doc.open, q) = p

(* What is due to be searched is searched: as long as the reader stays in   *)
(* the field and lets its text alone, the window shows the results for that *)
(* text in the end, whatever timers are pending and whatever page the frame *)
(* was loading when the text was entered.                                   *)
Waiting ==
  /\ panel.focus.at = "field" /\ held = NoKey
  /\ panel.searchActive /\ NoSpaces(panel.value) # <<>> /\ ~Raises(panel)
Answered ==
  /\ ~Raises(panel) /\ panel.resultsShown /\ panel.loading = NoPage
  /\ doc.page = ResultsPage(panel.searchIndex, Strip(panel.value))
EnteredIsSearched == Waiting /\ KeyTimerPending ~> Answered \/ ~Waiting

(* The window of results opens only while the panel is active: "Activates   *)
(* or deactivates the search panel, resetting things to their default       *)
(* values" reads the comment of Activate.                                   *)
OpensOnlyWhenActive ==
  [][~panel.resultsShown /\ panel'.resultsShown => panel.searchActive]_vars
=============================================================================
