--------------------------- MODULE DirectoryTree ----------------------------
(***************************************************************************)
(* The table of files and classes in the HTML documentation, whose rows    *)
(* the reader folds and unfolds (documentation/html/dynsections.js).       *)
(*                                                                         *)
(* A row is the sequence of numbers in its id: <<1, 0>> is `row_1_0_', a   *)
(* row directly below `row_1_'.  The script keeps no state of its own: it  *)
(* decides what a click means from the style of some of the rows, and      *)
(* leaves the icons of rows it hides as they are.                          *)
(***************************************************************************)
EXTENDS Naturals, FiniteSets, Sequences

CONSTANT Rows   \* the rows of the table

(* Every row but those of the first level stands below another one, and     *)
(* the rows directly below one are numbered from 0.                         *)
ASSUME RowsAssumption ==
  /\ IsFiniteSet(Rows)
  /\ \A r \in Rows : r \in Seq(Nat) /\ r # <<>>
  /\ \A r \in Rows : Len(r) > 1 =>
       /\ SubSeq(r, 1, Len(r) - 1) \in Rows
       /\ Append(SubSeq(r, 1, Len(r) - 1), 0) \in Rows

VARIABLES visible,    \* the rows that are displayed
          unfolded,   \* the rows whose icon and arrow say they are unfolded
          even        \* the rows with the style of an even row

treeVars == <<visible, unfolded, even>>

Parent(r) == SubSeq(r, 1, Len(r) - 1)
ChildRows(r) == {x \in Rows : Len(x) = Len(r) + 1 /\ Parent(x) = r}
RowsBelow(r) == {x \in Rows : Len(x) > Len(r) /\ SubSeq(x, 1, Len(r)) = r}
FirstChild(r) == Append(r, 0)
Folders == {r \in Rows : ChildRows(r) # {}}

(* Row x stands before row y in the table. *)
Before(x, y) ==
  \/ Len(x) < Len(y) /\ SubSeq(y, 1, Len(x)) = x
  \/ \E n \in DOMAIN x \intersect DOMAIN y :
       x[n] < y[n] /\ \A k \in 1 .. n - 1 : x[k] = y[k]

TreeTypeOK ==
  /\ visible \subseteq Rows
  /\ unfolded \subseteq Folders
  /\ even \subseteq Rows

-----------------------------------------------------------------------------

(* Fault: hidden rows are counted too. *)
UpdateStripesFault ==
  even' = {r \in visible' :
             Cardinality({x \in Rows : Before(x, r)}) % 2 = 0}

(* Every second of the rows displayed afterwards, beginning with the first. *)
UpdateStripes ==
  even' = {r \in visible' :
             Cardinality({x \in visible' : Before(x, r)}) % 2 = 0}

(* The detail level of the table: deeper rows are hidden, with their icons  *)
(* as they were.                                                            *)
ToggleLevel(level) ==
  /\ visible' = {r \in Rows : Len(r) <= level}
  /\ unfolded' = {r \in Folders : Len(r) < level}
                    \union {r \in unfolded : Len(r) > level}
  /\ UpdateStripes

(* Fault: the icons of the rows that appear are left as they were. *)
ShowFault(r) ==
  /\ unfolded' = unfolded \union {r}
  /\ visible' = visible \union ChildRows(r)

(* The rows directly below appear, all of them folded. *)
Show(r) ==
  /\ unfolded' = (unfolded \ ChildRows(r)) \union {r}
  /\ visible' = visible \union ChildRows(r)

(* All rows below disappear, at whatever level. *)
Hide(r) ==
  /\ unfolded' = unfolded \ {r}
  /\ visible' = visible \ RowsBelow(r)

(* A click on the icon or the arrow of a folder; what it does depends on    *)
(* whether the first row below is displayed.                                *)
ToggleFolder(r) ==
  /\ r \in visible
  /\ IF FirstChild(r) \in visible THEN Hide(r) ELSE Show(r)
  /\ UpdateStripes

Levels == {Len(r) : r \in Rows}

(* A page is generated with the rows down to some level displayed. *)
DisplayedTo(level) ==
  /\ visible = {r \in Rows : Len(r) <= level}
  /\ unfolded = {r \in Folders : Len(r) < level}
  /\ even = {r \in visible :
               Cardinality({x \in visible : Before(x, r)}) % 2 = 0}

TreeInit == \E level \in Levels : DisplayedTo(level)

TreeNext ==
  \/ \E level \in Levels : ToggleLevel(level)
  \/ \E r \in Folders : ToggleFolder(r)

TreeSpec == TreeInit /\ [][TreeNext]_treeVars

-----------------------------------------------------------------------------

(* A row is displayed exactly when the row above it is displayed and shows  *)
(* the icon of an unfolded one.  So every icon tells the truth, no row is   *)
(* displayed without the ones it belongs to, and the next click does what   *)
(* the icon promises, however the rows were folded and unfolded before and  *)
(* whatever icons hidden rows were left with.                               *)
IconsTellTheTruth ==
  /\ TreeTypeOK
  /\ \A r \in Rows :
       r \in visible <=>
         (Len(r) > 1 => Parent(r) \in visible /\ Parent(r) \in unfolded)

(* Of two rows displayed next to each other exactly one is an even one.     *)
StripesAlternate ==
  \A x, y \in visible :
    /\ Before(x, y)
    /\ ~ \E z \in visible : Before(x, z) /\ Before(z, y)
    => (x \in even <=> y \notin even)
=============================================================================
