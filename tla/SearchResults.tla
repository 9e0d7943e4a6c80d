--------------------------- MODULE SearchResults ----------------------------
(***************************************************************************)
(* The page of search results in the HTML documentation                    *)
(* (documentation/html/search/search.js, createResults and SearchResults). *)
(*                                                                         *)
(* A page lists items.  An item with one result is a link to it; an item   *)
(* with several has a list of children, one link for each, that is folded  *)
(* until the reader opens it.  The search hides the items whose name does  *)
(* not begin with what was searched; the items are sorted by name, so the  *)
(* ones that stay are next to each other.                                  *)
(*                                                                         *)
(* A link of the page is a position <<i, c>>: c = 0 is the link of item i  *)
(* itself (`Item<i>'), c > 0 its child c - 1 (`Item<i>_c<c-1>').           *)
(***************************************************************************)
EXTENDS Integers, SequencesExt

CONSTANTS NumItems,      \* length of searchData
          NumChildren,   \* of each item: the results it lists, 0 if only one
          Names          \* of each item: its name, in lower case

Items == 0 .. NumItems - 1

ASSUME SearchResultsAssumption ==
  /\ NumItems \in Nat
  /\ NumChildren \in [Items -> Nat]
  /\ Names \in [Items -> Seq(Nat)]

Nowhere == <<-1, 0>>
Positions == UNION {{<<i, c>> : c \in 0 .. NumChildren[i]} : i \in Items}

-----------------------------------------------------------------------------
(* Which items match a text.  A character is its code.  The id of an item   *)
(* holds its name, converted like the text, and the number of the item.     *)

Underscore == 95

(* Digits, small letters, and all that is not ASCII. *)
Kept(c) == c \in 48 .. 57 \/ c \in 97 .. 122 \/ c >= 128

HexDigit(d) == IF d < 10 THEN 48 + d ELSE 87 + d

(* Fault: small codes have one digit. *)
CodeFault(c) ==
  IF Kept(c) THEN <<c>>
  ELSE IF c < 16 THEN <<Underscore, HexDigit(c)>>
  ELSE <<Underscore, HexDigit(c \div 16), HexDigit(c % 16)>>

Code(c) ==
  IF Kept(c) THEN <<c>>
  ELSE <<Underscore, HexDigit(c \div 16), HexDigit(c % 16)>>

ConvertToId(t) == FoldLeft(LAMBDA id, c : id \o Code(c), <<>>, t)

Lower(c) == IF c \in 65 .. 90 THEN c + 32 ELSE c

Decimal[n \in Nat] ==
  IF n < 10 THEN <<48 + n>> ELSE Append(Decimal[n \div 10], 48 + (n % 10))

(* Without the prefix `SR_', which Search removes.                          *)
RowId(name, i) == ConvertToId(name) \o <<Underscore>> \o Decimal[i]
RowIds == [i \in Items |-> RowId(Names[i], i)]

SearchId(t) == ConvertToId([k \in DOMAIN t |-> Lower(t[k])])

MatchingItems(t) ==
  LET search == SearchId(t) IN {i \in Items : IsPrefix(search, RowIds[i])}

-----------------------------------------------------------------------------
(* Moving with the arrow keys.  `shown' are the items that are displayed,   *)
(* `open' the ones whose children are.                                      *)

(* The position of the first displayed item from i on, or Nowhere. *)
NavNext(shown, i) ==
  IF \E j \in shown : j >= i
  THEN <<CHOOSE j \in shown : j >= i /\ \A k \in shown : k >= i => j <= k, 0>>
  ELSE Nowhere

(* The position of the last displayed item up to i, or Nowhere. *)
NavPrev(shown, i) ==
  IF \E j \in shown : j <= i
  THEN <<CHOOSE j \in shown : j <= i /\ \A k \in shown : k <= i => j >= k, 0>>
  ELSE Nowhere

(* Fault: the search for the last child goes one too far back. *)
UpFault(shown, open, p) ==
  LET i == p[1]
      prev == NavPrev(shown, i - 1)
  IN  IF p[2] > 0
      THEN <<i, p[2] - 1>>
      ELSE IF prev # Nowhere /\ prev[1] \in open /\ NumChildren[i - 1] > 0
           THEN <<i - 1, NumChildren[i - 1] - 1>>
           ELSE prev

(* Arrow up: from a child to the one before it, or to its item; from an     *)
(* item to the one displayed before it, or to the last of its children if   *)
(* they are open.  The children are looked for at the item just before,     *)
(* which is the one found because displayed items are next to each other.   *)
(* Nowhere stands for the search field.                                     *)
Up(shown, open, p) ==
  LET i == p[1]
      prev == NavPrev(shown, i - 1)
  IN  IF p[2] > 0
      THEN <<i, p[2] - 1>>
      ELSE IF prev # Nowhere /\ prev[1] \in open /\ NumChildren[i - 1] > 0
           THEN <<i - 1, NumChildren[i - 1]>>
           ELSE prev

(* Arrow down; Nowhere stands for staying. *)
Down(shown, open, p) ==
  LET i == p[1]
      first == p[2] = 0
  IN  IF \/ first /\ i \in open /\ NumChildren[i] > 0
         \/ ~first /\ p[2] < NumChildren[i]
      THEN <<i, p[2] + 1>>
      ELSE NavNext(shown, i + 1)

(* What the reader can see of a page. *)
Displayed(shown, open) ==
  {p \in Positions : p[1] \in shown /\ (p[2] = 0 \/ p[1] \in open)}

(* The items that stay displayed are next to each other. *)
Contiguous(shown) ==
  \A i, k \in shown : \A j \in Items : i <= j /\ j <= k => j \in shown

(* The lists of the page that can be opened. *)
Lists == {i \in Items : NumChildren[i] > 0}
=============================================================================
