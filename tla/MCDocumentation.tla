-------------------------- MODULE MCDocumentation ---------------------------
(***************************************************************************)
(* A small page of the documentation: its search panel with one filter, a  *)
(* page of three results, the first one a list, and a table of ten rows on *)
(* four levels.  The two do not touch each other, and a reader uses the    *)
(* one or the other.                                                       *)
(***************************************************************************)
EXTENDS SearchPanel, DirectoryTree

VARIABLE using   \* what the reader uses: "panel" or "table"

pageVars == <<panel, doc, held, visible, unfolded, even, using>>

MCNumChildren == (0 :> 1) @@ (1 :> 0) @@ (2 :> 0)
MCNames == (0 :> <<97>>) @@ (1 :> <<97, 98>>) @@ (2 :> <<98>>)
MCLabel == <<83>>
MCTexts == {<<>>, <<32, 65>>}
MCContents == [j \in {0} |-> {97, 98}]
MCRows == {<<0>>, <<0, 0>>, <<0, 0, 0>>, <<0, 0, 1>>, <<0, 1>>, <<0, 1, 0>>,
           <<0, 1, 0, 0>>, <<1>>, <<1, 0>>, <<2>>}

PageInit ==
  /\ Init
  /\ \/ using = "panel" /\ DisplayedTo(1)
     \/ using = "table" /\ TreeInit

PageNext ==
  /\ UNCHANGED using
  /\ \/ using = "panel" /\ Next /\ UNCHANGED treeVars
     \/ using = "table" /\ TreeNext /\ UNCHANGED vars

PageSpec == PageInit /\ [][PageNext]_pageVars /\ Fairness

(* Words of control characters, `!', digits and letters; numbers of items   *)
(* some of which begin with the digits of the code of `!'.                  *)
Words == BoundedSeq({1, 31, 33, 49, 102}, 2)
Numbers == {0, 1, 21, 211}

(* Of a text with other characters than digits and letters, the end may be  *)
(* found in the number of an item, behind its whole name.                   *)
MatchesByName ==
  \A t, name \in Words : \A i \in Numbers :
    /\ IsPrefix(t, name) => IsPrefix(SearchId(t), RowId(name, i))
    /\ IsPrefix(SearchId(t), RowId(name, i)) =>
         \/ IsPrefix(t, name)
         \/ IsPrefix(name, t) /\ \E k \in DOMAIN t : ~Kept(t[k])

(* A page of results displays the items whose name begins with what was     *)
(* entered, without the blanks around it and in any case, although what is  *)
(* compared are ids; and no conversion to an id takes a text for another.   *)
SearchFindsNames ==
  /\ MatchesByName
  /\ doc.page.name = "results" =>
       LET text == doc.page.text
           lower == [k \in DOMAIN text |-> Lower(text[k])]
       IN  doc.shown = {i \in Items : IsPrefix(lower, Names[i])}
=============================================================================
