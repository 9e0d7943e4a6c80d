------------------------- MODULE MCProbsatExecution -------------------------
(***************************************************************************)
(* ProbsatExecution with the outputs probSAT has: text, then a line with   *)
(* the number of flips, and more text; one in which the marker also stands *)
(* inside a line, where it means nothing; and those of a program that      *)
(* fails before it gives a number.                                         *)
(***************************************************************************)
EXTENDS ProbsatExecution

Answer(flips) == <<"numFlips", flips, "newline">>

Answered ==
  {<<"text", "newline">> \o Answer("few") \o <<"text", "newline">>,
   <<"text", "text", "newline", "newline">> \o Answer("max"),
   <<"text", "numFlips", "max", "newline">> \o Answer("few") \o Answer("max")}

Failed == {<<>>, <<"text", "newline">>, <<"text", "numFlips", "few">>}

AllOutputs == Answered \union Failed
=============================================================================
