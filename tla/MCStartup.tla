----------------------------- MODULE MCStartup ------------------------------
(***************************************************************************)
(* A job on one process, on four that are spread over two machines so that *)
(* neither the ranks of a workgroup nor those of the heads follow one      *)
(* another, and on three with a machine each.                              *)
(***************************************************************************)
EXTENDS Startup

MCPlacements ==
  { [p \in {0} |-> 1],
    [p \in 0..3 |-> IF p = 2 THEN 2 ELSE 1],
    [p \in 0..2 |-> 1 + p] }
=============================================================================
