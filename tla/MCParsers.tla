----------------------------- MODULE MCParsers -----------------------------
(***************************************************************************)
(* Parsers for TLC: two names of each sort and two counters, so that names *)
(* come back, lines set one counter and leave the other, and a later line  *)
(* overrides an earlier one.                                               *)
(***************************************************************************)
EXTENDS Parsers

SomeAssignments ==
  {<<>>, "hit" :> 1, "hit" :> 2, "missed" :> 1, "handler 0" :> 1}
=============================================================================
