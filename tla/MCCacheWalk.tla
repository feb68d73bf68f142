---------------------------- MODULE MCCacheWalk ----------------------------
(***************************************************************************)
(* CacheWalk for TLC: two bridges, two ports and two interfaces, all       *)
(* interchangeable.                                                        *)
(***************************************************************************)
EXTENDS CacheWalk, TLC

RowSymmetry ==
  Permutations(Bridges) \cup Permutations(Ports) \cup Permutations(Interfaces)
=============================================================================
