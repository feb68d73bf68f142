---------------------------- MODULE MCReadiness ----------------------------
(***************************************************************************)
(* Readiness and its Scraper for TLC: three methods in place of five, each *)
(* of which may take no time or a unit, so that a refresh can take as long *)
(* as an interval.                                                         *)
(***************************************************************************)
EXTENDS Readiness

ThreeMethods == <<"coverage/show", "memory/show", "dpif/show">>
=============================================================================
