----------------------------- MODULE MCScraper -----------------------------
(***************************************************************************)
(* Scraper by itself for TLC.                                              *)
(***************************************************************************)
EXTENDS Scraper

TwoMethods == <<"coverage/show", "memory/show">>
=============================================================================
