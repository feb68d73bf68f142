---------------------------- MODULE Publication ----------------------------
(***************************************************************************)
(* What a Scraper promises to those who load its two pointers, with the    *)
(* calls, the ticker, the contexts and the daemon left out:                *)
(*                                                                         *)
(*   - every attempt is reported once, as a success exactly if it has      *)
(*     fetched something, and dated by its start;                          *)
(*   - a reported success is followed by a snapshot of the same date, with *)
(*     the fields this attempt has fetched and no other;                   *)
(*   - nothing else touches the snapshot: it gives way to a younger one or *)
(*     stays, and a failed attempt leaves it alone.                        *)
(*                                                                         *)
(* Dates are ages that stop counting at AgeBound.  Scraper implements this *)
(* module (Scraper!ImplementsPublication).                                 *)
(***************************************************************************)
EXTENDS Naturals

CONSTANTS Names,     \* fields a snapshot may have
          None,      \* nothing published yet
          AgeBound

VARIABLES attempt,   \* "open", "reported" as a success, or "closed"
          began,     \* age of the last attempt
          fields,    \* what it has fetched
          outcome, snap

publicationVars == <<attempt, began, fields, outcome, snap>>

Older(a) == IF a < AgeBound THEN a + 1 ELSE AgeBound
Aged(p) == IF p = None THEN None ELSE [p EXCEPT !.age = Older(@)]

Init ==
  /\ attempt = "open" /\ began = 0 /\ fields = {}
  /\ outcome = None /\ snap = None

Begin ==
  /\ attempt = "closed" /\ attempt' = "open"
  /\ began' = 0 /\ fields' = {}
  /\ UNCHANGED <<outcome, snap>>

Fetch(m) ==
  /\ attempt = "open"
  /\ fields' = fields \cup {m}
  /\ UNCHANGED <<attempt, began, outcome, snap>>

Report ==
  /\ attempt = "open"
  /\ outcome' = [success |-> fields # {}, age |-> began]
  /\ attempt' = IF fields # {} THEN "reported" ELSE "closed"
  /\ UNCHANGED <<began, fields, snap>>

Replace ==
  /\ attempt = "reported" /\ attempt' = "closed"
  /\ snap # None => began < snap.age
  /\ snap' = [fields |-> fields, age |-> began]
  /\ UNCHANGED <<began, fields, outcome>>

\* No time goes by between the report and the snapshot.
Pass ==
  /\ attempt # "reported"
  /\ began' = Older(began)
  /\ outcome' = Aged(outcome) /\ snap' = Aged(snap)
  /\ UNCHANGED <<attempt, fields>>

Next == Begin \/ (\E m \in Names : Fetch(m)) \/ Report \/ Replace \/ Pass

Spec == Init /\ [][Next]_publicationVars
=============================================================================
