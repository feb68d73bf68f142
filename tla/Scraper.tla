------------------------------ MODULE Scraper ------------------------------
(***************************************************************************)
(* internal/scrape.Scraper driving datasource.NewOVSRefresh: one goroutine *)
(* (Run) refreshes the ovs-vswitchd snapshot at once and then on every     *)
(* tick; a refresh makes the unixctl calls one after the other, keeps what *)
(* parses, and publishes first its Outcome and then its snapshot in two    *)
(* atomic pointers that collectors (Snapshot) and /readyz (Stale) load     *)
(* without a lock, at any moment: what they can see is what holds in every *)
(* state.                                                                  *)
(*                                                                         *)
(* Time is counted in units.  Instants are kept as ages, so that no clock  *)
(* grows: an age stops counting at AgeBound, one more than any age the     *)
(* program compares.  Only a unixctl call and the wait for the next tick   *)
(* take time.                                                              *)
(***************************************************************************)
EXTENDS Naturals, FiniteSets, SequencesExt

CONSTANTS Methods,    \* the unixctl methods of a refresh, in calling order
          TTL,        \* --cache.ttl
          DefaultTTL, \* the 15s that New puts in place of a zero Interval
          CallBound,  \* longest call: DialTimeout + CallTimeout
          None        \* a nil pointer

Names == ToSet(Methods)

ASSUME MethodsAssumption ==
  Methods \in Seq(Names) /\ Methods # <<>> /\ Cardinality(Names) = Len(Methods)
ASSUME TTLAssumption == TTL \in Nat /\ DefaultTTL \in Nat \ {0}
ASSUME CallBoundAssumption == CallBound \in Nat
ASSUME NoneAssumption ==
  None \notin [success : BOOLEAN, age : Nat] \cup [fields : SUBSET Names, age : Nat]

VARIABLES ctx,      \* scrapeCtx
          pc,       \* where Run is
          made,     \* calls this refresh has made (attempts)
          got,      \* fields of the snapshot being assembled
          begun,    \* age of this refresh (start := time.Now())
          calling,  \* age of the call in progress
          outcome,  \* s.outcome
          snap,     \* s.snap
          toTick,   \* time to the next tick, 0 while there is no ticker
          tick,     \* t.C holds a tick
          healthy   \* ovs-vswitchd answers every method (environment)

runVars == <<pc, made, got, begun, calling>>
published == <<outcome, snap>>
clock == <<toTick, tick>>
vars == <<ctx, pc, made, got, begun, calling, outcome, snap, toTick, tick,
          healthy>>

\* New: an Interval of zero means the default.
Interval == IF TTL = 0 THEN DefaultTTL ELSE TTL

\* Seeded fault: a threshold of two intervals.
MaxAgeTwoIntervals == 2 * TTL

\* buildReadyChecks passes the flag, not the scraper's interval.
MaxAge == 3 * TTL

AgeBound == 3 * Interval + Len(Methods) * CallBound + 1
Older(a) == IF a < AgeBound THEN a + 1 ELSE AgeBound
Ages == 0 .. AgeBound

Init ==
  /\ ctx = "live" /\ pc = "call" /\ made = 0 /\ got = {}
  /\ begun = 0 /\ calling = 0
  /\ outcome = None /\ snap = None
  /\ toTick = 0 /\ tick = FALSE
  /\ healthy \in BOOLEAN

-----------------------------------------------------------------------------
(* NewOVSRefresh: the calls.                                               *)

NextCall ==
  /\ made' = made + 1 /\ calling' = 0
  /\ pc' = IF made' = Len(Methods) THEN "publish" ELSE "call"

\* A reply came back and its parser took it.
CallSucceeds ==
  /\ pc = "call"
  /\ NextCall
  /\ got' = got \cup {Methods[made + 1]}
  /\ UNCHANGED <<ctx, begun, published, clock, healthy>>

\* A transport error, the daemon's error or a reply that does not parse: the
\* field stays nil and the refresh goes on.
CallFails ==
  /\ pc = "call" /\ (~healthy \/ ctx = "canceled")
  /\ NextCall
  /\ UNCHANGED <<ctx, got, begun, published, clock, healthy>>

-----------------------------------------------------------------------------
(* Refresh: publication.  The refresh has failed when every call has.      *)

\* Seeded fault: the ticker is given twice the interval.
RefreshReturnsLateTicker ==
  /\ pc' = "select"
  /\ toTick' = IF toTick = 0 THEN 2 * Interval ELSE toTick

\* Refresh returns to Run; the ticker starts after the first refresh.
RefreshReturns ==
  /\ pc' = "select"
  /\ toTick' = IF toTick = 0 THEN Interval ELSE toTick

\* Seeded fault: the error of the refresh does not reach the outcome.
StoreOutcomeAlwaysSuccess ==
  /\ pc = "publish"
  /\ outcome' = [success |-> TRUE, age |-> begun]
  /\ IF got # {} THEN pc' = "store" /\ UNCHANGED toTick ELSE RefreshReturns
  /\ UNCHANGED <<ctx, made, got, begun, calling, snap, tick, healthy>>

\* Seeded fault: Run gives up on the first refresh that fails.
StoreOutcomeThenStop ==
  /\ pc = "publish"
  /\ outcome' = [success |-> got # {}, age |-> begun]
  /\ pc' = IF got # {} THEN "store" ELSE "done"
  /\ UNCHANGED <<ctx, made, got, begun, calling, snap, clock, healthy>>

StoreOutcome ==
  /\ pc = "publish"
  /\ outcome' = [success |-> got # {}, age |-> begun]
  /\ IF got # {} THEN pc' = "store" /\ UNCHANGED toTick ELSE RefreshReturns
  /\ UNCHANGED <<ctx, made, got, begun, calling, snap, tick, healthy>>

StoreSnapshot ==
  /\ pc = "store"
  /\ snap' = [fields |-> got, age |-> begun]
  /\ RefreshReturns
  /\ UNCHANGED <<ctx, made, got, begun, calling, outcome, tick, healthy>>

-----------------------------------------------------------------------------
(* Run: select between the context and the ticker.                         *)

\* Seeded fault: one snapshot value is reused by every refresh.
SelectTickFieldsKept ==
  /\ pc = "select" /\ tick
  /\ tick' = FALSE
  /\ pc' = "call" /\ made' = 0 /\ begun' = 0 /\ calling' = 0
  /\ UNCHANGED <<ctx, got, published, toTick, healthy>>

SelectTick ==
  /\ pc = "select" /\ tick
  /\ tick' = FALSE
  /\ pc' = "call" /\ made' = 0 /\ got' = {} /\ begun' = 0 /\ calling' = 0
  /\ UNCHANGED <<ctx, published, toTick, healthy>>

\* Seeded fault: Run selects on the ticker only.
SelectDoneMissing == FALSE /\ UNCHANGED vars

SelectDone ==
  /\ pc = "select" /\ ctx = "canceled"
  /\ pc' = "done" /\ toTick' = 0 /\ tick' = FALSE
  /\ UNCHANGED <<ctx, made, got, begun, calling, published, healthy>>

-----------------------------------------------------------------------------
(* Stale, as /readyz evaluates it.                                         *)

Ready ==
  /\ outcome # None
  /\ outcome.success
  /\ outcome.age <= MaxAge

-----------------------------------------------------------------------------
(* Environment: the clock, the daemon, and main's scrapeCancel.            *)

Aged(p) == IF p = None THEN None ELSE [p EXCEPT !.age = Older(@)]

\* One unit of time: a call in progress may use it while its deadline allows,
\* Run waits for it in select, and is gone once done.  A tick that finds the
\* channel full is dropped.
TimePasses ==
  /\ \/ pc = "call" /\ calling < CallBound
     \/ pc = "select" /\ ~tick /\ ctx = "live"
     \/ pc = "done"
  /\ begun' = Older(begun)
  /\ calling' = IF pc = "call" THEN calling + 1 ELSE calling
  /\ outcome' = Aged(outcome) /\ snap' = Aged(snap)
  /\ toTick' = IF toTick = 1 THEN Interval ELSE IF toTick = 0 THEN 0 ELSE toTick - 1
  /\ tick' = (tick \/ toTick = 1)
  /\ UNCHANGED <<ctx, pc, made, got, healthy>>

Cancel ==
  /\ ctx = "live" /\ ctx' = "canceled"
  /\ UNCHANGED <<runVars, published, clock, healthy>>

HealthChanges ==
  /\ healthy' = ~healthy
  /\ UNCHANGED <<ctx, runVars, published, clock>>

-----------------------------------------------------------------------------
Refresh == CallSucceeds \/ CallFails \/ StoreOutcome \/ StoreSnapshot

Next ==
  \/ Refresh \/ SelectTick \/ SelectDone
  \/ TimePasses \/ Cancel \/ HealthChanges

\* The goroutine runs and time goes by; select picks at random among the ready
\* cases, so a cancelled context is not passed over for ever.
Fairness ==
  /\ WF_vars(Refresh) /\ WF_vars(SelectTick) /\ SF_vars(SelectDone)
  /\ WF_vars(TimePasses)

Spec == Init /\ [][Next]_vars /\ Fairness

-----------------------------------------------------------------------------
(* Properties.                                                             *)

Places == {"call", "publish", "store", "select", "done"}

\* Every variable stays in its type; a call never outlasts its deadlines.
TypeOK ==
  /\ ctx \in {"live", "canceled"} /\ pc \in Places
  /\ made \in 0 .. Len(Methods) /\ got \in SUBSET Names
  /\ begun \in Ages /\ calling \in 0 .. CallBound
  /\ outcome \in {None} \cup [success : BOOLEAN, age : Ages]
  /\ snap \in {None} \cup [fields : SUBSET Names, age : Ages]
  /\ toTick \in 0 .. Interval /\ tick \in BOOLEAN
  /\ healthy \in BOOLEAN

\* While /readyz answers 200 there is a snapshot to serve, with at least one
\* field, taken by the refresh the answer rests on; or the answer has come between
\* the two stores of Refresh (scraper.go:116, 125), and then that refresh has a
\* field about to be served in place of an older snapshot, or of none.
ReadyServesSnapshot ==
  Ready =>
    \/ /\ pc # "store"
       /\ snap # None /\ snap.fields # {} /\ snap.age = outcome.age
    \/ /\ pc = "store"
       /\ got # {} /\ begun = outcome.age
       /\ snap # None => snap.fields # {} /\ snap.age > outcome.age

\* While Run is not cancelled the age of the last attempt never reaches the
\* threshold of /readyz: as long as every call keeps to CallBound and two refreshes
\* and an interval fit into MaxAge, a live exporter is never reported stale, slow
\* or failing as the daemon may be (scraper.go:95, ovs_exporter.go:172, 269).
NeverStaleWhileRunning ==
  ctx = "live" /\ outcome # None => outcome.age <= MaxAge

\* Once the daemon answers for good the snapshot is soon complete and /readyz
\* stays 200 (scraper.go:135-148).
Recovers ==
  <>[](healthy /\ ctx = "live") =>
    <>[](Ready /\ snap # None /\ snap.fields = Names)

\* The scraper implements Publication: a snapshot is replaced by a younger one
\* with fields of the same refresh or not at all, whichever calls fail
\* (refresh.go:23-31, 77; scraper.go:110-130).
Promise == INSTANCE Publication WITH
  began <- begun, fields <- got,
  attempt <- CASE pc \in {"call", "publish"} -> "open"
               [] pc = "store" -> "reported"
               [] pc \in {"select", "done"} -> "closed"

ImplementsPublication == Promise!Spec

\* After scrapeCancel, Run returns (scraper.go:141-143).
RunReturns == ctx = "canceled" ~> pc = "done"
=============================================================================
