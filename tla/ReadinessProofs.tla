--------------------------- MODULE ReadinessProofs ---------------------------
(***************************************************************************)
(* Theorems about Scraper, for any methods, any interval and any duration  *)
(* of calls, and about Readiness, which is built on it.  ScraperInv says   *)
(* how old the attempt in progress and the two published values can be at  *)
(* each place of Run: the order of the snapshots (Publication) and what    *)
(* /readyz says of them rest on it.                                        *)
(***************************************************************************)
EXTENDS Readiness, TLAPS

\* The longest a refresh can take.
RefreshTime == Len(Methods) * CallBound

\* When an attempt began: its calls bound its age until it is published, and the
\* ticker bounds it while Run waits; a tick has taken time.
ScheduleInv ==
  /\ pc = "call" =>
       made < Len(Methods) /\ begun <= made * CallBound + calling
  /\ pc \in {"publish", "store"} => begun <= RefreshTime
  /\ pc = "select" =>
       /\ toTick >= 1 /\ begun <= RefreshTime + Interval
       /\ ~tick => begun + toTick <= RefreshTime + Interval
  /\ tick => begun >= 1
  /\ pc = "done" => ctx = "canceled"

\* The outcome is that of this attempt once it has been published, and of the one
\* before until then.
OutcomeInv ==
  /\ pc = "store" => outcome # None /\ outcome.success /\ got # {}
  /\ pc \in {"store", "select"} => outcome # None /\ outcome.age = begun
  /\ pc \in {"call", "publish"} /\ outcome # None =>
       outcome.age <= begun + RefreshTime + Interval

\* The snapshot has something in it, belongs to the outcome if that is a success,
\* and is older than an attempt that has not been published.
SnapshotInv ==
  /\ snap # None => snap.fields # {}
  /\ outcome # None /\ pc # "store" =>
       (outcome.success => snap # None /\ snap.age = outcome.age)
  /\ snap # None /\ pc \in {"call", "publish", "store"} => begun < snap.age
  /\ snap # None /\ pc = "select" => begun <= snap.age

ScraperInv == TypeOK /\ ScheduleInv /\ OutcomeInv /\ SnapshotInv
-----------------------------------------------------------------------------
(* Ages and what is published.                                             *)

\* What the constants are worth.
LEMMA Times ==
  /\ Interval \in Nat /\ Interval >= 1
  /\ Len(Methods) \in Nat /\ Len(Methods) >= 1 /\ RefreshTime \in Nat
  /\ AgeBound \in Nat /\ AgeBound = 3 * Interval + RefreshTime + 1
<1>1. Interval \in Nat /\ Interval >= 1
  BY TTLAssumption DEF Interval
<1>2. Len(Methods) \in Nat /\ Len(Methods) >= 1
  BY MethodsAssumption
<1>3. RefreshTime \in Nat
  BY <1>2, CallBoundAssumption DEF RefreshTime
<1> QED
  BY <1>1, <1>2, <1>3 DEF AgeBound, RefreshTime

\* A call more takes no longer than a refresh.
LEMMA CallsFit ==
  ASSUME NEW m \in Nat, m < Len(Methods)
  PROVE  /\ m * CallBound \in Nat
         /\ (m + 1) * CallBound = m * CallBound + CallBound
         /\ m * CallBound + CallBound <= RefreshTime
<1>1. /\ m * CallBound \in Nat
      /\ (m + 1) * CallBound = m * CallBound + CallBound
  BY CallBoundAssumption
<1>2. PICK k \in Nat : Len(Methods) = (m + 1) + k
  <2>1. Len(Methods) - (m + 1) \in Nat /\ Len(Methods) = (m + 1) + (Len(Methods) - (m + 1))
    BY Times
  <2> QED
    BY <2>1
<1>3. RefreshTime = (m + 1) * CallBound + k * CallBound /\ k * CallBound \in Nat
  BY <1>2, CallBoundAssumption DEF RefreshTime
<1> QED
  BY <1>1, <1>3, CallBoundAssumption

\* A value that gets older.
LEMMA OlderAge ==
  ASSUME NEW a \in Ages
  PROVE  /\ Older(a) \in Ages /\ Older(a) >= 1
         /\ a <= Older(a) /\ Older(a) <= a + 1
BY Times DEF Older, Ages

\* Of two values the older one stays the older one, at least until both have stopped
\* counting.
LEMMA OlderOrder ==
  ASSUME NEW a \in Ages, NEW b \in Ages
  PROVE  /\ a <= b => Older(a) <= Older(b)
         /\ a < b /\ a + 1 < AgeBound => Older(a) < Older(b)
         /\ \A n \in Nat : b <= a + n => Older(b) <= Older(a) + n
BY Times DEF Older, Ages

\* What is published is a record, and getting older changes its age only.
Outcomes == [success : BOOLEAN, age : Ages]
Snapshots == [fields : SUBSET Names, age : Ages]

\* None is neither an outcome nor a snapshot.
LEMMA NotPublished == None \notin Outcomes /\ None \notin Snapshots
BY NoneAssumption, Times DEF Outcomes, Snapshots, Ages

\* An outcome as Run publishes it.
LEMMA NewOutcome ==
  ASSUME NEW ok \in BOOLEAN, NEW a \in Ages
  PROVE  /\ [success |-> ok, age |-> a] \in Outcomes
         /\ [success |-> ok, age |-> a] # None
BY NotPublished DEF Outcomes

\* An outcome after one tick.
LEMMA AgedOutcome ==
  ASSUME NEW o \in {None} \cup Outcomes
  PROVE  /\ Aged(o) \in {None} \cup Outcomes
         /\ Aged(o) = None <=> o = None
         /\ o # None => Aged(o).success = o.success /\ Aged(o).age = Older(o.age)
<1>1. CASE o = None
  BY <1>1 DEF Aged
<1>2. CASE o # None
  <2>1. Older(o.age) \in Ages
    BY <1>2, OlderAge DEF Outcomes
  <2> QED
    BY <1>2, <2>1, NotPublished DEF Aged, Outcomes
<1> QED
  BY <1>1, <1>2

\* A snapshot after one tick.
LEMMA AgedSnapshot ==
  ASSUME NEW s \in {None} \cup Snapshots
  PROVE  /\ Aged(s) \in {None} \cup Snapshots
         /\ Aged(s) = None <=> s = None
         /\ s # None => Aged(s).fields = s.fields /\ Aged(s).age = Older(s.age)
<1>1. CASE s = None
  BY <1>1 DEF Aged
<1>2. CASE s # None
  <2>1. Older(s.age) \in Ages
    BY <1>2, OlderAge DEF Snapshots
  <2> QED
    BY <1>2, <2>1, NotPublished DEF Aged, Snapshots
<1> QED
  BY <1>1, <1>2

-----------------------------------------------------------------------------
(* The inductive invariant of the scraper.                                 *)

LEMMA InitScraperInv == Init => ScraperInv
<1> SUFFICES ASSUME Init PROVE ScraperInv
  OBVIOUS
<1>1. TypeOK
  <2>1. /\ made \in 0 .. Len(Methods) /\ begun \in Ages
        /\ calling \in 0 .. CallBound /\ toTick \in 0 .. Interval
    BY Times, CallBoundAssumption DEF Init, Ages
  <2> QED
    BY <2>1 DEF Init, TypeOK, Places
<1>2. ScheduleInv
  <2>1. 0 * CallBound \in Nat
    BY CallBoundAssumption
  <2> QED
    BY <2>1, Times DEF Init, ScheduleInv
<1>3. OutcomeInv /\ SnapshotInv
  BY DEF Init, OutcomeInv, SnapshotInv
<1> QED
  BY <1>1, <1>2, <1>3 DEF ScraperInv

\* A call ends, with a field or without one.
LEMMA CallStepInv ==
  ASSUME ScraperInv, CallSucceeds \/ CallFails
  PROVE  ScraperInv'
<1> USE DEF ScraperInv
<1>1. /\ pc = "call" /\ made' = made + 1 /\ calling' = 0
      /\ pc' = IF made' = Len(Methods) THEN "publish" ELSE "call"
      /\ UNCHANGED <<ctx, begun, outcome, snap, toTick, tick, healthy>>
  BY DEF CallSucceeds, CallFails, NextCall, published, clock
<1>2. made \in Nat /\ made < Len(Methods) /\ begun <= made * CallBound + calling
  BY <1>1, Times DEF TypeOK, ScheduleInv
<1>3. got' \in SUBSET Names
  <2>1. Methods[made + 1] \in Names
    BY <1>2, MethodsAssumption, Times
  <2> QED
    BY <2>1 DEF CallSucceeds, CallFails, TypeOK
<1>4. TypeOK'
  BY <1>1, <1>2, <1>3, Times, CallBoundAssumption DEF TypeOK, Places
<1>5. begun <= (made + 1) * CallBound /\ (made + 1) * CallBound <= RefreshTime
  BY <1>2, CallsFit, CallBoundAssumption, Times DEF TypeOK, Ages
<1>6. ScheduleInv'
  <2>1. CASE pc' = "call"
    BY <1>1, <1>2, <1>5, <2>1, Times, CallsFit, CallBoundAssumption
    DEF ScheduleInv, TypeOK, Ages
  <2>2. CASE pc' = "publish"
    BY <1>1, <1>2, <1>5, <2>2, Times, CallsFit, CallBoundAssumption
    DEF ScheduleInv, TypeOK, Ages
  <2> QED
    BY <1>1, <2>1, <2>2
<1>7. OutcomeInv' /\ SnapshotInv'
  BY <1>1 DEF OutcomeInv, SnapshotInv
<1> QED
  BY <1>4, <1>6, <1>7

\* The outcome, then the snapshot.
LEMMA PublishStepInv ==
  ASSUME ScraperInv, StoreOutcome \/ StoreSnapshot
  PROVE  ScraperInv'
<1> USE DEF ScraperInv
<1>1. CASE StoreOutcome
  <2>1. /\ pc = "publish" /\ outcome' = [success |-> got # {}, age |-> begun]
        /\ pc' = IF got # {} THEN "store" ELSE "select"
        /\ toTick' = IF got = {} /\ toTick = 0 THEN Interval ELSE toTick
        /\ UNCHANGED <<ctx, made, got, begun, calling, snap, tick, healthy>>
    BY <1>1 DEF StoreOutcome, RefreshReturns
  <2>2. outcome' \in Outcomes /\ outcome' # None
    BY <2>1, NewOutcome, (got # {}) \in BOOLEAN DEF TypeOK
  <2>3. (outcome'.success <=> got # {}) /\ outcome'.age = begun
    BY <2>1
  <2>4. TypeOK'
    BY <2>1, <2>2, Times DEF TypeOK, Outcomes, Places
  <2>5. ScheduleInv'
    BY <2>1, Times DEF TypeOK, ScheduleInv, Ages
  <2>6. OutcomeInv' /\ SnapshotInv'
    BY <2>1, <2>2, <2>3, Times DEF OutcomeInv, SnapshotInv, TypeOK, Ages
  <2> QED
    BY <2>4, <2>5, <2>6
<1>2. CASE StoreSnapshot
  <2>1. /\ pc = "store" /\ snap' = [fields |-> got, age |-> begun]
        /\ pc' = "select"
        /\ toTick' = IF toTick = 0 THEN Interval ELSE toTick
        /\ UNCHANGED <<ctx, made, got, begun, calling, outcome, tick, healthy>>
    BY <1>2 DEF StoreSnapshot, RefreshReturns
  <2>2. snap' \in Snapshots /\ snap' # None
        /\ snap'.fields = got /\ snap'.age = begun
    BY <2>1, NotPublished DEF TypeOK, Snapshots
  <2>3. TypeOK'
    BY <2>1, <2>2, Times DEF TypeOK, Snapshots, Places
  <2>4. ScheduleInv'
    BY <2>1, Times DEF TypeOK, ScheduleInv, Ages
  <2>5. OutcomeInv' /\ SnapshotInv'
    BY <2>1, <2>2, Times DEF OutcomeInv, SnapshotInv, TypeOK, Ages
  <2> QED
    BY <2>3, <2>4, <2>5
<1> QED
  BY <1>1, <1>2

\* Run takes a tick, or leaves.
LEMMA SelectStepInv ==
  ASSUME ScraperInv, SelectTick \/ SelectDone
  PROVE  ScraperInv'
<1> USE DEF ScraperInv
<1>1. CASE SelectTick
  <2>1. /\ pc = "select" /\ tick /\ tick' = FALSE
        /\ pc' = "call" /\ made' = 0 /\ got' = {} /\ begun' = 0 /\ calling' = 0
        /\ UNCHANGED <<ctx, outcome, snap, toTick, healthy>>
    BY <1>1 DEF SelectTick, published
  <2>2. TypeOK'
    <3>1. made' \in 0 .. Len(Methods) /\ begun' \in Ages /\ calling' \in 0 .. CallBound
      BY <2>1, Times, CallBoundAssumption DEF Ages
    <3> QED
      BY <2>1, <3>1 DEF TypeOK, Places
  <2>3. ScheduleInv'
    <3>1. 0 * CallBound \in Nat
      BY CallBoundAssumption
    <3> QED
      BY <2>1, <3>1, Times DEF ScheduleInv
  <2>4. begun >= 1 /\ begun <= RefreshTime + Interval
    BY <2>1 DEF ScheduleInv
  <2>5. OutcomeInv'
    BY <2>1, <2>4, Times DEF OutcomeInv
  <2>6. SnapshotInv'
    <3>1. snap # None => snap.age \in Nat
      BY Times DEF TypeOK, Ages
    <3> QED
      BY <2>1, <2>4, <3>1 DEF SnapshotInv, TypeOK, Ages
  <2> QED
    BY <2>2, <2>3, <2>5, <2>6
<1>2. CASE SelectDone
  <2>1. /\ pc = "select" /\ ctx = "canceled" /\ pc' = "done"
        /\ toTick' = 0 /\ tick' = FALSE
        /\ UNCHANGED <<ctx, made, got, begun, calling, outcome, snap, healthy>>
    BY <1>2 DEF SelectDone, published
  <2>2. TypeOK'
    <3>1. toTick' \in 0 .. Interval
      BY <2>1, Times
    <3> QED
      BY <2>1, <3>1 DEF TypeOK, Places
  <2>3. ScheduleInv' /\ OutcomeInv' /\ SnapshotInv'
    BY <2>1 DEF ScheduleInv, OutcomeInv, SnapshotInv
  <2> QED
    BY <2>2, <2>3
<1> QED
  BY <1>1, <1>2

\* A unit of time goes by.
LEMMA TimeStepInv ==
  ASSUME ScraperInv, TimePasses
  PROVE  ScraperInv'
<1> USE DEF ScraperInv
<1>1. /\ \/ pc = "call" /\ calling < CallBound
         \/ pc = "select" /\ ~tick /\ ctx = "live"
         \/ pc = "done"
      /\ begun' = Older(begun)
      /\ calling' = IF pc = "call" THEN calling + 1 ELSE calling
      /\ outcome' = Aged(outcome) /\ snap' = Aged(snap)
      /\ toTick' = IF toTick = 1 THEN Interval ELSE IF toTick = 0 THEN 0 ELSE toTick - 1
      /\ tick' = (tick \/ toTick = 1)
      /\ UNCHANGED <<ctx, pc, made, got, healthy>>
  BY DEF TimePasses
<1>2. /\ outcome' \in {None} \cup Outcomes
      /\ outcome' = None <=> outcome = None
      /\ outcome # None =>
           outcome'.success = outcome.success /\ outcome'.age = Older(outcome.age)
  BY <1>1, AgedOutcome DEF TypeOK, Outcomes
<1>3. /\ snap' \in {None} \cup Snapshots
      /\ snap' = None <=> snap = None
      /\ snap # None => snap'.fields = snap.fields /\ snap'.age = Older(snap.age)
  BY <1>1, AgedSnapshot DEF TypeOK, Snapshots
<1>4. /\ begun \in Ages
      /\ outcome # None => outcome.age \in Ages
      /\ snap # None => snap.age \in Ages
  BY DEF TypeOK
<1>5. begun' \in Ages /\ begun' >= 1 /\ begun' <= begun + 1
  BY <1>1, <1>4, OlderAge
<1>6. TypeOK'
  <2>1. calling' \in 0 .. CallBound
    BY <1>1, CallBoundAssumption DEF TypeOK
  <2>2. toTick' \in 0 .. Interval
    BY <1>1, Times DEF TypeOK
  <2>3. tick' \in BOOLEAN
    BY <1>1
  <2> QED
    BY <1>1, <1>2, <1>3, <1>5, <2>1, <2>2, <2>3 DEF TypeOK, Outcomes, Snapshots
<1>7. pc = "call" => made * CallBound \in Nat /\ begun' < AgeBound
  <2>1. made \in Nat /\ calling \in Nat /\ begun \in Nat
    BY Times, CallBoundAssumption DEF TypeOK, Ages
  <2> QED
    BY <1>1, <1>5, <2>1, Times, CallsFit, CallBoundAssumption DEF ScheduleInv, Ages
<1>8. ScheduleInv'
  <2>1. begun \in Nat /\ begun' \in Nat /\ toTick \in Nat /\ calling \in Nat
    BY <1>5, Times, CallBoundAssumption DEF TypeOK, Ages
  <2>2. CASE pc = "call"
    <3>1. made < Len(Methods) /\ begun <= made * CallBound + calling
      BY <2>2 DEF ScheduleInv
    <3>2. begun' <= made' * CallBound + calling'
      BY <1>1, <1>5, <1>7, <2>1, <2>2, <3>1
    <3> QED
      BY <1>1, <1>5, <2>2, <3>1, <3>2 DEF ScheduleInv
  <2>3. CASE pc = "select"
    <3>1. toTick >= 1 /\ begun + toTick <= RefreshTime + Interval
      BY <1>1, <2>3 DEF ScheduleInv
    <3>2. /\ toTick' >= 1 /\ begun' <= RefreshTime + Interval
          /\ toTick # 1 => begun' + toTick' <= RefreshTime + Interval
      BY <1>1, <1>5, <2>1, <3>1, Times
    <3>3. tick' <=> tick \/ toTick = 1
      BY <1>1
    <3> QED
      BY <1>1, <1>5, <2>3, <3>2, <3>3 DEF ScheduleInv
  <2>4. CASE pc = "done"
    BY <1>1, <1>5, <2>4 DEF ScheduleInv
  <2> QED
    BY <1>1, <2>2, <2>3, <2>4
<1>9. OutcomeInv'
  <2>1. RefreshTime + Interval \in Nat
    BY Times
  <2>2. CASE outcome # None
    <3>1. outcome.age <= begun + (RefreshTime + Interval) =>
            outcome'.age <= begun' + (RefreshTime + Interval)
      BY <2>2, <2>1, <1>1, <1>2, <1>4, OlderOrder
    <3>2. CASE pc = "call"
      BY <2>2, <3>1, <3>2, <1>1, <1>2, <1>4, <1>5, Times DEF OutcomeInv, Ages
    <3>3. CASE pc = "select"
      BY <2>2, <3>3, <1>1, <1>2 DEF OutcomeInv
    <3>4. CASE pc = "done"
      BY <3>4, <1>1 DEF OutcomeInv
    <3> QED
      BY <1>1, <3>2, <3>3, <3>4
  <2>3. CASE outcome = None
    BY <2>3, <1>1, <1>2 DEF OutcomeInv
  <2> QED
    BY <2>2, <2>3
<1>10. SnapshotInv'
  <2>1. outcome' # None /\ pc # "store" =>
          (outcome'.success => snap' # None /\ snap'.age = outcome'.age)
    BY <1>1, <1>2, <1>3 DEF SnapshotInv
  <2>2. snap # None /\ pc = "call" => begun' < snap'.age
    <3>1. pc = "call" /\ begun' < AgeBound => begun + 1 < AgeBound \/ begun + 1 = AgeBound
      BY <1>1, <1>4, Times DEF Older, Ages
    <3> QED
      BY <1>1, <1>3, <1>4, <1>7, OlderOrder, Times DEF SnapshotInv, Older, Ages
  <2>3. snap # None /\ pc = "select" => begun' <= snap'.age
    BY <1>1, <1>3, <1>4, OlderOrder DEF SnapshotInv
  <2> QED
    BY <1>1, <1>3, <2>1, <2>2, <2>3 DEF SnapshotInv
<1> QED
  BY <1>6, <1>8, <1>9, <1>10

\* Every step of the scraper and of its environment maintains the invariant.
LEMMA ScraperInvStep == ScraperInv /\ [Next]_vars => ScraperInv'
<1> SUFFICES ASSUME ScraperInv, [Next]_vars PROVE ScraperInv'
  OBVIOUS
<1>1. CASE Cancel
  BY <1>1
  DEF Cancel, ScraperInv, TypeOK, ScheduleInv, OutcomeInv, SnapshotInv, runVars,
      published, clock
<1>2. CASE HealthChanges \/ UNCHANGED vars
  <2>1. /\ UNCHANGED <<ctx, runVars, published, clock>>
        /\ healthy' = ~healthy \/ healthy' = healthy
    BY <1>2 DEF HealthChanges, vars, runVars, published, clock
  <2>2. healthy' \in BOOLEAN
    BY <2>1 DEF ScraperInv, TypeOK
  <2> QED
    BY <2>1, <2>2
    DEF ScraperInv, TypeOK, ScheduleInv, OutcomeInv, SnapshotInv, runVars,
        published, clock
<1> QED
  BY <1>1, <1>2, CallStepInv, PublishStepInv, SelectStepInv, TimeStepInv
  DEF Next, Refresh

\* The inductive invariant holds for any methods, interval and duration of calls.
THEOREM ScraperInvariant == Init /\ [][Next]_vars => []ScraperInv
BY InitScraperInv, ScraperInvStep, PTL

-----------------------------------------------------------------------------
(* What follows from it for the scraper.                                   *)

\* Every variable stays in its type; no call outlasts its deadlines and no age the
\* bound at which ages stop counting.
THEOREM ScraperTypeCorrect == Spec => []TypeOK
<1>1. ScraperInv => TypeOK
  BY DEF ScraperInv
<1> QED
  BY <1>1, ScraperInvariant, PTL DEF Spec

\* While /readyz answers 200 there is a snapshot with something in it, of the refresh
\* the answer rests on, or that refresh is about to store one.
LEMMA ReadyHasSnapshot == ScraperInv => ReadyServesSnapshot
<1> SUFFICES ASSUME ScraperInv, Ready
             PROVE  \/ /\ pc # "store"
                       /\ snap # None /\ snap.fields # {} /\ snap.age = outcome.age
                    \/ /\ pc = "store"
                       /\ got # {} /\ begun = outcome.age
                       /\ snap # None => snap.fields # {} /\ snap.age > outcome.age
  BY DEF ReadyServesSnapshot
<1>1. CASE pc = "store"
  <2>1. /\ got # {} /\ outcome.age = begun
        /\ snap # None => snap.fields # {} /\ begun < snap.age
    BY <1>1 DEF ScraperInv, OutcomeInv, SnapshotInv
  <2>2. begun \in Nat /\ (snap # None => snap.age \in Nat)
    BY Times DEF ScraperInv, TypeOK, Ages
  <2> QED
    BY <1>1, <2>1, <2>2
<1>2. CASE pc # "store"
  BY <1>2 DEF ScraperInv, SnapshotInv, Ready
<1> QED
  BY <1>1, <1>2

\* A 200 of /readyz stands for the snapshot of the refresh it rests on, which between
\* the two stores of Refresh (scraper.go:116, 125) is still to replace an older one.
THEOREM ReadyMeansSnapshot == Spec => []ReadyServesSnapshot
BY ReadyHasSnapshot, ScraperInvariant, PTL DEF Spec

\* An outcome is never older than two refreshes and an interval while Run goes on.
OutcomeAge ==
  ctx = "live" /\ outcome # None => outcome.age <= 2 * RefreshTime + Interval

\* While Run goes on, the age of the outcome follows from where Run is.
LEMMA OutcomeAgeBounded == ScraperInv => OutcomeAge
<1> SUFFICES ASSUME ScraperInv, ctx = "live", outcome # None
             PROVE  outcome.age <= 2 * RefreshTime + Interval
  BY DEF OutcomeAge
<1> USE DEF ScraperInv
<1>1. outcome.age \in Nat /\ begun \in Nat
  BY Times DEF TypeOK, Ages
<1>2. CASE pc = "call"
  <2>1. made \in Nat /\ made < Len(Methods) /\ calling <= CallBound /\ calling \in Nat
    BY <1>2, Times, CallBoundAssumption DEF ScheduleInv, TypeOK
  <2>2. begun <= RefreshTime
    BY <1>1, <1>2, <2>1, CallsFit, CallBoundAssumption, Times DEF ScheduleInv
  <2> QED
    BY <1>1, <1>2, <2>2, Times DEF OutcomeInv
<1>3. CASE pc \in {"publish", "store", "select"}
  BY <1>1, <1>3, Times DEF ScheduleInv, OutcomeInv
<1> QED
  BY <1>2, <1>3 DEF TypeOK, Places, ScheduleInv

\* The same of every behaviour: Run publishes often enough (scraper.go:116, 140).
THEOREM OutcomeStaysYoung == Spec => []OutcomeAge
BY OutcomeAgeBounded, ScraperInvariant, PTL DEF Spec

\* So a live scraper is never reported stale if the threshold of /readyz leaves room
\* for two refreshes and an interval.
RefreshesFit == 2 * RefreshTime + Interval <= MaxAge

\* The bound on the age, and room for it in the threshold.
LEMMA YoungEnough == RefreshesFit /\ ScraperInv => NeverStaleWhileRunning
<1> SUFFICES ASSUME RefreshesFit, ScraperInv, ctx = "live", outcome # None
             PROVE  outcome.age <= MaxAge
  BY DEF NeverStaleWhileRunning
<1>1. outcome.age \in Nat /\ MaxAge \in Nat
  BY Times, TTLAssumption DEF ScraperInv, TypeOK, Ages, MaxAge
<1>2. outcome.age <= 2 * RefreshTime + Interval
  BY OutcomeAgeBounded DEF OutcomeAge
<1> QED
  BY <1>1, <1>2, Times DEF RefreshesFit

\* /readyz never calls a running scraper stale when its threshold leaves room for two
\* refreshes and an interval (scraper.go:95, ovs_exporter.go:269).
THEOREM NeverStale == Spec => [](RefreshesFit => NeverStaleWhileRunning)
<1>1. ScraperInv => (RefreshesFit => NeverStaleWhileRunning)
  BY YoungEnough
<1> QED
  BY <1>1, ScraperInvariant, PTL DEF Spec

-----------------------------------------------------------------------------
(* Scraper implements Publication.                                         *)

attemptBar == CASE pc \in {"call", "publish"} -> "open"
                [] pc = "store" -> "reported"
                [] pc \in {"select", "done"} -> "closed"

\* Initial states map to initial states.
LEMMA InitPublishes == Init => Promise!Init
BY DEF Init, Promise!Init

\* A step maps to the one of Publication it is named after, or to none.
LEMMA StepPublishes ==
  ScraperInv /\ [Next]_vars => [Promise!Next]_Promise!publicationVars
<1> SUFFICES ASSUME ScraperInv, [Next]_vars
             PROVE  [Promise!Next]_Promise!publicationVars
  OBVIOUS
<1> USE DEF ScraperInv
<1>1. CASE CallSucceeds
  <2>1. /\ pc = "call" /\ pc' \in {"call", "publish"}
        /\ got' = got \cup {Methods[made + 1]}
        /\ UNCHANGED <<begun, outcome, snap>>
    BY <1>1 DEF CallSucceeds, NextCall, published
  <2>2. Methods[made + 1] \in Names
    BY <2>1, MethodsAssumption, Times DEF ScheduleInv, TypeOK
  <2>3. Promise!Fetch(Methods[made + 1])
    BY <2>1 DEF Promise!Fetch
  <2> QED
    BY <2>2, <2>3 DEF Promise!Next
<1>2. CASE CallFails
  <2>1. /\ pc = "call" /\ pc' \in {"call", "publish"}
        /\ UNCHANGED <<got, begun, outcome, snap>>
    BY <1>2 DEF CallFails, NextCall, published
  <2> QED
    BY <2>1 DEF Promise!publicationVars
<1>3. CASE StoreOutcome
  <2>1. /\ pc = "publish" /\ outcome' = [success |-> got # {}, age |-> begun]
        /\ pc' = IF got # {} THEN "store" ELSE "select"
        /\ UNCHANGED <<begun, got, snap>>
    BY <1>3 DEF StoreOutcome, RefreshReturns
  <2>2. Promise!Report
    BY <2>1 DEF Promise!Report
  <2> QED
    BY <2>2 DEF Promise!Next
<1>4. CASE StoreSnapshot
  <2>1. /\ pc = "store" /\ pc' = "select"
        /\ snap' = [fields |-> got, age |-> begun]
        /\ UNCHANGED <<begun, got, outcome>>
    BY <1>4 DEF StoreSnapshot, RefreshReturns
  <2>2. Promise!Replace
    BY <2>1 DEF Promise!Replace, SnapshotInv
  <2> QED
    BY <2>2 DEF Promise!Next
<1>5. CASE SelectTick
  <2>1. Promise!Begin
    BY <1>5 DEF SelectTick, published, Promise!Begin
  <2> QED
    BY <2>1 DEF Promise!Next
<1>6. CASE TimePasses
  <2>1. Promise!Pass
    BY <1>6 DEF TimePasses, Promise!Pass, Promise!Older, Promise!Aged, Older, Aged
  <2> QED
    BY <2>1 DEF Promise!Next
<1>7. CASE SelectDone \/ Cancel \/ HealthChanges \/ UNCHANGED vars
  BY <1>7
  DEF SelectDone, Cancel, HealthChanges, vars, runVars, published,
      Promise!publicationVars
<1> QED
  BY <1>1, <1>2, <1>3, <1>4, <1>5, <1>6, <1>7 DEF Next, Refresh

\* Whatever the calls, the ticker and the clock do, readers of the two pointers get
\* what Publication says: a snapshot gives way to a younger one with the fields of one
\* refresh, right after that refresh has been reported, or stays.
THEOREM Publishes == Spec => ImplementsPublication
BY InitPublishes, StepPublishes, ScraperInvariant, PTL
DEF Spec, ImplementsPublication, Promise!Spec

-----------------------------------------------------------------------------
(* Readiness.                                                              *)

\* libovsdb exists from the dial on, and main has either its client or none.
ConnectInv ==
  /\ connect \in {"dial", "monitor"} <=> ovsClient = "none"
  /\ connect = "dial" => inner = "none"
  /\ ovsClient = "nil" => inner \in {"none", "closed"}

\* What a request has seen of the two sources stays true of them: a client is never
\* taken back, and of the snapshot only the instant between the two stores of the
\* first success is missing.
SourcesInv ==
  /\ check = "unixctl-ovs" /\ allOK => View
  /\ served => View /\ (pc = "store" \/ snap # None)

ReadinessInv == ScraperInv /\ ReadinessTypeOK /\ ConnectInv /\ SourcesInv

\* Before the first probe.
LEMMA InitReadinessInv == ReadinessInit => ReadinessInv
<1> SUFFICES ASSUME ReadinessInit PROVE ReadinessInv
  OBVIOUS
<1>1. ScraperInv
  BY InitScraperInv DEF ReadinessInit
<1>2. ReadinessTypeOK /\ ConnectInv /\ SourcesInv
  BY <1>1
  DEF ReadinessInit, OvsdbInit, ReadinessTypeOK, OvsdbTypeOK, ScraperInv,
      ConnectInv, SourcesInv
<1> QED
  BY <1>1, <1>2 DEF ReadinessInv

\* The scraper's variables take steps of the scraper.
LEMMA ScraperOfReadiness == [ReadinessNext]_readinessVars => [Next]_vars
BY DEF ReadinessNext, readinessVars, Scraping, Ovsdb, Request, CheckOVSDB,
       CheckUnixctl

\* A snapshot is never taken back.
LEMMA SnapshotKept ==
  ASSUME ScraperInv, [Next]_vars, pc = "store" \/ snap # None
  PROVE  pc' = "store" \/ snap' # None
<1> USE DEF ScraperInv
<1>1. CASE TimePasses
  BY <1>1, AgedSnapshot DEF TimePasses, TypeOK, Snapshots
<1>2. CASE StoreSnapshot
  BY <1>2, NoneAssumption, NotPublished DEF StoreSnapshot, TypeOK, Snapshots
<1>3. CASE CallSucceeds \/ CallFails \/ StoreOutcome
  BY <1>3 DEF CallSucceeds, CallFails, NextCall, StoreOutcome, RefreshReturns,
              published
<1>4. CASE SelectTick \/ SelectDone \/ Cancel \/ HealthChanges \/ UNCHANGED vars
  BY <1>4
  DEF SelectTick, SelectDone, Cancel, HealthChanges, vars, published, runVars
<1> QED
  BY <1>1, <1>2, <1>3, <1>4 DEF Next, Refresh

\* Every step of Run, of the clock and of the probes keeps the invariant.
LEMMA ReadinessInvStep ==
  ReadinessInv /\ [ReadinessNext]_readinessVars => ReadinessInv'
<1> SUFFICES ASSUME ReadinessInv, [ReadinessNext]_readinessVars
             PROVE  ReadinessInv'
  OBVIOUS
<1> USE DEF ReadinessInv
<1>1. ScraperInv' /\ (pc = "store" \/ snap # None => pc' = "store" \/ snap' # None)
  BY ScraperOfReadiness, ScraperInvStep, SnapshotKept
<1>2. CASE Scraping \/ UNCHANGED readinessVars
  <2>1. UNCHANGED <<ovsdbVars, requestVars>>
    BY <1>2 DEF Scraping, readinessVars
  <2> QED
    BY <1>1, <2>1
    DEF ovsdbVars, requestVars, ScraperInv, ReadinessTypeOK, OvsdbTypeOK,
        ConnectInv, SourcesInv, View
<1>3. CASE Ovsdb
  <2>1. UNCHANGED <<pc, snap, check, allOK, answer, served>>
    BY <1>3 DEF Ovsdb, vars, requestVars
  <2>2. ReadinessTypeOK' /\ ConnectInv' /\ (View => View')
    BY <1>1, <1>3, <2>1
    DEF Ovsdb, Connect, DialOVSDB, DialOVSDBFails, ConnectFails, MonitorAll,
        MonitorAllFails, ConnectionLost, Reconnected, CloseOVSDB, ScraperInv,
        ReadinessTypeOK, OvsdbTypeOK, ConnectInv, View
  <2> QED
    BY <1>1, <2>1, <2>2 DEF SourcesInv
<1>4. CASE Request \/ CheckOVSDB
  <2>1. /\ UNCHANGED <<pc, snap, connect, inner, ovsClient, served>>
        /\ check' \in {"ovsdb", "unixctl-ovs"} /\ answer' \in {0, answer}
        /\ check' = "unixctl-ovs" /\ allOK' => Healthy
    BY <1>4 DEF Request, CheckOVSDB, vars, ovsdbVars
  <2>2. allOK' \in BOOLEAN
    BY <1>4 DEF Request, CheckOVSDB, ReadinessTypeOK
  <2> QED
    BY <1>1, <2>1, <2>2
    DEF ScraperInv, ReadinessTypeOK, OvsdbTypeOK, ConnectInv, SourcesInv, View,
        Healthy
<1>5. CASE CheckUnixctl
  <2>1. /\ UNCHANGED <<pc, snap, connect, inner, ovsClient>>
        /\ check = "unixctl-ovs" /\ check' = "idle" /\ allOK' = TRUE
        /\ answer' \in {200, 503}
        /\ served' <=> served \/ (allOK /\ Ready)
    BY <1>5 DEF CheckUnixctl, Respond, vars, ovsdbVars
  <2>2. served' \in BOOLEAN
    BY <1>5 DEF CheckUnixctl, Respond, ReadinessTypeOK
  <2>3. Ready => pc = "store" \/ snap # None
    BY ReadyHasSnapshot DEF ReadyServesSnapshot
  <2> QED
    BY <1>1, <2>1, <2>2, <2>3
    DEF ScraperInv, ReadinessTypeOK, OvsdbTypeOK, ConnectInv, SourcesInv, View
<1> QED
  BY <1>2, <1>3, <1>4, <1>5 DEF ReadinessNext

\* The inductive invariant of the probes over both sources.
THEOREM ReadinessInvariant == ReadinessSpec => []ReadinessInv
BY InitReadinessInv, ReadinessInvStep, PTL DEF ReadinessSpec

\* Every variable stays in its type, and no connection of libovsdb is left without a
\* client that can close it.
THEOREM ReadinessTypeCorrect == ReadinessSpec => []ReadinessTypeOK
<1>1. ReadinessInv => ReadinessTypeOK
  BY DEF ReadinessInv
<1> QED
  BY <1>1, ReadinessInvariant, PTL

\* From its first 200 on the exporter has both sources for good.
THEOREM ServedForGood == ReadinessSpec => []ServedHasSources
<1>1. ReadinessInv => ServedHasSources
  BY DEF ReadinessInv, ScraperInv, SnapshotInv, SourcesInv, ServedHasSources
<1> QED
  BY <1>1, ReadinessInvariant, PTL

\* The scraper /readyz asks is the Scraper of the theorems above: what it publishes
\* and what /readyz makes of it are right whatever ovsdb does meanwhile.
THEOREM ReadinessScrapes ==
  ReadinessSpec => /\ ImplementsPublication
                   /\ []ReadyServesSnapshot
                   /\ [](RefreshesFit => NeverStaleWhileRunning)
<1>1. ReadinessInit => Promise!Init
  BY InitPublishes DEF ReadinessInit
<1>2. ReadinessInv /\ [ReadinessNext]_readinessVars
        => [Promise!Next]_Promise!publicationVars
  BY ScraperOfReadiness, StepPublishes DEF ReadinessInv
<1>3. ReadinessInv => ReadyServesSnapshot /\ (RefreshesFit => NeverStaleWhileRunning)
  BY ReadyHasSnapshot, YoungEnough DEF ReadinessInv
<1> QED
  BY <1>1, <1>2, <1>3, ReadinessInvariant, PTL
  DEF ReadinessSpec, ImplementsPublication, Promise!Spec
=============================================================================
