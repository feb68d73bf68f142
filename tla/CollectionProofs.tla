-------------------------- MODULE CollectionProofs --------------------------
(***************************************************************************)
(* For every group of collectors, however large, and every interleaving of *)
(* a collection with refreshes and with the database: ovs.collector.up and *)
(* the observations of one collection agree, and what is observed is what  *)
(* has been registered.                                                    *)
(***************************************************************************)
EXTENDS Collection, TLAPS

Collectors == FromView \cup FromSnapshot

-----------------------------------------------------------------------------
(* The collectors, one by one: no state but the sources' matters.          *)

\* No collector has an instrument of its own that it has not registered.
LEMMA ObserveWhatIsRegistered ==
  ASSUME NEW c \in Collectors
  PROVE  Observe(c) \subseteq Register(c)
<1> USE DEF Observe, Register, When, Collectors
<1>1. CASE c \in FromView
  BY <1>1 DEF FromView, FromSnapshot, ObserveBridges, ObservePorts,
     ObserveInterfaces, ObserveInterfaceInfo, ObserveInterfaceStatus,
     RegisterBridges, RegisterPorts, RegisterInterfaces, RegisterInterfaceInfo,
     RegisterInterfaceStatus
<1>2. CASE c \in FromSnapshot
  BY <1>2 DEF FromView, FromSnapshot, ObserveCoverage, ObserveMemory,
     ObserveDatapath, ObserveDatapathInterfaces, ObserveUpcall,
     RegisterCoverage, RegisterMemory, RegisterDatapath,
     RegisterDatapathInterfaces, RegisterUpcall
<1> QED
  BY <1>1, <1>2

\* A collector observes only when its DepCheck holds.
LEMMA ObserveNeedsDep ==
  ASSUME NEW c \in Collectors, Observe(c) # {}
  PROVE  Dep(c)
<1>1. CASE c \in FromView
  BY <1>1 DEF FromView, Observe, Dep, When, ObserveBridges, ObservePorts,
     ObserveInterfaces, ObserveInterfaceInfo, ObserveInterfaceStatus
<1>2. CASE c \in FromSnapshot
  BY <1>2 DEF FromView, FromSnapshot, Observe, Dep, When, Has, UnixctlHas,
     ObserveCoverage, ObserveMemory, ObserveDatapath, ObserveDatapathInterfaces,
     ObserveUpcall, CoverageDep, MemoryDep, DatapathDep, DatapathInterfacesDep,
     UpcallDep
<1> QED
  BY <1>1, <1>2 DEF Collectors

\* When its DepCheck holds and there is anything to observe, it observes.
LEMMA DepObserves ==
  ASSUME NEW c \in Collectors, Dep(c),
         (IF c \in FromView THEN cache ELSE parsed) = "full"
  PROVE  Observe(c) # {}
<1>1. CASE c \in FromView
  BY <1>1 DEF FromView, Observe, Dep, When, ObserveBridges, ObservePorts,
     ObserveInterfaces, ObserveInterfaceInfo, ObserveInterfaceStatus
<1>2. CASE c \in FromSnapshot
  <2>1. c \notin FromView
    BY <1>2 DEF FromView, FromSnapshot
  <2> QED
    BY <1>2, <2>1 DEF FromView, FromSnapshot, Observe, Dep, When, Has, UnixctlHas,
       ObserveCoverage, ObserveMemory, ObserveDatapath, ObserveDatapathInterfaces,
       ObserveUpcall, CoverageDep, MemoryDep, DatapathDep, DatapathInterfacesDep,
       UpcallDep
<1> QED
  BY <1>1, <1>2 DEF Collectors

\* With complete sources it observes all that it has registered.
LEMMA CompleteSourcesObserveAll ==
  ASSUME NEW c \in Collectors, Dep(c),
         IF c \in FromView THEN cache = "full"
                           ELSE parsed = "full" /\ FieldsOf(c) \subseteq snap
  PROVE  Observe(c) = Register(c)
<1>1. CASE c \in FromView
  BY <1>1 DEF FromView, Observe, Register, Dep, When, ObserveBridges,
     ObservePorts, ObserveInterfaces, ObserveInterfaceInfo,
     ObserveInterfaceStatus, RegisterBridges, RegisterPorts, RegisterInterfaces,
     RegisterInterfaceInfo, RegisterInterfaceStatus
<1>2. CASE c \in FromSnapshot
  <2>1. c \notin FromView
    BY <1>2 DEF FromView, FromSnapshot
  <2> QED
    BY <1>2, <2>1 DEF FromSnapshot, FieldsOf, Observe, Register, When, Has,
       ObserveCoverage, ObserveMemory, ObserveDatapath,
       ObserveDatapathInterfaces, ObserveUpcall, RegisterCoverage,
       RegisterMemory, RegisterDatapath, RegisterDatapathInterfaces,
       RegisterUpcall
<1> QED
  BY <1>1, <1>2 DEF Collectors

\* Each depends on the data of its own source alone.
LEMMA SourcesDecide ==
  ASSUME NEW c \in Collectors, OVS' = OVS,
         IF c \in FromView THEN UNCHANGED cache ELSE UNCHANGED <<snap, parsed>>
  PROVE  Observe(c)' = Observe(c) /\ Dep(c)' = Dep(c)
<1>1. CASE c \in FromView
  BY <1>1 DEF FromView, Observe, Dep, When, ObserveBridges, ObservePorts,
     ObserveInterfaces, ObserveInterfaceInfo, ObserveInterfaceStatus
<1>2. CASE c \in FromSnapshot
  <2>1. c \notin FromView
    BY <1>2 DEF FromView, FromSnapshot
  <2> QED
    BY <1>2, <2>1 DEF FromSnapshot, Observe, Dep, When, Has, UnixctlHas,
       ObserveCoverage, ObserveMemory, ObserveDatapath,
       ObserveDatapathInterfaces, ObserveUpcall, CoverageDep, MemoryDep,
       DatapathDep, DatapathInterfacesDep, UpcallDep
<1> QED
  BY <1>1, <1>2 DEF Collectors

\* And whether there is a view is all that counts for a collector of the database.
LEMMA ViewDecides ==
  ASSUME NEW c \in FromView
  PROVE  (Dep(c) <=> OVS) /\ (Observe(c) # {} => OVS)
BY DEF FromView, Observe, Dep, When, ObserveBridges, ObservePorts,
   ObserveInterfaces, ObserveInterfaceInfo, ObserveInterfaceStatus

\* No step takes the view away or brings it.
LEMMA ViewStays == [Next]_vars => OVS' = OVS
BY DEF Next, Begin, RunCallback, ObserveUp, Refresh, DatabaseChanges, sources,
   vars, OVS

-----------------------------------------------------------------------------
(* The inductive invariant.                                                *)

\* A group is made of known collectors; TypeOK leaves that to Init, as nothing
\* changes a group once it is made.
GroupInv == enabled \subseteq Collectors

\* Nothing is reported before the first collection, although moved may say that
\* nothing has changed.
NotBegun ==
  todo = {} /\ upTodo = {} /\ up = {} /\ \A c \in enabled : observed[c] = {}

\* While its data stays as it was when the collection began, each callback and each
\* DepCheck that has run says what it would say now.
UnmovedInv ==
  \A c \in enabled : Unmoved(c) =>
    /\ c \notin todo => observed[c] = Observe(c)
    /\ c \notin upTodo => (c \in up <=> Dep(c))

\* What the view has been asked stays true, whatever becomes of the database.
ViewInv ==
  \A c \in enabled \cap FromView :
    /\ c \notin todo /\ observed[c] # {} => OVS
    /\ c \notin upTodo => (c \in up <=> OVS)

\* ObserveUp only adds: what it has not reached is not reported, so that it says
\* 0 of a collector whose DepCheck fails.
PendingInv == up \cap upTodo = {}

\* Whenever the callback ran, it observed what is registered.
RegisteredInv == \A c \in enabled : observed[c] \subseteq Register(c)

CollectionInv ==
  /\ TypeOK /\ GroupInv
  /\ NotBegun \/ (UnmovedInv /\ ViewInv)
  /\ PendingInv /\ RegisteredInv

\* Before the first scrape.
LEMMA InitInv == Init => CollectionInv
BY DEF Init, CollectionInv, TypeOK, Changes, GroupInv, NotBegun, PendingInv,
   RegisteredInv, Collectors, Fields, Contents

\* The steps of a collection.
LEMMA CollectionStep ==
  ASSUME CollectionInv,
         Begin \/ \E c \in enabled : RunCallback(c) \/ ObserveUp(c)
  PROVE  CollectionInv'
<1>1. UNCHANGED sources /\ UNCHANGED enabled
  BY DEF Begin, RunCallback, ObserveUp
<1>2. GroupInv' /\ Fields' = Fields
  BY <1>1 DEF CollectionInv, GroupInv, Fields
<1>3. \A c : Register(c)' = Register(c)
  BY DEF Register
<1>4. OVS' = OVS
  BY <1>1 DEF sources, OVS
<1>5. \A c \in enabled : Observe(c)' = Observe(c) /\ Dep(c)' = Dep(c)
  BY <1>1, <1>4, SourcesDecide DEF sources, CollectionInv, GroupInv
<1>6. CASE Begin
  <2>1. TypeOK'
    BY <1>1, <1>2, <1>6 DEF Begin, CollectionInv, TypeOK, sources, Changes
  <2>2. UnmovedInv' /\ ViewInv'
    BY <1>1, <1>6 DEF Begin, UnmovedInv, ViewInv
  <2>3. PendingInv' /\ RegisteredInv'
    BY <1>1, <1>6 DEF Begin, PendingInv, RegisteredInv
  <2> QED
    BY <1>2, <2>1, <2>2, <2>3 DEF CollectionInv
<1>7. ASSUME NEW c \in enabled, RunCallback(c)
      PROVE  CollectionInv'
  <2>1. TypeOK'
    BY <1>1, <1>2, <1>7 DEF RunCallback, CollectionInv, TypeOK, sources
  <2>2. UnmovedInv /\ ViewInv
    BY <1>7 DEF RunCallback, CollectionInv, NotBegun
  <2>3. \A d \in enabled : d \notin todo' =>
          observed'[d] = IF d = c THEN Observe(c) ELSE observed[d]
    BY <1>7 DEF RunCallback, CollectionInv, TypeOK
  <2>4. todo' = todo \ {c} /\ UNCHANGED <<upTodo, up, moved>>
    BY <1>7 DEF RunCallback
  <2>5. UnmovedInv'
    BY <1>1, <1>5, <2>2, <2>3, <2>4 DEF UnmovedInv, Unmoved
  <2>6. ViewInv'
    BY <1>1, <1>4, <2>2, <2>3, <2>4, ViewDecides DEF ViewInv
  <2>7. RegisteredInv'
    BY <1>1, <1>3, <1>7, ObserveWhatIsRegistered
       DEF RunCallback, RegisteredInv, CollectionInv, GroupInv, TypeOK
  <2>8. PendingInv'
    BY <1>7 DEF RunCallback, CollectionInv, PendingInv
  <2> QED
    BY <1>2, <2>1, <2>5, <2>6, <2>7, <2>8 DEF CollectionInv
<1>8. ASSUME NEW c \in enabled, ObserveUp(c)
      PROVE  CollectionInv'
  <2>1. TypeOK'
    BY <1>1, <1>2, <1>8 DEF ObserveUp, CollectionInv, TypeOK, sources
  <2>2. UnmovedInv /\ ViewInv
    BY <1>8 DEF ObserveUp, CollectionInv, NotBegun
  <2>3. \A d \in enabled : d \notin upTodo' =>
          (d \in up' <=> IF d = c THEN Dep(c) ELSE d \in up)
    BY <1>8 DEF ObserveUp, CollectionInv, PendingInv
  <2>4. upTodo' = upTodo \ {c} /\ UNCHANGED <<todo, observed, moved>>
    BY <1>8 DEF ObserveUp
  <2>5. UnmovedInv'
    BY <1>1, <1>5, <2>2, <2>3, <2>4 DEF UnmovedInv, Unmoved
  <2>6. ViewInv'
    BY <1>1, <1>4, <2>2, <2>3, <2>4, ViewDecides DEF ViewInv
  <2>7. RegisteredInv'
    BY <1>1, <1>3, <1>8 DEF ObserveUp, RegisteredInv, CollectionInv
  <2>8. PendingInv'
    BY <1>8 DEF ObserveUp, CollectionInv, PendingInv
  <2> QED
    BY <1>2, <2>1, <2>5, <2>6, <2>7, <2>8 DEF CollectionInv
<1> QED
  BY <1>6, <1>7, <1>8

\* The steps of the sources: what they replace is told by moved.
LEMMA SourcesStep ==
  ASSUME CollectionInv, Refresh \/ DatabaseChanges
  PROVE  CollectionInv'
<1>1. /\ UNCHANGED <<enabled, collected>> /\ moved \subseteq moved'
      /\ "cache" \notin moved' => UNCHANGED cache
      /\ "snapshot" \notin moved' => UNCHANGED <<snap, parsed>>
  BY DEF Refresh, DatabaseChanges
<1>2. GroupInv' /\ Fields' = Fields
  BY <1>1 DEF CollectionInv, GroupInv, Fields
<1>3. TypeOK'
  <2>1. CASE Refresh
    BY <1>2, <2>1 DEF Refresh, CollectionInv, TypeOK, collected, Changes
  <2>2. CASE DatabaseChanges
    BY <1>2, <2>2 DEF DatabaseChanges, CollectionInv, TypeOK, collected, Changes
  <2> QED
    BY <2>1, <2>2
<1>4. OVS' = OVS
  BY ViewStays DEF Next
<1>5. \A c \in enabled : Unmoved(c)' =>
        Unmoved(c) /\ Observe(c)' = Observe(c) /\ Dep(c)' = Dep(c)
  BY <1>1, <1>4, SourcesDecide DEF CollectionInv, GroupInv, Unmoved
<1>6. NotBegun' \/ (UnmovedInv' /\ ViewInv')
  <2>1. CASE NotBegun
    BY <1>1, <2>1 DEF NotBegun, collected
  <2>2. CASE UnmovedInv /\ ViewInv
    BY <1>1, <1>4, <1>5, <2>2 DEF UnmovedInv, ViewInv, collected
  <2> QED
    BY <2>1, <2>2 DEF CollectionInv
<1>7. PendingInv' /\ RegisteredInv'
  BY <1>1 DEF collected, CollectionInv, PendingInv, RegisteredInv, Register
<1> QED
  BY <1>2, <1>3, <1>6, <1>7 DEF CollectionInv

\* Every step of the collection keeps the invariant.
LEMMA StepInv == CollectionInv /\ [Next]_vars => CollectionInv'
<1> SUFFICES ASSUME CollectionInv, [Next]_vars
             PROVE  CollectionInv'
  OBVIOUS
<1>1. CASE UNCHANGED vars
  <2>1. OVS' = OVS
    BY ViewStays
  <2>2. \A c \in enabled : Observe(c)' = Observe(c) /\ Dep(c)' = Dep(c)
    BY <1>1, <2>1, SourcesDecide DEF vars, sources, CollectionInv, GroupInv
  <2>3. TypeOK' /\ GroupInv'
    BY <1>1 DEF vars, sources, collected, CollectionInv, TypeOK, GroupInv, Fields
  <2>4. NotBegun' \/ (UnmovedInv' /\ ViewInv')
    BY <1>1, <2>1, <2>2
    DEF vars, CollectionInv, NotBegun, UnmovedInv, ViewInv, Unmoved
  <2>5. PendingInv' /\ RegisteredInv'
    BY <1>1 DEF vars, CollectionInv, PendingInv, RegisteredInv, Register
  <2> QED
    BY <2>3, <2>4, <2>5 DEF CollectionInv
<1> QED
  BY <1>1, CollectionStep, SourcesStep DEF Next

-----------------------------------------------------------------------------
(* Theorems.                                                               *)

\* The invariant holds however collections, refreshes and the database are
\* interleaved.
THEOREM InductiveInvariant == Spec => []CollectionInv
BY InitInv, StepInv, PTL DEF Spec

\* Every variable keeps its type, and a refresh that has fetched anything is the
\* snapshot.
THEOREM TypeCorrect == Spec => []TypeOK
<1>1. CollectionInv => TypeOK
  BY DEF CollectionInv
<1> QED
  BY <1>1, InductiveInvariant, PTL

\* ovs.collector.up and the observations of a collection agree for every group of
\* collectors, whatever the sources do in between, but for fields a new snapshot has
\* taken away or brought (collector.go:25-30).
THEOREM UpAgreesWithData == Spec => []UpTellsOfData
<1>1. CollectionInv => UpTellsOfData
  <2> SUFFICES ASSUME CollectionInv, todo = {}, NEW c \in enabled \ upTodo
               PROVE  /\ observed[c] # {} /\ (c \in FromView \/ Unmoved(c)) => c \in up
                      /\ c \in up /\ Unmoved(c)
                           /\ (IF c \in FromView THEN cache ELSE parsed) = "full" =>
                           observed[c] # {}
    BY DEF UpTellsOfData
  <2>1. CASE NotBegun
    BY <2>1 DEF NotBegun
  <2>2. CASE UnmovedInv /\ ViewInv
    <3>1. c \in Collectors
      BY DEF CollectionInv, GroupInv
    <3>2. ASSUME Unmoved(c)
          PROVE  observed[c] = Observe(c) /\ (c \in up <=> Dep(c))
      BY <2>2, <3>2 DEF UnmovedInv
    <3>3. c \in FromView /\ observed[c] # {} => c \in up
      BY <2>2 DEF ViewInv
    <3> QED
      BY <3>1, <3>2, <3>3, ObserveNeedsDep, DepObserves
  <2> QED
    BY <2>1, <2>2 DEF CollectionInv
<1> QED
  BY <1>1, InductiveInvariant, PTL

\* No observation is of an instrument the callback is not registered for, and a
\* collector that is up and whose sources are complete observes all it has
\* registered (RegisterCallback at the end of each Register).
THEOREM SeriesComplete == Spec => []SeriesAreComplete
<1>1. CollectionInv => SeriesAreComplete
  <2> SUFFICES ASSUME CollectionInv, NEW c \in enabled
               PROVE  /\ observed[c] \subseteq Register(c)
                      /\ Unmoved(c) /\ c \notin todo \cup upTodo /\ c \in up =>
                           IF c \in FromView
                             THEN cache = "full" => observed[c] = Register(c)
                             ELSE parsed = "full" /\ FieldsOf(c) \subseteq snap =>
                                    observed[c] = Register(c)
    BY DEF SeriesAreComplete
  <2>1. observed[c] \subseteq Register(c)
    BY DEF CollectionInv, RegisteredInv
  <2>2. ASSUME Unmoved(c), c \notin todo \cup upTodo, c \in up
        PROVE  IF c \in FromView
                 THEN cache = "full" => observed[c] = Register(c)
                 ELSE parsed = "full" /\ FieldsOf(c) \subseteq snap =>
                        observed[c] = Register(c)
    <3>1. UnmovedInv
      BY <2>2 DEF CollectionInv, NotBegun
    <3>2. observed[c] = Observe(c) /\ Dep(c) /\ c \in Collectors
      BY <2>2, <3>1 DEF UnmovedInv, CollectionInv, GroupInv
    <3> QED
      BY <3>2, CompleteSourcesObserveAll
  <2> QED
    BY <2>1, <2>2
<1> QED
  BY <1>1, InductiveInvariant, PTL
=============================================================================
