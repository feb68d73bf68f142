-------------------------- MODULE CacheWalkProofs --------------------------
(***************************************************************************)
(* Theorems about CacheWalk for any sets of rows and any changes of the    *)
(* cache between any two steps of a collection.                            *)
(***************************************************************************)
EXTENDS CacheWalk, TLAPS

\* Each copy is of one moment: what two of its rows hold was shared then.
CopiesInv ==
  /\ pc # "idle" => Shared \subseteq shared
  /\ \A p, q \in Ports : p # q => ports[p] \cap ports[q] \subseteq shared
  /\ \A a, b \in Bridges : a # b => rows[a] \cap rows[b] \subseteq shared

\* What has been observed is in the copies.
SeenInv ==
  /\ \A x \in seen : x[2] \in rows[x[1]] /\ x[3] \in ports[x[2]]
  /\ pc \in {"ports", "interfaces", "bridges"} => seen = {}

\* What stays attached is in every copy that has been taken, until observed.
StableInv ==
  /\ pc \in {"interfaces", "bridges", "walk"} =>
       \A x \in stable : x[3] \in ports[x[2]]
  /\ pc \in {"bridges", "walk"} => \A x \in stable : x[3] \in interfaces
  /\ pc = "walk" =>
       \A x \in stable : x[2] \in rows[x[1]] /\ (x[1] \in todo \/ x \in seen)

IndInv ==
  TypeOK /\ CopiesInv /\ SeenInv /\ StableInv /\ StableInterfacesObserved
-----------------------------------------------------------------------------
\* Only the rows of the cache decide what is attached and what is shared.
LEMMA CacheStays ==
  ASSUME UNCHANGED cacheVars
  PROVE  Attached' = Attached /\ Shared' = Shared
BY DEF cacheVars, Attached, Shared

\* What is attached is in the rows, and what is shared has its type.
LEMMA InRows ==
  ASSUME interfaceTable \subseteq Interfaces
  PROVE  /\ \A x \in Attached :
              /\ x \in Bridges \X Ports \X Interfaces
              /\ x[1] \in Bridges /\ x[2] \in Ports
              /\ x[2] \in bridgeTable[x[1]] /\ x[3] \in portTable[x[2]]
              /\ x[3] \in interfaceTable
         /\ Shared \subseteq Ports \cup Interfaces
BY DEF Attached, Shared

\* Before the first walk.
LEMMA InitInv == Init => IndInv
<1> SUFFICES ASSUME Init PROVE IndInv
  OBVIOUS
<1>1. TypeOK
  BY MaxChangesAssumption DEF Init, TypeOK
<1>2. CopiesInv /\ SeenInv /\ StableInv /\ StableInterfacesObserved
  BY DEF Init, CopiesInv, SeenInv, StableInv, StableInterfacesObserved
<1> QED
  BY <1>1, <1>2 DEF IndInv

\* A walk begins with empty maps; what is attached and shared is recorded.
LEMMA BeginInv == ASSUME IndInv, Begin PROVE IndInv'
<1> USE DEF IndInv, Begin
<1>1. Attached' = Attached /\ Shared' = Shared
  BY CacheStays
<1>2. TypeOK'
  <2>1. Shared \subseteq Ports \cup Interfaces
    BY InRows DEF TypeOK
  <2> QED
    BY <1>1, <2>1, MaxChangesAssumption DEF TypeOK, cacheVars
<1>3. CopiesInv' /\ SeenInv' /\ StableInv' /\ StableInterfacesObserved'
  BY <1>1 DEF CopiesInv, SeenInv, StableInv, StableInterfacesObserved
<1> QED
  BY <1>2, <1>3

\* The ports as they are at this moment.
LEMMA ReadPortsInv == ASSUME IndInv, ReadPorts PROVE IndInv'
<1> USE DEF IndInv, ReadPorts, history
<1>1. Attached' = Attached /\ Shared' = Shared
  BY CacheStays
<1>2. TypeOK'
  BY <1>1 DEF TypeOK, cacheVars
<1>3. CopiesInv'
  <2>1. \A p, q \in Ports : p # q => portTable[p] \cap portTable[q] \subseteq Shared
    BY DEF Shared, TypeOK
  <2> QED
    BY <1>1, <2>1 DEF CopiesInv
<1>4. SeenInv' /\ StableInterfacesObserved'
  BY DEF SeenInv, StableInterfacesObserved
<1>5. StableInv'
  BY InRows DEF StableInv, TypeOK
<1> QED
  BY <1>2, <1>3, <1>4, <1>5

\* The interfaces, read after the ports.
LEMMA ReadInterfacesInv == ASSUME IndInv, ReadInterfaces PROVE IndInv'
<1> USE DEF IndInv, ReadInterfaces, history
<1>1. Attached' = Attached /\ Shared' = Shared
  BY CacheStays
<1>2. TypeOK'
  BY <1>1 DEF TypeOK, cacheVars, SeenInv
<1>3. CopiesInv' /\ SeenInv' /\ StableInterfacesObserved'
  BY <1>1 DEF CopiesInv, SeenInv, StableInterfacesObserved
<1>4. StableInv'
  BY InRows DEF StableInv, TypeOK
<1> QED
  BY <1>2, <1>3, <1>4

\* The bridges, read last: every one of them is still to be walked.
LEMMA ReadBridgesInv == ASSUME IndInv, ReadBridges PROVE IndInv'
<1> USE DEF IndInv, ReadBridges, history
<1>1. Attached' = Attached /\ Shared' = Shared
  BY CacheStays
<1>2. TypeOK'
  BY <1>1 DEF TypeOK, cacheVars
<1>3. CopiesInv'
  <2>1. \A a, b \in Bridges :
          a # b => bridgeTable[a] \cap bridgeTable[b] \subseteq Shared
    BY DEF Shared, TypeOK
  <2> QED
    BY <1>1, <2>1 DEF CopiesInv
<1>4. SeenInv' /\ StableInterfacesObserved'
  BY DEF SeenInv, StableInterfacesObserved
<1>5. StableInv'
  BY InRows DEF StableInv, TypeOK
<1> QED
  BY <1>2, <1>3, <1>4, <1>5

\* What bridge b adds is in the copies, and all that is stable under b is in it.
LEMMA WalkBridgeInv ==
  ASSUME IndInv, NEW b \in Bridges, WalkBridge(b)
  PROVE  IndInv'
<1> USE DEF IndInv
<1> DEFINE added == Resolved(Ways(b, rows[b]))
<1>0. /\ pc = "walk" /\ todo' = todo \ {b} /\ seen' = seen \cup added
      /\ UNCHANGED <<cacheVars, pc, copies, history>>
  BY DEF WalkBridge, Walked
<1>1. Attached' = Attached /\ Shared' = Shared
  BY <1>0, CacheStays
<1>2. \A x \in {b} \X rows[b] \X Interfaces :
        x \in added <=> x[3] \in ports[x[2]] /\ x[3] \in interfaces
  BY DEF Resolved, Ways
<1>3. \A x \in added : /\ x \in {b} \X rows[b] \X Interfaces
                       /\ x[3] \in ports[x[2]] /\ x[3] \in interfaces
  BY DEF Resolved, Ways
<1>4. TypeOK'
  <2>1. rows[b] \subseteq Ports
    BY DEF TypeOK
  <2>2. added \subseteq Bridges \X Ports \X interfaces
    BY <1>3, <2>1
  <2> QED
    BY <1>0, <1>1, <2>2 DEF TypeOK, cacheVars, copies, history
<1>5. CopiesInv' /\ StableInterfacesObserved'
  BY <1>0, <1>1 DEF CopiesInv, StableInterfacesObserved, copies, history
<1>6. SeenInv'
  BY <1>0, <1>3 DEF SeenInv, copies
<1>7. StableInv'
  <2>1. ASSUME NEW x \in stable, x[1] = b
        PROVE  x \in added
    <3>1. /\ x \in Bridges \X Ports \X Interfaces
          /\ x[2] \in rows[b] /\ x[3] \in ports[x[2]] /\ x[3] \in interfaces
      BY <1>0, <2>1, InRows DEF StableInv, TypeOK
    <3>2. x \in {b} \X rows[b] \X Interfaces
      BY <2>1, <3>1
    <3> QED
      BY <1>2, <3>1, <3>2
  <2> QED
    BY <1>0, <2>1 DEF StableInv, copies, history
<1> QED
  BY <1>4, <1>5, <1>6, <1>7

\* No bridge is left to be walked.
LEMMA ReturnInv == ASSUME IndInv, Return PROVE IndInv'
<1> USE DEF IndInv, Return, copies, history
<1>1. Attached' = Attached /\ Shared' = Shared
  BY CacheStays
<1>2. TypeOK'
  BY <1>1 DEF TypeOK, cacheVars
<1>3. CopiesInv' /\ SeenInv' /\ StableInv'
  BY DEF CopiesInv, SeenInv, StableInv
<1>4. StableInterfacesObserved'
  BY DEF StableInterfacesObserved, StableInv
<1> QED
  BY <1>2, <1>3, <1>4

\* A row that changes is in none of the copies that have been taken; that it is
\* shared now, or attached no more, is recorded.
LEMMA ChangeInv == ASSUME IndInv, Change PROVE IndInv'
<1> USE DEF IndInv
<1>0. /\ changes < MaxChanges /\ changes' = changes + 1
      /\ stable' = stable \cap Attached' /\ shared' = shared \cup Shared'
      /\ UNCHANGED <<pc, copies, todo, seen>>
  BY DEF Change
<1>1. /\ bridgeTable' \in [Bridges -> SUBSET Ports]
      /\ portTable' \in [Ports -> SUBSET Interfaces]
      /\ interfaceTable' \subseteq Interfaces
  BY DEF Change, BridgeChanges, PortChanges, InterfaceChanges, TypeOK
<1>2. TypeOK'
  <2>1. Shared' \subseteq Ports \cup Interfaces
    BY <1>1 DEF Shared
  <2>2. changes' \in 0 .. MaxChanges
    BY <1>0, MaxChangesAssumption DEF TypeOK
  <2> QED
    BY <1>0, <1>1, <2>1, <2>2 DEF TypeOK, copies
<1>3. CopiesInv'
  BY <1>0 DEF CopiesInv, copies
<1>4. SeenInv' /\ StableInv' /\ StableInterfacesObserved'
  BY <1>0 DEF SeenInv, StableInv, StableInterfacesObserved, copies
<1> QED
  BY <1>2, <1>3, <1>4

\* Every step of the walk or of the cache keeps the invariant.
LEMMA NextInv == IndInv /\ [Next]_vars => IndInv'
<1> SUFFICES ASSUME IndInv, [Next]_vars
             PROVE  IndInv'
  OBVIOUS
<1>1. CASE UNCHANGED vars
  <2>1. Attached' = Attached /\ Shared' = Shared
    BY <1>1, CacheStays DEF vars
  <2> QED
    BY <1>1, <2>1 DEF vars, cacheVars, copies, history, IndInv, TypeOK, CopiesInv,
                      SeenInv, StableInv, StableInterfacesObserved
<1>2. CASE Next
  BY <1>2, BeginInv, ReadPortsInv, ReadInterfacesInv, ReadBridgesInv,
     WalkBridgeInv, ReturnInv, ChangeInv DEF Next
<1> QED
  BY <1>1, <1>2

\* Copies of single moments, whatever happens between them.
THEOREM InductiveInvariant == Spec => []IndInv
BY InitInv, NextInv, PTL DEF Spec

\* Every variable stays in its type.
THEOREM TypeCorrect == Spec => []TypeOK
<1>1. IndInv => TypeOK
  BY DEF IndInv
<1> QED
  BY <1>1, InductiveInvariant, PTL

\* What is observed twice in a collection came by a row that two rows of the cache
\* held at one moment of it; no move of rows from one place to another, with any
\* number of bridges, ports and interfaces, does it (interfaces.go:111-131).
THEOREM ObservedOnce == Spec => []EachInterfaceOnce
<1>1. ASSUME IndInv, NEW x \in seen, NEW y \in seen, x[3] = y[3], x # y
      PROVE  {x[2], x[3]} \cap shared # {}
  <2>1. /\ x \in Bridges \X Ports \X interfaces /\ y \in Bridges \X Ports \X interfaces
        /\ x[2] \in rows[x[1]] /\ x[3] \in ports[x[2]]
        /\ y[2] \in rows[y[1]] /\ y[3] \in ports[y[2]]
    BY <1>1 DEF IndInv, TypeOK, SeenInv
  <2>2. CASE x[2] # y[2]
    BY <1>1, <2>1, <2>2 DEF IndInv, CopiesInv
  <2>3. CASE x[2] = y[2] /\ x[1] # y[1]
    BY <1>1, <2>1, <2>3 DEF IndInv, CopiesInv
  <2> QED
    BY <1>1, <2>1, <2>2, <2>3
<1>2. IndInv => EachInterfaceOnce
  BY <1>1 DEF EachInterfaceOnce
<1> QED
  BY <1>2, InductiveInvariant, PTL

\* An interface that stays where it is during a collection is observed
\* (interfaces.go:117-129).
THEOREM StableObserved == Spec => []StableInterfacesObserved
<1>1. IndInv => StableInterfacesObserved
  BY DEF IndInv
<1> QED
  BY <1>1, InductiveInvariant, PTL
=============================================================================
