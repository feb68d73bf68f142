----------------------------- MODULE CacheWalk -----------------------------
(***************************************************************************)
(* How the per-interface collectors (interfaces.go, interfaces_info.go,    *)
(* interfaces_status.go) walk the ovsdb cache: Port rows, then Interface   *)
(* rows, then Bridge rows, each table copied under its read lock at a      *)
(* moment of its own (cache.go), and then bridge by bridge over the        *)
(* copies, dropping every reference that does not resolve.                 *)
(*                                                                         *)
(* Meanwhile transactions reach the cache row by row (external): of        *)
(* libovsdb only the read lock is relied on, so a copy may show half of a  *)
(* transaction.  The schema (vswitch.ovsschema:81, 154) keeps a row from   *)
(* being deleted while it is referred to, and deletes it after, but lets   *)
(* any number of bridges hold a port, and of ports an interface.           *)
(*                                                                         *)
(* What is observed twice in a collection is counted twice, what is        *)
(* dropped is a gap in every rate.                                         *)
(***************************************************************************)
EXTENDS Naturals

CONSTANTS Bridges, Ports, Interfaces,  \* UUIDs of rows
          MaxChanges   \* bound: rows that change during one collection

ASSUME MaxChangesAssumption == MaxChanges \in Nat

\* A row that is not there is as if it referred to nothing: walked, both come to
\* nothing, and a Port row that is there has at least one interface (the schema).
VARIABLES bridgeTable,     \* the cache: ports of each Bridge row
          portTable,       \* interfaces of each Port row
          interfaceTable,  \* Interface rows
          pc,              \* where observe is
          ports,           \* its map of Port rows
          interfaces,      \* its map of Interface rows
          rows,            \* its copy of the Bridge rows
          todo,            \* bridges whose row is still to be walked
          seen,            \* what it has observed, by way of which rows:
                           \* <<bridge, port, interface>>
          changes,         \* rows that have changed since observe began
          stable,          \* history: <<bridge, port, interface>> whose rows
                           \* have held each other ever since observe began
          shared           \* history: rows that two rows have held at once
                           \* since observe began

cacheVars == <<bridgeTable, portTable, interfaceTable>>
copies == <<ports, interfaces, rows>>
history == <<changes, stable, shared>>
vars == <<cacheVars, pc, copies, todo, seen, history>>

\* A row is there if and only if another refers to it.
Consistent ==
  /\ \A p \in Ports : portTable[p] # {} <=> \E b \in Bridges : p \in bridgeTable[b]
  /\ interfaceTable = UNION {portTable[p] : p \in Ports}

Attached == {x \in Bridges \X Ports \X interfaceTable :
               x[2] \in bridgeTable[x[1]] /\ x[3] \in portTable[x[2]]}

Shared ==
  {p \in Ports : \E a, b \in Bridges :
                   a # b /\ p \in bridgeTable[a] \cap bridgeTable[b]}
  \cup {i \in Interfaces : \E p, q \in Ports :
                             p # q /\ i \in portTable[p] \cap portTable[q]}

Init ==
  /\ bridgeTable \in [Bridges -> SUBSET Ports]
  /\ portTable \in [Ports -> SUBSET Interfaces]
  /\ interfaceTable \in SUBSET Interfaces
  /\ Consistent
  /\ pc = "idle" /\ todo = {} /\ seen = {}
  /\ ports = [p \in Ports |-> {}] /\ interfaces = {} /\ rows = [b \in Bridges |-> {}]
  /\ changes = 0 /\ stable = {} /\ shared = {}

-----------------------------------------------------------------------------
(* observe.                                                                *)

Begin ==
  /\ pc = "idle" /\ pc' = "ports"
  /\ ports' = [p \in Ports |-> {}] /\ interfaces' = {}
  /\ rows' = [b \in Bridges |-> {}] /\ todo' = {} /\ seen' = {}
  /\ changes' = 0 /\ stable' = Attached /\ shared' = Shared
  /\ UNCHANGED cacheVars

\* view.Ports.
ReadPorts ==
  /\ pc = "ports" /\ pc' = "interfaces"
  /\ ports' = portTable
  /\ UNCHANGED <<cacheVars, interfaces, rows, todo, seen, history>>

\* view.Interfaces.
ReadInterfaces ==
  /\ pc = "interfaces" /\ pc' = "bridges"
  /\ interfaces' = interfaceTable
  /\ UNCHANGED <<cacheVars, ports, rows, todo, seen, history>>

\* view.Bridges: the copy of the table.
ReadBridges ==
  /\ pc = "bridges" /\ pc' = "walk"
  /\ rows' = bridgeTable /\ todo' = Bridges
  /\ UNCHANGED <<cacheVars, ports, interfaces, seen, history>>

Walked(b) ==
  /\ pc = "walk" /\ b \in todo
  /\ todo' = todo \ {b}
  /\ UNCHANGED <<cacheVars, pc, copies, history>>

\* The ways from b by way of its ports ps; there is none by way of a port that
\* does not resolve.
Ways(b, ps) == {x \in {b} \X ps \X Interfaces : x[3] \in ports[x[2]]}
Resolved(ways) == {x \in ways : x[3] \in interfaces}

\* Seeded fault: the bridge's row is read when its turn comes.
WalkBridgeLive(b) ==
  /\ Walked(b)
  /\ seen' = seen \cup Resolved(Ways(b, bridgeTable[b]))

\* Seeded fault: the walk of a bridge ends at a port that does not resolve.
WalkBridgeBreaks(b) ==
  /\ Walked(b)
  /\ LET there == {p \in rows[b] : ports[p] # {}} IN
     \E before \in IF there = rows[b] THEN {there} ELSE SUBSET there :
       seen' = seen \cup Resolved(Ways(b, before))

\* Seeded fault: the lookup of an interface is not checked.
WalkBridgeUnchecked(b) ==
  /\ Walked(b)
  /\ seen' = seen \cup Ways(b, rows[b])

\* The callback of view.Bridges for one row.
WalkBridge(b) ==
  /\ Walked(b)
  /\ seen' = seen \cup Resolved(Ways(b, rows[b]))

Return ==
  /\ pc = "walk" /\ todo = {} /\ pc' = "idle"
  /\ UNCHANGED <<cacheVars, copies, todo, seen, history>>

-----------------------------------------------------------------------------
(* The cache.  A transaction reaches it as some of these, in any order.     *)

BridgeChanges(b) ==
  /\ \E ps \in SUBSET Ports :
       ps # bridgeTable[b] /\ bridgeTable' = [bridgeTable EXCEPT ![b] = ps]
  /\ UNCHANGED <<portTable, interfaceTable>>

PortChanges(p) ==
  /\ \E is \in SUBSET Interfaces :
       is # portTable[p] /\ portTable' = [portTable EXCEPT ![p] = is]
  /\ UNCHANGED <<bridgeTable, interfaceTable>>

InterfaceChanges(i) ==
  /\ interfaceTable' =
       IF i \in interfaceTable THEN interfaceTable \ {i} ELSE interfaceTable \cup {i}
  /\ UNCHANGED <<bridgeTable, portTable>>

Change ==
  /\ changes < MaxChanges /\ changes' = changes + 1
  /\ \/ \E b \in Bridges : BridgeChanges(b)
     \/ \E p \in Ports : PortChanges(p)
     \/ \E i \in Interfaces : InterfaceChanges(i)
  /\ stable' = stable \cap Attached' /\ shared' = shared \cup Shared'
  /\ UNCHANGED <<pc, copies, todo, seen>>

Next ==
  \/ Begin \/ ReadPorts \/ ReadInterfaces \/ ReadBridges
  \/ \E b \in Bridges : WalkBridge(b)
  \/ Return \/ Change

Spec == Init /\ [][Next]_vars

-----------------------------------------------------------------------------
(* Properties.                                                             *)

\* Every variable stays in its type: only rows that were found are observed.
TypeOK ==
  /\ bridgeTable \in [Bridges -> SUBSET Ports]
  /\ portTable \in [Ports -> SUBSET Interfaces]
  /\ interfaceTable \subseteq Interfaces
  /\ pc \in {"idle", "ports", "interfaces", "bridges", "walk"}
  /\ rows \in [Bridges -> SUBSET Ports]
  /\ ports \in [Ports -> SUBSET Interfaces]
  /\ interfaces \subseteq Interfaces
  /\ todo \subseteq Bridges
  /\ seen \subseteq Bridges \X Ports \X interfaces
  /\ changes \in 0 .. MaxChanges
  /\ stable \subseteq Attached /\ shared \subseteq Ports \cup Interfaces

\* An interface is observed twice in a collection only if, at one moment of it,
\* two rows of the cache have held the interface or the port it was found by.
\* Where that is not so no order of the three reads and of the changes, rows that
\* move from one bridge or port to another included, counts it for two bridges
\* (interfaces.go:111-131).
EachInterfaceOnce ==
  \A x, y \in seen : x[3] = y[3] /\ x # y => {x[2], x[3]} \cap shared # {}

\* An interface that stays in its port, and that port in its bridge, during a
\* collection is observed, whatever appears, moves or vanishes around it
\* (interfaces.go:117-129).
StableInterfacesObserved ==
  pc = "idle" => stable \subseteq seen
=============================================================================
