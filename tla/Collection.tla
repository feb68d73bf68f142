----------------------------- MODULE Collection -----------------------------
(***************************************************************************)
(* One metric reader collecting: the callbacks of the enabled collectors   *)
(* run one after the other in the order in which a Go map had them         *)
(* registered, each reading the data source for itself (datasource.go),    *)
(* then ovs.collector.up asks every collector's DepCheck, which reads the  *)
(* data source again.  Meanwhile the scraper stores snapshots, libovsdb    *)
(* updates its cache and loses and regains its connection.                 *)
(*                                                                         *)
(* A snapshot is the set of its fields that are not nil; it never is empty *)
(* (scraper.go:118), so the empty set stands for no snapshot.  How much    *)
(* there is in the cache, and in the fields, is "none" (no bridge, no      *)
(* datapath, no row of output), "bare" (something, without any optional    *)
(* part) or "full".  An observation is the instrument it is made with.     *)
(* Callbacks write nothing, so one reader stands for any number of them.   *)
(***************************************************************************)
EXTENDS Naturals, FiniteSets

CONSTANT MaxEnabled  \* bound: collectors of the group

ASSUME MaxEnabledAssumption == MaxEnabled \in Nat \ {0}

FromView == {"bridges", "ports", "interfaces", "interface-info",
             "interface-status"}
FromSnapshot == {"coverage", "memory", "datapath", "datapath-interfaces",
                 "upcall"}
Contents == {"none", "bare", "full"}

VARIABLES enabled,   \* collectors of the group
          client,    \* "nil": Connect failed; else whether libovsdb is connected
          cache,     \* how much there is in libovsdb's cache
          snap,      \* fields of Scraper.Snapshot
          parsed,    \* how much there is in them
          last,      \* fields the last refresh fetched; {}: it failed
          todo,      \* collectors whose callback has not run in this collection
          upTodo,    \* collectors observeUp has not reached
          observed,  \* observed[c]: instruments c has observed
          up,        \* collectors reported with ovs.collector.up 1
          moved      \* history: what has changed since this collection began

sources == <<client, cache, snap, parsed, last>>
collected == <<todo, upTodo, observed, up>>
vars == <<enabled, client, cache, snap, parsed, last, todo, upTodo, observed, up,
          moved>>

Init ==
  /\ enabled \in {S \in SUBSET (FromView \cup FromSnapshot) :
                    Cardinality(S) \in 1 .. MaxEnabled}
  /\ client \in {"nil", "connected"} /\ cache \in Contents
  /\ snap = {} /\ parsed = "none" /\ last = {}
  /\ todo = {} /\ upTodo = {} /\ up = {} /\ moved = {}
  /\ observed = [c \in enabled |-> {}]

\* Seeded fault: the view is withheld while libovsdb is disconnected.
OVSConnected == client = "connected"

\* DataSource.OVS: a client that was connected once has a view for good.
OVS == client # "nil"

\* Client.Healthy, which /readyz asks.
Healthy == client = "connected"

-----------------------------------------------------------------------------
(* Register: the instruments each collector passes to RegisterCallback.    *)

RegisterBridges == {"ovs.bridges.count", "ovs.bridge.ports.count"}
RegisterPorts == {"ovs.ports.count"}

RegisterInterfaces ==
  {"ovs.interface.rx.bytes", "ovs.interface.rx.packets",
   "ovs.interface.tx.bytes", "ovs.interface.tx.packets",
   "ovs.interface.errors", "ovs.interface.drops", "ovs.interface.collisions"}

RegisterInterfaceInfo ==
  {"ovs.interface.admin_state", "ovs.interface.link_state", "ovs.interface.mtu",
   "ovs.interface.link_speed", "ovs.interface.if_index",
   "ovs.interface.of_port", "ovs.interface.ingress_policing.rate",
   "ovs.interface.ingress_policing.burst",
   "ovs.interface.ingress_policing.kpkts_rate",
   "ovs.interface.ingress_policing.kpkts_burst", "ovs.interface.info"}

RegisterInterfaceStatus ==
  {"ovs.interface.status", "ovs.interface.options", "ovs.interface.external_ids"}

RegisterCoverage == {"ovs.coverage.events"}
RegisterMemory == {"ovs.memory.usage"}

\* Seeded fault: an instrument is created and not passed on.
RegisterDatapathButOne ==
  {"ovs.datapath.lookups", "ovs.datapath.flows", "ovs.datapath.masks.hit"}

RegisterDatapath ==
  {"ovs.datapath.lookups", "ovs.datapath.flows", "ovs.datapath.masks.hit",
   "ovs.datapath.cache.hit"}

RegisterDatapathInterfaces == {"ovs.datapath.interface.info"}

RegisterUpcall ==
  {"ovs.upcall.flows.current", "ovs.upcall.flows.max", "ovs.upcall.flows.limit",
   "ovs.upcall.dump.duration", "ovs.upcall.handler.keys"}

Register(c) ==
  CASE c = "bridges" -> RegisterBridges
    [] c = "ports" -> RegisterPorts
    [] c = "interfaces" -> RegisterInterfaces
    [] c = "interface-info" -> RegisterInterfaceInfo
    [] c = "interface-status" -> RegisterInterfaceStatus
    [] c = "coverage" -> RegisterCoverage
    [] c = "memory" -> RegisterMemory
    [] c = "datapath" -> RegisterDatapath
    [] c = "datapath-interfaces" -> RegisterDatapathInterfaces
    [] c = "upcall" -> RegisterUpcall

-----------------------------------------------------------------------------
(* observe: the instruments observed, given what there is.                 *)

When(condition, S) == IF condition THEN S ELSE {}

\* The totals are observed also when they are 0.
ObserveBridges ==
  When(OVS, {"ovs.bridges.count"}
              \cup When(cache # "none", {"ovs.bridge.ports.count"}))
ObservePorts == When(OVS, {"ovs.ports.count"})

ObserveInterfaces ==
  When(OVS /\ cache # "none",
       {"ovs.interface.rx.bytes", "ovs.interface.rx.packets",
        "ovs.interface.tx.bytes", "ovs.interface.tx.packets",
        "ovs.interface.collisions", "ovs.interface.errors",
        "ovs.interface.drops"})

\* Optional columns are observed when they are set.
ObserveInterfaceInfo ==
  When(OVS /\ cache # "none",
       {"ovs.interface.ingress_policing.rate",
        "ovs.interface.ingress_policing.burst",
        "ovs.interface.ingress_policing.kpkts_rate",
        "ovs.interface.ingress_policing.kpkts_burst", "ovs.interface.info"}
       \cup When(cache = "full",
              {"ovs.interface.admin_state", "ovs.interface.link_state",
               "ovs.interface.mtu", "ovs.interface.link_speed",
               "ovs.interface.if_index", "ovs.interface.of_port"}))

ObserveInterfaceStatus ==
  When(OVS /\ cache = "full",
       {"ovs.interface.status", "ovs.interface.options",
        "ovs.interface.external_ids"})

Has(field) == field \in snap /\ parsed # "none"

ObserveCoverage == When(Has("Coverage"), {"ovs.coverage.events"})
ObserveMemory == When(Has("Memory"), {"ovs.memory.usage"})

\* Either source alone is enough for its part.
ObserveDatapath ==
  When(Has("DPIF"), {"ovs.datapath.lookups"})
  \cup When(Has("DPCTL"), {"ovs.datapath.flows", "ovs.datapath.masks.hit",
                           "ovs.datapath.cache.hit"})

\* Bridges and ports are optional in a datapath.
ObserveDatapathInterfaces ==
  When(Has("DPIF") /\ parsed = "full", {"ovs.datapath.interface.info"})

\* So are handlers.
ObserveUpcall ==
  When(Has("Upcall"),
       {"ovs.upcall.flows.current", "ovs.upcall.flows.max",
        "ovs.upcall.flows.limit", "ovs.upcall.dump.duration"}
       \cup When(parsed = "full", {"ovs.upcall.handler.keys"}))

Observe(c) ==
  CASE c = "bridges" -> ObserveBridges
    [] c = "ports" -> ObservePorts
    [] c = "interfaces" -> ObserveInterfaces
    [] c = "interface-info" -> ObserveInterfaceInfo
    [] c = "interface-status" -> ObserveInterfaceStatus
    [] c = "coverage" -> ObserveCoverage
    [] c = "memory" -> ObserveMemory
    [] c = "datapath" -> ObserveDatapath
    [] c = "datapath-interfaces" -> ObserveDatapathInterfaces
    [] c = "upcall" -> ObserveUpcall

-----------------------------------------------------------------------------
(* The DepChecks declared with registerCollector.                          *)

UnixctlHas(fields) == snap \cap fields # {}

DatapathDep == UnixctlHas({"DPIF", "DPCTL"})
DatapathInterfacesDep == UnixctlHas({"DPIF"})
CoverageDep == UnixctlHas({"Coverage"})
MemoryDep == UnixctlHas({"Memory"})
UpcallDep == UnixctlHas({"Upcall"})

Dep(c) ==
  CASE c \in FromView -> OVS
    [] c = "datapath" -> DatapathDep
    [] c = "datapath-interfaces" -> DatapathInterfacesDep
    [] c = "coverage" -> CoverageDep
    [] c = "memory" -> MemoryDep
    [] c = "upcall" -> UpcallDep

-----------------------------------------------------------------------------
(* A collection.                                                           *)

Begin ==
  /\ todo = {} /\ upTodo = {}
  /\ todo' = enabled /\ upTodo' = enabled /\ up' = {} /\ moved' = {}
  /\ observed' = [c \in enabled |-> {}]
  /\ UNCHANGED <<enabled, sources>>

RunCallback(c) ==
  /\ c \in todo
  /\ todo' = todo \ {c}
  /\ observed' = [observed EXCEPT ![c] = Observe(c)]
  /\ UNCHANGED <<enabled, sources, upTodo, up, moved>>

\* One turn of the loop of observeUp, whose callback comes last.
ObserveUp(c) ==
  /\ todo = {} /\ c \in upTodo
  /\ upTodo' = upTodo \ {c}
  /\ up' = IF Dep(c) THEN up \cup {c} ELSE up
  /\ UNCHANGED <<enabled, sources, todo, observed, moved>>

-----------------------------------------------------------------------------
(* The sources.                                                            *)

\* The data of either source, or only whether the source still answers.
Changes == {"cache", "snapshot", "health"}

FieldsOf(c) ==
  CASE c = "datapath" -> {"DPIF", "DPCTL"}
    [] c = "datapath-interfaces" -> {"DPIF"}
    [] c = "coverage" -> {"Coverage"}
    [] c = "memory" -> {"Memory"}
    [] c = "upcall" -> {"Upcall"}
    [] OTHER -> {}

\* The fields some collector of the group reads; "Other" stands for the rest.
Fields == {"Other"} \cup UNION {FieldsOf(c) : c \in enabled}

\* Seeded fault: a field that could not be fetched keeps its old value.
RefreshMerges ==
  /\ last' \in SUBSET Fields
  /\ snap' = snap \cup last'
  /\ parsed' \in Contents
  /\ moved' = moved \cup {"snapshot"}
  /\ UNCHANGED <<enabled, client, cache, collected>>

\* A refresh ends: any of its calls may have failed, and when all have, the
\* snapshot before it stays.
Refresh ==
  /\ last' \in SUBSET Fields
  /\ IF last' = {}
       THEN UNCHANGED <<snap, parsed>> /\ moved' = moved \cup {"health"}
       ELSE /\ snap' = last' /\ parsed' \in Contents
            /\ moved' = moved \cup {"snapshot"}
  /\ UNCHANGED <<enabled, client, cache, collected>>

\* libovsdb notices that the connection is gone, has reconnected, or applies an
\* update.
DatabaseChanges ==
  /\ client # "nil"
  /\ \/ /\ client' = IF client = "connected" THEN "disconnected" ELSE "connected"
        /\ moved' = moved \cup {"health"} /\ UNCHANGED cache
     \/ /\ client = "connected" /\ cache' \in Contents
        /\ moved' = moved \cup {"cache"} /\ UNCHANGED client
  /\ UNCHANGED <<enabled, snap, parsed, last, collected>>

Next ==
  \/ Begin
  \/ \E c \in enabled : RunCallback(c) \/ ObserveUp(c)
  \/ Refresh \/ DatabaseChanges

Spec == Init /\ [][Next]_vars

-----------------------------------------------------------------------------
(* Properties.                                                             *)

\* Every variable stays in its type; a refresh that has fetched anything is the
\* snapshot.
TypeOK ==
  /\ client \in {"nil", "connected", "disconnected"}
  /\ cache \in Contents /\ parsed \in Contents
  /\ snap \subseteq Fields /\ last \subseteq Fields /\ (last # {} => snap = last)
  /\ todo \subseteq enabled /\ upTodo \subseteq enabled /\ up \subseteq enabled
  /\ DOMAIN observed = enabled
  /\ moved \subseteq Changes

\* What the observations of a collector in this collection were made from has not
\* been replaced since.
Unmoved(c) == (IF c \in FromView THEN "cache" ELSE "snapshot") \notin moved

\* The DepCheck declared in init and the nil checks of observe, written apart and
\* evaluated at different moments, agree for every combination of missing fields
\* (collector.go:25-30, datapath.go:13-16).  A collector that has observed anything
\* is up, even if the database or its connection has changed in between or a refresh
\* has failed: only a new snapshot may take a field away.  And one that is up has
\* observed something if all of its data was there and stayed.
UpTellsOfData ==
  todo = {} =>
    \A c \in enabled \ upTodo :
      /\ observed[c] # {} /\ (c \in FromView \/ Unmoved(c)) => c \in up
      /\ c \in up /\ Unmoved(c)
           /\ (IF c \in FromView THEN cache ELSE parsed) = "full" =>
           observed[c] # {}

\* No collector ever observes an instrument it has not registered its callback
\* for, which the SDK would drop, and one that is up observes every one of its
\* instruments as soon as its sources are complete (RegisterCallback at the end
\* of each Register, observe below it).
SeriesAreComplete ==
  \A c \in enabled :
    /\ observed[c] \subseteq Register(c)
    /\ Unmoved(c) /\ c \notin todo \cup upTodo /\ c \in up =>
         IF c \in FromView
           THEN cache = "full" => observed[c] = Register(c)
           ELSE parsed = "full" /\ FieldsOf(c) \subseteq snap =>
                  observed[c] = Register(c)

\* The dependencies that are available now: the connection, and what the last
\* refresh fetched.
Current(c) == IF c \in FromView THEN Healthy ELSE last \cap FieldsOf(c) # {}

\* collector.go:238: "1 if the collector's data dependency is currently
\* available; 0 otherwise."
UpMeansAvailable ==
  moved = {} => \A c \in up : Current(c)
=============================================================================
