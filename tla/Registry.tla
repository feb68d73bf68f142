------------------------------ MODULE Registry ------------------------------
(***************************************************************************)
(* collector/collector.go: which collectors run, and which callbacks the   *)
(* meter holds for them, from the command line to the end of the process.  *)
(* kingpin.Parse sets the flags, NewGroup takes the enabled collectors,    *)
(* RegisterAll registers them one by one in the order of a Go map and      *)
(* ovs.collector.up last, Close takes everything out again.  Registering,  *)
(* instantiating and unregistering may each fail; metric readers run the   *)
(* callbacks the meter holds between any two of these steps, so what they  *)
(* may meet is what holds in every state.                                  *)
(***************************************************************************)
EXTENDS FiniteSets

CONSTANTS Collectors,  \* names passed to registerCollector
          DefaultOn,   \* those registered with DefaultEnabled
          Up           \* the callback of ovs.collector.up

ASSUME CollectorsAssumption == DefaultOn \subseteq Collectors
ASSUME UpAssumption == Up \notin Collectors

VARIABLES stage,      \* where main, or a test, is with the group
          given,      \* given[c]: what the command line says about c
          enabled,    \* collectors with *collectorState[c] = true
          forced,     \* forcedCollectors
          optIn,      \* history: DisableDefaultCollectors has been called
          filters,    \* history: the filters NewGroup was called with
          collectors, \* g.collectors
          pending,    \* what the loop of RegisterAll or Close has not reached
          callbacks,  \* callbacks the meter runs
          handles,    \* registrations that are not nil
          stuck       \* history: callbacks whose Unregister failed

flagVars == <<given, enabled, forced, optIn>>
groupVars == <<filters, collectors>>
meterVars == <<callbacks, handles, stuck>>
vars == <<stage, given, enabled, forced, optIn, filters, collectors, pending,
          callbacks, handles, stuck>>

Settings == {"on", "off", "unset"}

\* registerCollector, from the init of every file: the flag and its default.
Init ==
  /\ stage = "init"
  /\ given \in [Collectors -> Settings]
  /\ enabled = DefaultOn /\ forced = {} /\ optIn = FALSE
  /\ filters = {} /\ collectors = {} /\ pending = {}
  /\ callbacks = {} /\ handles = {} /\ stuck = {}

-----------------------------------------------------------------------------
(* Flags.                                                                  *)

\* kingpin.Parse: given flags get their value and run collectorFlagAction.
Parse ==
  /\ stage = "init" /\ stage' = "parsed"
  /\ forced' = {c \in Collectors : given[c] # "unset"}
  /\ enabled' = {c \in Collectors : given[c] = "on"} \cup (DefaultOn \ forced')
  /\ UNCHANGED <<given, optIn, groupVars, pending, meterVars>>

\* Seeded fault: what the operator has set is switched off too.
DisableAllCollectors ==
  /\ stage = "parsed" /\ optIn' = TRUE
  /\ enabled' = {}
  /\ UNCHANGED <<stage, given, forced, groupVars, pending, meterVars>>

DisableDefaultCollectors ==
  /\ stage = "parsed" /\ optIn' = TRUE
  /\ enabled' = enabled \cap forced
  /\ UNCHANGED <<stage, given, forced, groupVars, pending, meterVars>>

-----------------------------------------------------------------------------
(* NewGroup and RegisterAll.                                               *)

\* Filtering a disabled (or unknown) collector is an error, and any factory
\* may fail: then there is no group.
NewGroup(f) ==
  /\ stage = "parsed"
  /\ filters' = f
  /\ \/ /\ f \subseteq enabled
        /\ collectors' = IF f = {} THEN enabled ELSE f
        /\ stage' = "group"
     \/ /\ ~(f \subseteq enabled) \/ enabled # {}
        /\ UNCHANGED collectors
        /\ stage' = "none"
  /\ UNCHANGED <<flagVars, pending, meterVars>>

RegisterAll ==
  /\ stage = "group" /\ stage' = "registering"
  /\ pending' = collectors
  /\ UNCHANGED <<flagVars, groupVars, meterVars>>

\* Seeded fault: Register does not keep the handle RegisterCallback returns.
RegisterHandleLost(c) ==
  /\ stage = "registering" /\ c \in pending
  /\ pending' = pending \ {c}
  /\ callbacks' = callbacks \cup {c}
  /\ UNCHANGED <<stage, flagVars, groupVars, handles, stuck>>

\* c.Register: the instruments, then the callback and its handle.
Register(c) ==
  /\ stage = "registering" /\ c \in pending
  /\ pending' = pending \ {c}
  /\ callbacks' = callbacks \cup {c} /\ handles' = handles \cup {c}
  /\ UNCHANGED <<stage, flagVars, groupVars, stuck>>

\* RegisterAll returns at the first error; what it has registered stays.
RegisterFails(c) ==
  /\ stage = "registering" /\ c \in pending
  /\ pending' = {} /\ stage' = "failed"
  /\ UNCHANGED <<flagVars, groupVars, meterVars>>

\* Seeded fault: ovs.collector.up comes before the collectors.
RegisterUpFirst ==
  /\ stage = "registering" /\ Up \notin callbacks
  /\ callbacks' = callbacks \cup {Up} /\ handles' = handles \cup {Up}
  /\ stage' = IF pending = {} THEN "serving" ELSE stage
  /\ UNCHANGED <<flagVars, groupVars, pending, stuck>>

\* ovs.collector.up, unless the group is empty.
RegisterUp ==
  /\ stage = "registering" /\ pending = {}
  /\ \/ /\ collectors = {} /\ stage' = "serving"
        /\ UNCHANGED meterVars
     \/ /\ collectors # {} /\ stage' = "serving"
        /\ callbacks' = callbacks \cup {Up} /\ handles' = handles \cup {Up}
        /\ UNCHANGED stuck
     \/ /\ collectors # {} /\ stage' = "failed"
        /\ UNCHANGED meterVars
  /\ UNCHANGED <<flagVars, groupVars, pending>>

-----------------------------------------------------------------------------
(* Close.                                                                  *)

\* Unregister of a handle, which may fail; without a handle nothing happens.
Unregister(c) ==
  \/ /\ callbacks' = callbacks \ ({c} \cap handles)
     /\ UNCHANGED <<handles, stuck>>
  \/ /\ c \in handles /\ stuck' = stuck \cup {c}
     /\ UNCHANGED <<callbacks, handles>>

\* Seeded fault: Close has nothing to do when there is no up callback.
CloseUpRequired ==
  /\ stage \in {"group", "serving", "failed"}
  /\ IF Up \in handles THEN stage' = "closing" /\ pending' = collectors
                       ELSE stage' = "closed" /\ UNCHANGED pending
  /\ Unregister(Up)
  /\ UNCHANGED <<flagVars, groupVars>>

\* ovs.collector.up goes first.
CloseUp ==
  /\ stage \in {"group", "serving", "failed"} /\ stage' = "closing"
  /\ Unregister(Up)
  /\ pending' = collectors
  /\ UNCHANGED <<flagVars, groupVars>>

\* An error is kept and the loop goes on.
CloseCollector(c) ==
  /\ stage = "closing" /\ c \in pending
  /\ pending' = pending \ {c}
  /\ Unregister(c)
  /\ UNCHANGED <<stage, flagVars, groupVars>>

CloseReturns ==
  /\ stage = "closing" /\ pending = {} /\ stage' = "closed"
  /\ UNCHANGED <<flagVars, groupVars, pending, meterVars>>

Next ==
  \/ Parse \/ DisableDefaultCollectors
  \/ \E f \in SUBSET Collectors : NewGroup(f)
  \/ RegisterAll \/ RegisterUp \/ CloseUp \/ CloseReturns
  \/ \E c \in Collectors : Register(c) \/ RegisterFails(c) \/ CloseCollector(c)

Spec == Init /\ [][Next]_vars

-----------------------------------------------------------------------------
(* Properties.                                                             *)

Stages == {"init", "parsed", "none", "group", "registering", "serving", "failed",
           "closing", "closed"}

\* Every variable stays in its type; a callback always has a handle that Close
\* can take it out by (collector.go:88-101).
TypeOK ==
  /\ stage \in Stages /\ given \in [Collectors -> Settings]
  /\ enabled \subseteq Collectors /\ forced \subseteq Collectors
  /\ optIn \in BOOLEAN
  /\ filters \subseteq Collectors /\ collectors \subseteq Collectors
  /\ pending \subseteq collectors
  /\ callbacks \subseteq handles /\ handles \subseteq collectors \cup {Up}
  /\ stuck \subseteq handles

Asked(c) == given[c] = "on" \/ (given[c] = "unset" /\ c \in DefaultOn /\ ~optIn)

\* The group holds what the operator asked for, within the filters: explicit
\* flags win over the defaults in both directions, also after
\* DisableDefaultCollectors (collector.go:104-107, 145-155, 182-184).
GroupIsWhatWasAsked ==
  stage \notin {"init", "parsed", "none"} =>
    collectors = {c \in Collectors : Asked(c) /\ (filters # {} => c \in filters)}

\* Whenever a reader runs the callback of ovs.collector.up, every collector it
\* speaks for is registered too: it is the last to come and the first to go,
\* at each moment of RegisterAll and Close (collector.go:225-247, 264-273).
UpSpeaksForRegistered ==
  Up \in callbacks \ stuck => collectors # {} /\ collectors \subseteq callbacks

\* Close leaves no callback behind but those whose Unregister failed, also when
\* RegisterAll had failed half way or was never called, and although one
\* failure comes before others (collector.go:93-101, 262-275).
CloseLeavesNothing ==
  stage = "closed" => callbacks \subseteq stuck
=============================================================================
