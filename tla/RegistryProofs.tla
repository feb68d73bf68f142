--------------------------- MODULE RegistryProofs ---------------------------
(***************************************************************************)
(* Theorems about Registry for any set of collectors, any command line and *)
(* any failures.  The invariant to maintain, IndInv, says for each stage   *)
(* what the meter holds.                                                   *)
(***************************************************************************)
EXTENDS Registry, TLAPS

\* The flags as Parse and DisableDefaultCollectors leave them.
FlagInv ==
  /\ stage = "init" => enabled = DefaultOn /\ forced = {} /\ optIn = FALSE
  /\ stage = "parsed" =>
       /\ enabled = {c \in Collectors : Asked(c)}
       /\ forced = {c \in Collectors : given[c] # "unset"}

\* What the meter holds at each stage.
MeterInv ==
  /\ stage \in {"init", "parsed", "none", "group"} =>
       pending = {} /\ callbacks = {} /\ handles = {} /\ stuck = {}
  /\ stage = "registering" =>
       /\ stuck = {} /\ callbacks = collectors \ pending
       /\ handles = callbacks
  /\ stage = "serving" =>
       /\ stuck = {} /\ handles = callbacks
       /\ collectors \subseteq callbacks
       /\ Up \in callbacks => collectors # {}
  /\ stage = "failed" => stuck = {} /\ Up \notin handles
  /\ stage = "closing" => callbacks \ stuck \subseteq pending
  /\ stage = "closed" => callbacks \subseteq stuck

IndInv == TypeOK /\ FlagInv /\ MeterInv /\ GroupIsWhatWasAsked
-----------------------------------------------------------------------------
\* Before the first scrape.
LEMMA InitInv == Init => IndInv
BY CollectorsAssumption
   DEF Init, IndInv, TypeOK, FlagInv, MeterInv, GroupIsWhatWasAsked, Stages,
       Settings

\* The flags: the group is not there yet, and the meter is empty.
LEMMA FlagSteps ==
  ASSUME IndInv, Parse \/ DisableDefaultCollectors
  PROVE  IndInv'
<1> USE CollectorsAssumption DEF IndInv
<1>1. CASE Parse
  <2>1. enabled' = {c \in Collectors : Asked(c)'}
    BY <1>1 DEF Parse, TypeOK, FlagInv, Asked, Settings
  <2>2. TypeOK'
    BY <1>1 DEF Parse, TypeOK, groupVars, meterVars, Stages
  <2>3. FlagInv' /\ MeterInv' /\ GroupIsWhatWasAsked'
    BY <1>1, <2>1 DEF Parse, FlagInv, MeterInv, GroupIsWhatWasAsked, groupVars,
                      meterVars
  <2> QED
    BY <2>2, <2>3
<1>2. CASE DisableDefaultCollectors
  <2>1. enabled' = {c \in Collectors : Asked(c)'}
    BY <1>2 DEF DisableDefaultCollectors, TypeOK, FlagInv, Asked, Settings
  <2>2. TypeOK'
    BY <1>2 DEF DisableDefaultCollectors, TypeOK, groupVars, meterVars
  <2>3. FlagInv' /\ MeterInv' /\ GroupIsWhatWasAsked'
    BY <1>2, <2>1 DEF DisableDefaultCollectors, FlagInv, MeterInv,
                      GroupIsWhatWasAsked, groupVars, meterVars
  <2> QED
    BY <2>2, <2>3
<1> QED
  BY <1>1, <1>2

\* NewGroup takes the enabled collectors, or what the filters leave of them.
LEMMA NewGroupStep ==
  ASSUME IndInv, NEW f \in SUBSET Collectors, NewGroup(f)
  PROVE  IndInv'
<1> USE DEF IndInv, NewGroup, flagVars, meterVars
<1>1. TypeOK'
  BY DEF TypeOK, MeterInv, Stages
<1>2. FlagInv' /\ MeterInv'
  BY DEF FlagInv, MeterInv
<1>3. GroupIsWhatWasAsked'
  <2>1. enabled = {c \in Collectors : Asked(c)'}
    BY DEF FlagInv, Asked
  <2>2. CASE stage' = "group"
    <3>1. CASE f = {}
      BY <2>1, <2>2, <3>1 DEF GroupIsWhatWasAsked
    <3>2. CASE f # {}
      BY <2>1, <2>2, <3>2 DEF GroupIsWhatWasAsked
    <3> QED
      BY <3>1, <3>2
  <2> QED
    BY <2>2 DEF GroupIsWhatWasAsked
<1> QED
  BY <1>1, <1>2, <1>3

\* From here on the flags and the group stay as they are.
LEMMA GroupKept ==
  ASSUME IndInv, UNCHANGED <<flagVars, groupVars>>,
         stage \notin {"init", "parsed", "none"}, stage' \notin {"init", "parsed", "none"}
  PROVE  FlagInv' /\ GroupIsWhatWasAsked'
BY DEF IndInv, FlagInv, GroupIsWhatWasAsked, Asked, flagVars, groupVars

\* RegisterAll: a callback for each collector reached, or the end at an error.
LEMMA RegisterSteps ==
  ASSUME IndInv,
         \/ RegisterAll \/ RegisterUp
         \/ \E c \in Collectors : Register(c) \/ RegisterFails(c)
  PROVE  IndInv'
<1> USE UpAssumption DEF IndInv
<1>0. /\ UNCHANGED <<flagVars, groupVars>>
      /\ stage \in {"group", "registering"}
      /\ stage' \in {"registering", "serving", "failed"}
  BY DEF RegisterAll, RegisterUp, Register, RegisterFails
<1>1. FlagInv' /\ GroupIsWhatWasAsked'
  BY <1>0, GroupKept
<1>2. CASE RegisterAll
  BY <1>1, <1>2 DEF RegisterAll, TypeOK, MeterInv, Stages, flagVars, groupVars,
                    meterVars
<1>3. CASE RegisterUp
  BY <1>1, <1>3 DEF RegisterUp, TypeOK, MeterInv, Stages, flagVars, groupVars,
                    meterVars
<1>4. ASSUME NEW c \in Collectors, Register(c)
      PROVE  IndInv'
  BY <1>1, <1>4 DEF Register, TypeOK, MeterInv, Stages, flagVars, groupVars
<1>5. ASSUME NEW c \in Collectors, RegisterFails(c)
      PROVE  IndInv'
  BY <1>1, <1>5 DEF RegisterFails, TypeOK, MeterInv, Stages, flagVars,
                    groupVars, meterVars
<1> QED
  BY <1>2, <1>3, <1>4, <1>5

\* Close: each step takes one callback out or leaves it stuck.
LEMMA CloseSteps ==
  ASSUME IndInv,
         CloseUp \/ CloseReturns \/ \E c \in Collectors : CloseCollector(c)
  PROVE  IndInv'
<1> USE UpAssumption DEF IndInv
<1>0. /\ UNCHANGED <<flagVars, groupVars>>
      /\ stage \notin {"init", "parsed", "none"}
      /\ stage' \in {"closing", "closed"}
  BY DEF CloseUp, CloseReturns, CloseCollector
<1>1. FlagInv' /\ GroupIsWhatWasAsked'
  BY <1>0, GroupKept
<1>2. CASE CloseUp
  <2>1. TypeOK'
    BY <1>2 DEF CloseUp, Unregister, TypeOK, Stages, flagVars, groupVars
  <2>2. callbacks' \ stuck' \subseteq collectors
    BY <1>2 DEF CloseUp, Unregister, TypeOK
  <2> QED
    BY <1>1, <1>2, <2>1, <2>2 DEF CloseUp, MeterInv
<1>3. CASE CloseReturns
  BY <1>1, <1>3 DEF CloseReturns, TypeOK, MeterInv, Stages, flagVars,
                    groupVars, meterVars
<1>4. ASSUME NEW c \in Collectors, CloseCollector(c)
      PROVE  IndInv'
  <2>1. TypeOK'
    BY <1>4 DEF CloseCollector, Unregister, TypeOK, flagVars, groupVars
  <2>2. callbacks' \ stuck' \subseteq pending'
    BY <1>4 DEF CloseCollector, Unregister, TypeOK, MeterInv
  <2> QED
    BY <1>1, <1>4, <2>1, <2>2 DEF CloseCollector, MeterInv
<1> QED
  BY <1>2, <1>3, <1>4

\* Every step of the registry keeps the invariant.
LEMMA NextInv == IndInv /\ [Next]_vars => IndInv'
<1> SUFFICES ASSUME IndInv, [Next]_vars
             PROVE  IndInv'
  OBVIOUS
<1>1. CASE UNCHANGED vars
  BY <1>1 DEF vars, IndInv, TypeOK, FlagInv, MeterInv, GroupIsWhatWasAsked,
              Asked
<1>2. CASE Next
  BY <1>2, FlagSteps, NewGroupStep, RegisterSteps, CloseSteps DEF Next
<1> QED
  BY <1>1, <1>2

\* What the meter holds at each stage of main, whatever fails on the way.
THEOREM InductiveInvariant == Spec => []IndInv
BY InitInv, NextInv, PTL DEF Spec

\* Every variable stays in its type, and no callback is without a handle.
THEOREM TypeCorrect == Spec => []TypeOK
<1>1. IndInv => TypeOK
  BY DEF IndInv
<1> QED
  BY <1>1, InductiveInvariant, PTL

\* The group is what the operator asked for, for every command line and filter
\* (collector.go:145-155, 185-218).
THEOREM GroupAsAsked == Spec => []GroupIsWhatWasAsked
<1>1. IndInv => GroupIsWhatWasAsked
  BY DEF IndInv
<1> QED
  BY <1>1, InductiveInvariant, PTL

\* ovs.collector.up never speaks for a collector that is not registered
\* (collector.go:225-247, 264-273).
THEOREM UpSpeaks == Spec => []UpSpeaksForRegistered
<1>1. IndInv => UpSpeaksForRegistered
  BY UpAssumption DEF IndInv, TypeOK, MeterInv, UpSpeaksForRegistered, Stages
<1> QED
  BY <1>1, InductiveInvariant, PTL

\* Close takes out everything it can, after any failure (collector.go:262-275).
THEOREM NothingLeft == Spec => []CloseLeavesNothing
<1>1. IndInv => CloseLeavesNothing
  BY DEF IndInv, MeterInv, CloseLeavesNothing
<1> QED
  BY <1>1, InductiveInvariant, PTL
=============================================================================
