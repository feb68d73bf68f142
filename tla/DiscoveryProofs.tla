-------------------------- MODULE DiscoveryProofs --------------------------
(***************************************************************************)
(* For every number of pids, every run directory the client may start      *)
(* with, and every order in which daemons come and go: nothing is dialled  *)
(* without a pid found for it, and the sockets that earlier daemons have   *)
(* left behind never mislead a discovery for which the pid file is right.  *)
(***************************************************************************)
EXTENDS Discovery, WellFoundedInduction, TLAPS

\* A set of naturals with something in it has a least element, which is the one
\* Min chooses: the first match of a sorted glob (discover.go:32-39).
LEMMA MinOfNats ==
  ASSUME NEW S \in SUBSET Nat, S # {}
  PROVE  Min(S) \in S /\ \A y \in S : Min(S) <= y
<1> DEFINE LT == {ss \in Nat \X Nat : ss[1] < ss[2]}
<1>1. IsWellFoundedOn(LT, Nat)
  BY NatLessThanWellFounded DEF OpToRel
<1>2. PICK x \in S : \A y \in S : <<y, x>> \notin LT
  BY <1>1, WFMin
<1>3. \A y \in S : x <= y
  <2> TAKE y \in S
  <2>1. <<y, x>> \in Nat \X Nat /\ <<y, x>>[1] = y /\ <<y, x>>[2] = x
    OBVIOUS
  <2>2. ~(y < x)
    BY <1>2, <2>1
  <2> QED  BY <2>2
<1> QED
  BY <1>3 DEF Min

-----------------------------------------------------------------------------
(* The inductive invariant.                                                *)

\* A daemon that listens is alive and has a socket file: Bind has made it, and
\* only its exit takes it away.
BoundInv == bound => alive # NoPid /\ alive \in sockets

\* What makes a discovery that began in a right directory find the daemon: the
\* directory still is right, so the path read from the pid file is the daemon's
\* and its socket is there.
SteadyInv ==
  steady => /\ Right
            /\ pc \in {"stat", "dial", "up"}
            /\ path = alive
            /\ pc = "up" => peer

DiscoveryInv == TypeOK /\ BoundInv /\ SteadyInv

\* Before the directory is read.
LEMMA InitInv == Init => DiscoveryInv
BY DEF Init, DiscoveryInv, TypeOK, BoundInv, SteadyInv, Pids, NoPid

\* Whatever changes the directory ends steady, so SteadyInv only has to survive
\* the steps of the client, and those of a discovery that found Right.
LEMMA StepInv == DiscoveryInv /\ [Next]_vars => DiscoveryInv'
<1> SUFFICES ASSUME DiscoveryInv, [Next]_vars
             PROVE  DiscoveryInv'
  OBVIOUS
<1> USE MaxPidAssumption DEF DiscoveryInv, Pids, NoPid
<1>1. CASE ReadPidFile
  BY <1>1 DEF ReadPidFile, TypeOK, BoundInv, SteadyInv, Right, dirVars
<1>2. CASE Stat
  BY <1>2 DEF Stat, TypeOK, BoundInv, SteadyInv, Right, dirVars
<1>3. CASE Glob
  <2>1. path' \in Pids \cup {NoPid} /\ (pc' = "dial" => path' \in Pids)
    <3>1. sockets \in SUBSET Nat
      BY DEF TypeOK
    <3>2. CASE sockets = {}
      BY <1>3, <3>2 DEF Glob, TypeOK
    <3>3. CASE sockets # {}
      BY <1>3, <3>1, <3>3, MinOfNats DEF Glob, TypeOK
    <3> QED  BY <3>2, <3>3
  <2>2. TypeOK'
    BY <1>3, <2>1 DEF Glob, TypeOK, dirVars
  <2>3. BoundInv' /\ SteadyInv'
    BY <1>3 DEF Glob, BoundInv, SteadyInv, Right, dirVars
  <2> QED  BY <2>2, <2>3
<1>4. CASE Dial
  BY <1>4 DEF Dial, TypeOK, BoundInv, SteadyInv, Right, dirVars
<1>5. CASE CallFails
  BY <1>5 DEF CallFails, TypeOK, BoundInv, SteadyInv, Right, dirVars
<1>6. CASE Start
  BY <1>6 DEF Start, TypeOK, BoundInv, SteadyInv, callVars
<1>7. CASE Bind
  BY <1>7 DEF Bind, TypeOK, BoundInv, SteadyInv, callVars
<1>8. CASE Crash
  BY <1>8 DEF Crash, Dies, TypeOK, BoundInv, SteadyInv, callVars
<1>9. CASE Exit
  BY <1>9 DEF Exit, Dies, TypeOK, BoundInv, SteadyInv, callVars
<1>10. CASE UNCHANGED vars
  BY <1>10 DEF vars, TypeOK, BoundInv, SteadyInv, Right
<1> QED
  BY <1>1, <1>2, <1>3, <1>4, <1>5, <1>6, <1>7, <1>8, <1>9, <1>10
     DEF Next, Discover

-----------------------------------------------------------------------------
(* Theorems.                                                               *)

\* The invariant holds however the daemon and the client are interleaved.
THEOREM InductiveInvariant == Spec => []DiscoveryInv
BY InitInv, StepInv, PTL DEF Spec

\* Every variable keeps its type; a path that is looked at or dialled is a
\* daemon's, also when it comes from the glob (discover.go:23-39).
THEOREM TypeCorrect == Spec => []TypeOK
<1>1. DiscoveryInv => TypeOK
  BY DEF DiscoveryInv
<1> QED
  BY <1>1, InductiveInvariant, PTL

\* With a pid file that names the listening daemon the first attempt connects,
\* whatever sockets are left behind and however many daemons there have been
\* (discover.go:23-27).
THEOREM LeftoversHarmless == Spec => []LeftoversDoNoHarm
<1>1. DiscoveryInv => LeftoversDoNoHarm
  BY DEF DiscoveryInv, SteadyInv, LeftoversDoNoHarm
<1> QED
  BY <1>1, InductiveInvariant, PTL
=============================================================================
