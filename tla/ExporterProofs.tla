--------------------------- MODULE ExporterProofs ---------------------------
(***************************************************************************)
(* Theorems about the unixctl client and about the exporter that uses it.  *)
(*                                                                         *)
(* First the client, for any set of goroutines, any number of calls and    *)
(* any behaviour of the daemon; of Exporter nothing is used.  The          *)
(* invariant to maintain is IndInv: who holds the mutex, what can be on    *)
(* the wire in each place of Call, and which ids the daemon can still meet.*)
(*                                                                         *)
(* Then the exporter, for any readers, any number of calls and any         *)
(* timeouts.  Whatever main and the scraper do with the client they share  *)
(* is a step of UnixctlClient, so what is proved of the client holds in    *)
(* the exporter; ExporterInv adds what main, the scraper and the readers   *)
(* have done at each stage.                                                *)
(***************************************************************************)
EXTENDS Exporter, TLAPS

-----------------------------------------------------------------------------
(* The client: its invariant.                                              *)

\* The mutex is held by the goroutine that is past Lock, and by no other.
LockInv == \A g \in Callers : pc[g] \in Critical <=> mu = g

\* The wire exists with the connection, and past ensureConnectedLocked there
\* is one.
ConnInv ==
  /\ conn = "nil" => ~peerOpen
  /\ \A g \in Callers : pc[g] \in {"send", "recv"} => conn = "open"

\* What the wire may hold while g waits for the reply to request id.
Lost(id) == toServer = <<>> /\ toClient = <<>>
Sent(id) == toServer = <<id>> /\ toClient = <<>> /\ id \notin executed
Answered(id) == /\ toServer = <<>> /\ id \in executed
                /\ \E k \in ReplyKinds :
                     toClient = <<[kind |-> k, answers |-> id]>>

WireInv ==
  /\ \A g \in Callers : pc[g] = "recv" =>
       \/ Lost(req[g]) \/ Sent(req[g]) \/ Answered(req[g])
  /\ (\A g \in Callers : pc[g] # "recv") => toServer = <<>> /\ toClient = <<>>

\* Ids are handed out in order; the daemon can meet none twice.
IdInv ==
  /\ executed \cup orphans \subseteq 1 .. nextID
  /\ executed \cap orphans = {}
  /\ \A g \in Callers : pc[g] = "recv" =>
       req[g] \in (1 .. nextID) \ orphans

\* What Call has recorded about its own request.
CallInv ==
  /\ \A g \in Callers : pc[g] \in {"lock", "ensure", "send"} => req[g] = 0
  /\ ReplyAnswersItsRequest

IndInv == TypeOK /\ LockInv /\ ConnInv /\ WireInv /\ IdInv /\ CallInv
-----------------------------------------------------------------------------
(* Sequences of at most one element are all the wire ever holds.           *)

\* Adding to an empty direction, and taking the only element of one.
LEMMA Singletons ==
  ASSUME NEW x
  PROVE  /\ Append(<<>>, x) = <<x>>
         /\ Head(<<x>>) = x /\ Tail(<<x>>) = <<>> /\ <<x>> # <<>>
         /\ ToSet(<<x>>) = {x}
BY DEF ToSet

\* An empty direction leaves nothing behind.
LEMMA EmptyToSet == ToSet(<<>>) = {}
BY DEF ToSet

\* An empty direction is a sequence of anything.
LEMMA EmptyIsSeq ==
  ASSUME NEW S
  PROVE  <<>> \in Seq(S)
BY Z3

\* The requests in a direction are ids.
LEMMA ToSetOfIds ==
  ASSUME NEW s \in Seq(Ids)
  PROVE  ToSet(s) \subseteq Ids
BY DEF ToSet

-----------------------------------------------------------------------------
(* Types.                                                                  *)

LEMMA InitType == Init => TypeOK
<1>1. NoReturn \in Returns
  BY DEF Returns
<1>2. toServer = <<>> /\ toClient = <<>> /\ executed = {} /\ orphans = {} =>
        /\ toServer \in Seq(Ids) /\ toClient \in Seq(Replies)
        /\ orphans \in SUBSET Ids /\ executed \in SUBSET Ids
  BY EmptyIsSeq
<1>3. ASSUME Init PROVE ret \in [Callers -> Returns]
  BY <1>1, <1>3 DEF Init
<1>4. ASSUME Init
      PROVE  /\ mu \in Callers \cup {Free} /\ pc \in [Callers -> Places]
             /\ ctx \in [Callers -> Contexts] /\ req \in [Callers -> Nat]
             /\ conn \in {"nil", "open"} /\ nextID \in Nat
             /\ peerOpen \in BOOLEAN /\ daemon \in {"up", "down"}
  BY <1>4 DEF Init, Places, Contexts
<1> QED
  BY <1>2, <1>3, <1>4 DEF Init, TypeOK

\* A step of a goroutine keeps every variable in its type.
LEMMA ClientType ==
  ASSUME TypeOK, NEW g \in Callers, Client(g)
  PROVE  TypeOK'
<1> USE DEF TypeOK, Places
<1>a. NoReturn \in Returns /\ Failure \in Returns
  BY DEF Returns
<1>b. nextID + 1 \in Ids
  BY DEF Ids
<1>c. ToSet(toServer) \subseteq Ids
  BY ToSetOfIds
<1>1. CASE CallBegins(g)
  BY <1>1, <1>a DEF CallBegins, socketVars, daemonVars
<1>2. CASE Lock(g)
  BY <1>2 DEF Lock, socketVars, daemonVars
<1>3. CASE Reuse(g)
  BY <1>3 DEF Reuse, socketVars, daemonVars
<1>4. CASE DialSucceeds(g)
  BY <1>4 DEF DialSucceeds, daemonVars
<1>5. CASE DialFails(g)
  BY <1>5, <1>a DEF DialFails, Return, socketVars, daemonVars
<1>6. CASE Encode(g)
  <2>1. nextID' = nextID + 1 /\ toServer' = Append(toServer, nextID + 1)
    BY <1>6 DEF Encode, TakeID
  <2>2. toServer' \in Seq(Ids)
    BY <2>1, <1>b
  <2> QED
    BY <1>6, <2>1, <2>2 DEF Encode, TakeID, daemonVars
<1>7. CASE EncodeFails(g)
  <2>1. nextID' \in Ids /\ req' \in [Callers -> Nat]
    BY <1>7, <1>b DEF EncodeFails, TakeID, Ids
  <2>2. /\ toServer' \in Seq(Ids) /\ toClient' \in Seq(Replies)
        /\ peerOpen' \in BOOLEAN /\ conn' \in {"nil", "open"}
        /\ orphans' \in SUBSET Ids
    BY <1>7, <1>c, EmptyIsSeq DEF EncodeFails, DisconnectLocked
  <2> QED
    BY <1>7, <1>a, <2>1, <2>2 DEF EncodeFails, Return, Ids
<1>8. CASE Decode(g)
  <2>1. Head(toClient) \in Replies /\ Tail(toClient) \in Seq(Replies)
    BY <1>8 DEF Decode
  <2>2. Head(toClient) \in Returns
    BY <1>8, <2>1 DEF Decode, Replies, ReplyKinds, Returns
  <2> QED
    BY <1>8, <2>1, <2>2 DEF Decode, Return, daemonVars
<1>9. CASE DecodeFails(g)
  BY <1>9, <1>a, <1>c, EmptyIsSeq DEF DecodeFails, DisconnectLocked, Return
<1>10. CASE CloseBegins(g)
  BY <1>10 DEF CloseBegins, socketVars, daemonVars
<1>11. CASE Close(g)
  BY <1>11, <1>c, EmptyIsSeq DEF Close, DisconnectLocked
<1>12. CASE ContextEnds(g)
  BY <1>12 DEF ContextEnds, socketVars, daemonVars, Contexts
<1> QED
  BY <1>1, <1>2, <1>3, <1>4, <1>5, <1>6, <1>7, <1>8, <1>9, <1>10, <1>11,
     <1>12 DEF Client, CallStep

\* So does a step of the daemon.
LEMMA DaemonType ==
  ASSUME TypeOK, Daemon
  PROVE  TypeOK'
<1> USE DEF TypeOK
<1>1. CASE Answer
  <2>1. Head(toServer) \in Ids /\ Tail(toServer) \in Seq(Ids)
    BY <1>1 DEF Answer
  <2>2. PICK k \in ReplyKinds :
          toClient' = Append(toClient, [kind |-> k, answers |-> Head(toServer)])
    BY <1>1 DEF Answer
  <2>3. [kind |-> k, answers |-> Head(toServer)] \in Replies
    BY <2>1 DEF Replies
  <2>4. toClient' \in Seq(Replies)
    BY <2>2, <2>3
  <2> QED
    BY <1>1, <2>1, <2>4 DEF Answer, clientVars
<1>2. CASE AnswerOrphan
  BY <1>2 DEF AnswerOrphan, clientVars, socketVars
<1>3. CASE Crash
  BY <1>3, EmptyIsSeq DEF Crash, clientVars
<1>4. CASE Restart
  BY <1>4 DEF Restart, clientVars, socketVars
<1> QED
  BY <1>1, <1>2, <1>3, <1>4 DEF Daemon

\* Doing nothing does nothing.
LEMMA StutterType == TypeOK /\ UNCHANGED vars => TypeOK'
BY DEF TypeOK, vars

\* Every variable of the client, the socket and the daemon stays in its type,
\* for any set of goroutines and any number of calls.
THEOREM TypeCorrect == Spec => []TypeOK
<1>1. TypeOK /\ [Next]_vars => TypeOK'
  BY ClientType, DaemonType, StutterType DEF Next
<1> QED
  BY InitType, <1>1, PTL DEF Spec
-----------------------------------------------------------------------------
(* The inductive invariant.                                                *)

LEMMA InitInd == Init => IndInv
<1> SUFFICES ASSUME Init PROVE IndInv
  OBVIOUS
<1>1. TypeOK
  BY InitType
<1>2. LockInv /\ ConnInv /\ WireInv
  BY CallersAssumption DEF Init, LockInv, ConnInv, WireInv, Critical
<1>3. IdInv /\ CallInv
  BY DEF Init, IdInv, CallInv, ReplyAnswersItsRequest, NoReturn
<1> QED
  BY <1>1, <1>2, <1>3 DEF IndInv

\* A goroutine that returns from Call releases the mutex, and only it waits.
LEMMA ReturnLock ==
  ASSUME TypeOK, LockInv, NEW g \in Callers, pc[g] \in Critical,
         pc' = [pc EXCEPT ![g] = "idle"], mu' = Free
  PROVE  LockInv' /\ \A h \in Callers : pc'[h] \notin Critical
BY CallersAssumption DEF TypeOK, LockInv, Critical

\* A step inside Call that keeps the mutex.
LEMMA CriticalStep ==
  ASSUME TypeOK, LockInv, NEW g \in Callers, pc[g] \in Critical,
         NEW p \in Critical, pc' = [pc EXCEPT ![g] = p], mu' = mu
  PROVE  /\ LockInv'
         /\ \A h \in Callers \ {g} : pc[h] \notin Critical /\ pc'[h] = pc[h]
         /\ pc'[g] = p
BY DEF TypeOK, LockInv, Critical

\* Steps of one goroutine outside Call's critical section.
LEMMA OutsideStep ==
  ASSUME IndInv, NEW g \in Callers,
         CallBegins(g) \/ CloseBegins(g) \/ ContextEnds(g) \/ Lock(g)
  PROVE  IndInv'
<1> USE DEF IndInv
<1>1. TypeOK'
  BY ClientType DEF Client
<1>2. LockInv'
  <2>1. CASE CallBegins(g) \/ CloseBegins(g) \/ ContextEnds(g)
    BY <2>1, CallersAssumption
    DEF CallBegins, CloseBegins, ContextEnds, TypeOK, LockInv, Critical
  <2>2. CASE Lock(g)
    BY <2>2, CallersAssumption DEF Lock, TypeOK, LockInv, Critical
  <2> QED
    BY <2>1, <2>2
<1>3. /\ \A h \in Callers : pc'[h] \in {"recv", "send"} <=> pc[h] \in {"recv", "send"}
      /\ \A h \in Callers : pc'[h] = "recv" <=> pc[h] = "recv"
      /\ \A h \in Callers : pc[h] = "recv" => req'[h] = req[h]
      /\ UNCHANGED <<conn, nextID, toServer, toClient, peerOpen, executed, orphans>>
  BY DEF CallBegins, CloseBegins, ContextEnds, Lock, socketVars, daemonVars, TypeOK
<1>4. ConnInv'
  BY <1>3 DEF ConnInv
<1>5. WireInv'
  BY <1>3 DEF WireInv, Lost, Sent, Answered
<1>6. IdInv'
  BY <1>3 DEF IdInv
<1>7. CallInv'
  <2>1. CASE CallBegins(g)
    BY <2>1 DEF CallInv, ReplyAnswersItsRequest, CallBegins, TypeOK, NoReturn
  <2>2. CASE CloseBegins(g) \/ ContextEnds(g) \/ Lock(g)
    <3>1. UNCHANGED <<req, ret>>
      BY <2>2 DEF CloseBegins, ContextEnds, Lock
    <3>2. \A h \in Callers : pc'[h] \in {"lock", "ensure", "send"}
            => pc[h] \in {"lock", "ensure", "send"}
      BY <2>2 DEF CloseBegins, ContextEnds, Lock, TypeOK
    <3> QED
      BY <3>1, <3>2 DEF CallInv, ReplyAnswersItsRequest
  <2> QED
    BY <2>1, <2>2
<1> QED
  BY <1>1, <1>2, <1>4, <1>5, <1>6, <1>7

\* Steps of Call up to the write.
LEMMA ConnectStep ==
  ASSUME IndInv, NEW g \in Callers, Reuse(g) \/ DialSucceeds(g) \/ DialFails(g)
  PROVE  IndInv'
<1> USE DEF IndInv
<1>1. TypeOK'
  BY ClientType DEF Client, CallStep
<1>2. pc[g] = "ensure" /\ mu = g /\ \A h \in Callers \ {g} : pc[h] \notin Critical
  BY DEF Reuse, DialSucceeds, DialFails, LockInv, Critical
<1>3. LockInv'
  <2>1. CASE Reuse(g) \/ DialSucceeds(g)
    BY <2>1, <1>2, CriticalStep, "send" \in Critical, "ensure" \in Critical
    DEF Reuse, DialSucceeds, Critical
  <2>2. CASE DialFails(g)
    BY <2>2, <1>2, ReturnLock DEF DialFails, Return, Critical
  <2> QED
    BY <2>1, <2>2
<1>4. \A h \in Callers : pc[h] # "recv" /\ pc'[h] # "recv"
  BY <1>2 DEF Reuse, DialSucceeds, DialFails, Return, TypeOK, Critical
<1>5. UNCHANGED <<nextID, toServer, toClient, executed, orphans, req>>
  BY DEF Reuse, DialSucceeds, DialFails, socketVars, daemonVars
<1>6. ConnInv'
  BY <1>2, CallersAssumption
  DEF Reuse, DialSucceeds, DialFails, Return, ConnInv, TypeOK, Critical, socketVars
<1>7. WireInv' /\ IdInv'
  BY <1>4, <1>5 DEF WireInv, IdInv
<1>8. CallInv'
  BY <1>2, <1>5
  DEF Reuse, DialSucceeds, DialFails, Return, CallInv, ReplyAnswersItsRequest,
      TypeOK, Failure, Critical
<1> QED
  BY <1>1, <1>3, <1>6, <1>7, <1>8
\* The write and the read of Call.
LEMMA ExchangeStep ==
  ASSUME IndInv, NEW g \in Callers,
         Encode(g) \/ EncodeFails(g) \/ Decode(g) \/ DecodeFails(g)
  PROVE  IndInv'
<1> USE DEF IndInv
<1>1. TypeOK'
  BY ClientType DEF Client, CallStep
<1>2. /\ pc[g] \in {"send", "recv"} /\ mu = g /\ conn = "open"
      /\ \A h \in Callers \ {g} : pc[h] \notin Critical
  BY DEF Encode, EncodeFails, Decode, DecodeFails, LockInv, ConnInv, Critical
<1>3. \A h \in Callers \ {g} : pc[h] # "recv" /\ pc'[h] = pc[h] /\ req'[h] = req[h]
  BY <1>2 DEF Encode, EncodeFails, Decode, DecodeFails, TakeID, Return, TypeOK, Critical
<1>4. pc[g] = "send" => toServer = <<>> /\ toClient = <<>>
  BY <1>3 DEF WireInv
<1>5. LockInv'
  <2>1. CASE Encode(g)
    BY <2>1, <1>2, CriticalStep DEF Encode, Critical
  <2>2. CASE EncodeFails(g) \/ Decode(g) \/ DecodeFails(g)
    BY <2>2, <1>2, ReturnLock DEF EncodeFails, Decode, DecodeFails, Return, Critical
  <2> QED
    BY <2>1, <2>2
<1>6. CASE Encode(g)
  <2>1. /\ pc' = [pc EXCEPT ![g] = "recv"] /\ nextID' = nextID + 1
        /\ req'[g] = nextID + 1 /\ toServer' = <<nextID + 1>> /\ toClient' = <<>>
        /\ UNCHANGED <<conn, peerOpen, executed, orphans, ret>>
    BY <1>6, <1>4, Singletons DEF Encode, TakeID, TypeOK, daemonVars
  <2>2. pc'[g] = "recv"
    BY <2>1 DEF TypeOK
  <2>3. nextID + 1 \notin executed \cup orphans
    BY DEF IdInv, TypeOK
  <2>4. ConnInv'
    BY <2>1, <1>2, <1>3 DEF ConnInv
  <2>5. WireInv'
    BY <2>1, <2>2, <2>3, <1>3 DEF WireInv, Sent
  <2>6. IdInv'
    BY <2>1, <2>2, <2>3, <1>3 DEF IdInv, TypeOK
  <2>7. CallInv'
    BY <2>1, <2>2, <1>3, <1>6 DEF CallInv, ReplyAnswersItsRequest, Encode, TypeOK, Ids
  <2> QED
    BY <1>1, <1>5, <2>4, <2>5, <2>6, <2>7
<1>7. CASE EncodeFails(g)
  <2>1. /\ pc' = [pc EXCEPT ![g] = "idle"] /\ nextID' = nextID + 1
        /\ ret' = [ret EXCEPT ![g] = Failure]
        /\ toServer' = <<>> /\ toClient' = <<>> /\ peerOpen' = FALSE
        /\ orphans' = orphans /\ executed' = executed
    BY <1>7, <1>4, EmptyToSet DEF EncodeFails, TakeID, DisconnectLocked, Return
  <2>2. \A h \in Callers : pc'[h] \notin {"send", "recv"}
    BY <2>1, <1>2, <1>3 DEF TypeOK, Critical
  <2>3. ConnInv' /\ WireInv'
    BY <2>1, <2>2 DEF ConnInv, WireInv
  <2>4. IdInv'
    BY <2>1, <2>2 DEF IdInv, TypeOK
  <2>5. CallInv'
    BY <2>1, <2>2, <1>3 DEF CallInv, ReplyAnswersItsRequest, TypeOK, Failure
  <2> QED
    BY <1>1, <1>5, <2>3, <2>4, <2>5
<1>8. CASE Decode(g)
  <2>1. Answered(req[g])
    BY <1>8 DEF Decode, WireInv, Lost, Sent
  <2>2. /\ toServer' = <<>> /\ toClient' = <<>>
        /\ Head(toClient).answers = req[g]
    BY <2>1, <1>8, Singletons DEF Answered, Decode
  <2>3. /\ pc' = [pc EXCEPT ![g] = "idle"]
        /\ ret' = [ret EXCEPT ![g] = Head(toClient)]
        /\ UNCHANGED <<conn, peerOpen, nextID, executed, orphans, req>>
    BY <1>8 DEF Decode, Return, daemonVars
  <2>4. \A h \in Callers : pc'[h] \notin {"send", "recv"}
    BY <2>3, <1>2, <1>3 DEF TypeOK, Critical
  <2>5. ConnInv' /\ WireInv' /\ IdInv'
    BY <2>2, <2>3, <2>4 DEF ConnInv, WireInv, IdInv
  <2>6. CallInv'
    BY <2>2, <2>3, <1>3 DEF CallInv, ReplyAnswersItsRequest, TypeOK
  <2> QED
    BY <1>1, <1>5, <2>5, <2>6
<1>9. CASE DecodeFails(g)
  <2>1. /\ pc' = [pc EXCEPT ![g] = "idle"]
        /\ ret' = [ret EXCEPT ![g] = Failure]
        /\ toServer' = <<>> /\ toClient' = <<>> /\ peerOpen' = FALSE
        /\ UNCHANGED <<nextID, executed, req>>
    BY <1>9 DEF DecodeFails, DisconnectLocked, Return
  <2>2. \A h \in Callers : pc'[h] \notin {"send", "recv"}
    BY <2>1, <1>2, <1>3 DEF TypeOK, Critical
  <2>3. ConnInv' /\ WireInv'
    BY <2>1, <2>2 DEF ConnInv, WireInv
  <2>4. \/ orphans' = orphans
        \/ (orphans' = orphans \cup {req[g]} /\ req[g] \notin executed)
    <3>1. ToSet(toServer) = {} \/ (ToSet(toServer) = {req[g]} /\ req[g] \notin executed)
      <4>1. Lost(req[g]) \/ Sent(req[g]) \/ Answered(req[g])
        BY <1>9 DEF DecodeFails, WireInv
      <4>2. toServer = <<>> \/ (toServer = <<req[g]>> /\ req[g] \notin executed)
        BY <4>1, Zenon DEF Lost, Sent, Answered
      <4>3. ToSet(<<req[g]>>) = {req[g]}
        BY Singletons
      <4>4. CASE toServer = <<>>
        BY <4>4, EmptyToSet, Zenon
      <4>5. CASE toServer = <<req[g]>> /\ req[g] \notin executed
        BY <4>5, <4>3, Zenon
      <4> QED
        BY <4>2, <4>4, <4>5
    <3> QED
      BY <3>1, <1>9 DEF DecodeFails, DisconnectLocked
  <2>5. IdInv'
    <3>1. req[g] \in 1 .. nextID
      BY <1>9 DEF DecodeFails, IdInv
    <3> QED
      BY <3>1, <2>1, <2>2, <2>4 DEF IdInv
  <2>6. CallInv'
    BY <2>1, <2>2, <1>3 DEF CallInv, ReplyAnswersItsRequest, TypeOK, Failure
  <2> QED
    BY <1>1, <1>5, <2>3, <2>5, <2>6
<1> QED
  BY <1>6, <1>7, <1>8, <1>9

\* Close runs while nobody is inside Call, so the wire it drops is empty.
LEMMA CloseStep ==
  ASSUME IndInv, NEW g \in Callers, Close(g)
  PROVE  IndInv'
<1> USE DEF IndInv
<1>1. TypeOK'
  BY ClientType DEF Client
<1>2. \A h \in Callers : pc[h] \notin Critical
  BY CallersAssumption DEF Close, LockInv
<1>3. toServer = <<>> /\ toClient = <<>>
  BY <1>2 DEF WireInv, Critical
<1>4. /\ pc' = [pc EXCEPT ![g] = "idle"]
      /\ toServer' = <<>> /\ toClient' = <<>> /\ peerOpen' = FALSE
      /\ UNCHANGED <<nextID, executed, orphans, req, ret, mu>>
  BY <1>3, EmptyToSet DEF Close, DisconnectLocked
<1>5. \A h \in Callers : pc'[h] \notin Critical
  BY <1>2, <1>4 DEF TypeOK, Critical
<1>6. LockInv'
  BY <1>2, <1>4, <1>5 DEF LockInv
<1>7. ConnInv' /\ WireInv' /\ IdInv'
  BY <1>4, <1>5 DEF ConnInv, WireInv, IdInv, Critical
<1>8. CallInv'
  BY <1>4 DEF CallInv, ReplyAnswersItsRequest, TypeOK
<1> QED
  BY <1>1, <1>6, <1>7, <1>8

\* Steps of the daemon: it answers the one request on the wire, an abandoned
\* one, or dies with whatever it had not read.
LEMMA DaemonStep ==
  ASSUME IndInv, Daemon
  PROVE  IndInv'
<1> USE DEF IndInv
<1>1. TypeOK'
  BY DaemonType
<1>2. UNCHANGED <<mu, pc, req, ret, conn, nextID>>
  BY DEF Daemon, Answer, AnswerOrphan, Crash, Restart, clientVars
<1>3. LockInv' /\ CallInv'
  BY <1>2 DEF LockInv, CallInv, ReplyAnswersItsRequest
<1>4. \A g, h \in Callers : pc[g] = "recv" /\ pc[h] = "recv" => g = h
  BY DEF LockInv, Critical
<1>5. ConnInv'
  BY <1>2 DEF ConnInv, Daemon, Answer, AnswerOrphan, Crash, Restart, socketVars
<1>6. CASE Answer
  <2>1. PICK g \in Callers : pc[g] = "recv"
    BY <1>6 DEF Answer, WireInv
  <2>2. Sent(req[g])
    BY <2>1, <1>6 DEF WireInv, Answer, Lost, Answered
  <2>3. Head(toServer) = req[g] /\ Tail(toServer) = <<>>
    BY <2>2, Singletons DEF Sent
  <2>4. /\ toServer' = <<>> /\ executed' = executed \cup {req[g]}
        /\ \E k \in ReplyKinds :
             toClient' = Append(<<>>, [kind |-> k, answers |-> req[g]])
    BY <2>2, <2>3, <1>6 DEF Answer, Sent
  <2>5. Answered(req[g])'
    BY <2>4, <1>2, Singletons DEF Answered
  <2>6. WireInv'
    BY <2>1, <2>5, <1>2, <1>4 DEF WireInv
  <2>7. IdInv'
    BY <2>1, <2>4, <1>2, <1>6 DEF IdInv, Answer
  <2> QED
    BY <1>1, <1>3, <1>5, <2>6, <2>7
<1>7. CASE AnswerOrphan
  <2>1. PICK id \in orphans :
          orphans' = orphans \ {id} /\ executed' = executed \cup {id}
    BY <1>7 DEF AnswerOrphan
  <2>2. UNCHANGED <<toServer, toClient>>
    BY <1>7 DEF AnswerOrphan, socketVars
  <2>3. \A g \in Callers : pc[g] = "recv" => req[g] # id
    BY DEF IdInv
  <2>4. WireInv'
    BY <2>1, <2>2, <2>3, <1>2 DEF WireInv, Lost, Sent, Answered
  <2>5. IdInv'
    BY <2>1, <1>2 DEF IdInv
  <2> QED
    BY <1>1, <1>3, <1>5, <2>4, <2>5
<1>8. CASE Crash
  <2>1. /\ toServer' = <<>> /\ orphans' = {}
        /\ UNCHANGED <<toClient, executed>>
    BY <1>8 DEF Crash
  <2>2. WireInv'
    BY <2>1, <1>2 DEF WireInv, Lost, Sent, Answered
  <2>3. IdInv'
    BY <2>1, <1>2 DEF IdInv
  <2> QED
    BY <1>1, <1>3, <1>5, <2>2, <2>3
<1>9. CASE Restart
  <2>1. UNCHANGED <<toServer, toClient, executed, orphans>>
    BY <1>9 DEF Restart, socketVars
  <2> QED
    BY <1>1, <1>2, <1>3, <1>5, <2>1 DEF WireInv, Lost, Sent, Answered, IdInv
<1> QED
  BY <1>6, <1>7, <1>8, <1>9 DEF Daemon

\* Every step maintains the invariant.
LEMMA IndInvStep == IndInv /\ [Next]_vars => IndInv'
<1>1. ASSUME IndInv, NEW g \in Callers, Client(g) PROVE IndInv'
  BY <1>1, OutsideStep, ConnectStep, ExchangeStep, CloseStep DEF Client, CallStep
<1>2. IndInv /\ UNCHANGED vars => IndInv'
  BY StutterType
  DEF vars, IndInv, LockInv, ConnInv, WireInv, Lost, Sent, Answered, IdInv,
      CallInv, ReplyAnswersItsRequest
<1> QED
  BY <1>1, <1>2, DaemonStep DEF Next

\* The inductive invariant of the client: the lock, the connection, what is on the
\* wire and the ids of Client.Call (client.go:58-129) at every step of every goroutine.
THEOREM InductiveInvariant == Spec => []IndInv
BY InitInd, IndInvStep, PTL DEF Spec
-----------------------------------------------------------------------------
(* What follows from it.                                                   *)

\* A reply that Call returns answers the request of that very Call: the
\* decoder may ignore the id (client.go:102-111).
THEOREM RepliesMatch == Spec => []ReplyAnswersItsRequest
<1>1. IndInv => ReplyAnswersItsRequest
  BY DEF IndInv, CallInv
<1> QED
  BY <1>1, InductiveInvariant, PTL

\* The holder of the mutex is the only one with anything on the wire.
LEMMA CleanWire == IndInv => OneInFlight
<1>1. ASSUME IndInv, toServer # <<>> \/ toClient # <<>>
      PROVE  /\ mu \in Callers /\ pc[mu] = "recv"
             /\ Len(toServer) + Len(toClient) = 1
             /\ ToSet(toServer) \cup {toClient[i].answers : i \in DOMAIN toClient}
                  = {req[mu]}
  <2>1. PICK g \in Callers : pc[g] = "recv"
    BY <1>1 DEF IndInv, WireInv
  <2>2. mu = g
    BY <1>1, <2>1 DEF IndInv, LockInv, Critical
  <2>3. CASE Sent(req[g])
    <3>1. toServer = <<req[g]>> /\ toClient = <<>>
      BY <2>3 DEF Sent
    <3>2. Len(toServer) = 1 /\ Len(toClient) = 0 /\ DOMAIN toClient = {}
      BY <3>1
    <3> QED
      BY <3>1, <3>2, <2>1, <2>2, Singletons
  <2>4. CASE Answered(req[g])
    <3>1. PICK k \in ReplyKinds :
            toClient = <<[kind |-> k, answers |-> req[g]]>>
      BY <2>4 DEF Answered
    <3>2. toServer = <<>> /\ ToSet(toServer) = {} /\ Len(toServer) = 0
      BY <2>4, EmptyToSet DEF Answered
    <3>3. Len(toClient) = 1 /\ DOMAIN toClient = {1} /\ toClient[1].answers = req[g]
      BY <3>1
    <3> QED
      BY <3>2, <3>3, <2>1, <2>2
  <2> QED
    BY <1>1, <2>1, <2>3, <2>4 DEF IndInv, WireInv, Lost
<1> QED
  BY <1>1 DEF OneInFlight

\* Whatever is on the wire belongs to the call in progress: a connection is
\* never reused with anything left on it.
THEOREM WireIsClean == Spec => []OneInFlight
BY CleanWire, InductiveInvariant, PTL

\* A Call that returns a transport failure leaves no connection behind; one that
\* returns a reply or the daemon's error keeps it.
THEOREM FailureDisconnects == Spec => FailureDropsConnection
<1>1. ASSUME IndInv, IndInv', [Next]_vars, NEW g \in Callers,
             pc[g] \in InCall, pc'[g] = "idle"
      PROVE  IF ret'[g] = Failure THEN conn' = "nil"
             ELSE conn' = conn /\ peerOpen' = peerOpen
  <2>1. DialFails(g) \/ EncodeFails(g) \/ Decode(g) \/ DecodeFails(g)
    <3>1. pc' # pc
      BY <1>1 DEF IndInv, TypeOK, InCall
    <3>2. \A h \in Callers : Client(h) /\ h # g => pc'[g] = pc[g]
      BY <1>1
      DEF IndInv, TypeOK, Client, CallBegins, Lock, CallStep, Reuse, DialSucceeds,
          DialFails, Encode, EncodeFails, Decode, DecodeFails, Return,
          CloseBegins, Close, ContextEnds
    <3>3. ~Daemon /\ ~UNCHANGED vars
      BY <3>1 DEF Daemon, Answer, AnswerOrphan, Crash, Restart, clientVars, vars
    <3>4. Client(g)
      BY <1>1, <3>2, <3>3 DEF Next, InCall
    <3> QED
      BY <1>1, <3>4
      DEF IndInv, TypeOK, Client, CallBegins, Lock, CallStep, Reuse, DialSucceeds,
          Encode, CloseBegins, Close, ContextEnds, InCall
  <2>2. CASE DialFails(g)
    BY <2>2, <1>1 DEF DialFails, Return, IndInv, TypeOK, socketVars
  <2>3. CASE EncodeFails(g) \/ DecodeFails(g)
    BY <2>3, <1>1
    DEF EncodeFails, DecodeFails, DisconnectLocked, Return, IndInv, TypeOK
  <2>4. CASE Decode(g)
    <3>1. ret'[g] = Head(toClient)
      BY <2>4, <1>1 DEF Decode, Return, IndInv, TypeOK
    <3>2. Answered(req[g])
      BY <2>4, <1>1 DEF Decode, IndInv, WireInv, Lost, Sent
    <3>3. PICK k \in ReplyKinds : toClient = <<[kind |-> k, answers |-> req[g]]>>
      BY <3>2 DEF Answered
    <3>4. Head(toClient).kind = k /\ k # "error"
      BY <3>3, Singletons DEF ReplyKinds
    <3>5. ret'[g] # Failure
      BY <3>1, <3>4 DEF Failure
    <3> QED
      BY <2>4, <3>5 DEF Decode
  <2> QED
    BY <2>1, <2>2, <2>3, <2>4
<1>2. IndInv /\ IndInv' /\ [Next]_vars
        => [\A g \in Callers : pc[g] \in InCall /\ pc'[g] = "idle" =>
              IF ret'[g] = Failure THEN conn' = "nil"
              ELSE conn' = conn /\ peerOpen' = peerOpen]_vars
  BY <1>1
<1> QED
  BY <1>2, InductiveInvariant, PTL DEF Spec, FailureDropsConnection

-----------------------------------------------------------------------------
(* UnixctlClient implements UnixctlCall.                                   *)

phaseBar == [g \in Callers |-> IF pc[g] \in InCall THEN "open" ELSE "idle"]

\* A step that moves g from a place inside Call to another is no step of phase.
LEMMA PhaseKept ==
  ASSUME TypeOK, TypeOK', \A h \in Callers : pc'[h] \in InCall <=> pc[h] \in InCall
  PROVE  phaseBar' = phaseBar
BY DEF phaseBar

\* One that makes g enter or leave Call changes g's phase and no other.
LEMMA PhaseChanged ==
  ASSUME TypeOK, NEW g \in Callers, NEW p \in Places, pc' = [pc EXCEPT ![g] = p]
  PROVE  phaseBar' = [phaseBar EXCEPT
           ![g] = IF p \in InCall THEN "open" ELSE "idle"]
BY DEF TypeOK, phaseBar

\* A step of a goroutine maps to a step of UnixctlCall, or to none.
LEMMA ClientImplements ==
  ASSUME IndInv, NEW g \in Callers, Client(g)
  PROVE  [Promise!Next]_Promise!callVars
<1> USE DEF IndInv
<1>0. TypeOK'
  BY ClientType
<1>1. CASE CallBegins(g)
  <2>1. /\ phaseBar[g] = "idle" /\ phaseBar' = [phaseBar EXCEPT ![g] = "open"]
    BY <1>1, PhaseChanged, "lock" \in Places
    DEF CallBegins, phaseBar, InCall, Places
  <2>2. Promise!Begin(g)
    BY <1>1, <2>1
    DEF CallBegins, Promise!Begin, NoReturn, Promise!NoReturn, daemonVars, phaseBar
  <2> QED
    BY <2>2 DEF Promise!Next
<1>2. CASE Lock(g) \/ Reuse(g) \/ DialSucceeds(g) \/ CloseBegins(g) \/ Close(g)
           \/ ContextEnds(g)
  <2>1. \A h \in Callers : pc'[h] \in InCall <=> pc[h] \in InCall
    BY <1>2
    DEF Lock, Reuse, DialSucceeds, CloseBegins, Close, ContextEnds, TypeOK, InCall
  <2>2. phaseBar' = phaseBar
    BY <2>1, <1>0, PhaseKept
  <2>3. UNCHANGED <<req, ret, nextID, executed>>
    BY <1>2
    DEF Lock, Reuse, DialSucceeds, CloseBegins, Close, ContextEnds, daemonVars
  <2> QED
    BY <2>2, <2>3 DEF Promise!callVars, phaseBar
<1>3. ASSUME pc[g] \in InCall, pc' = [pc EXCEPT ![g] = "idle"]
      PROVE  phaseBar[g] = "open" /\ phaseBar' = [phaseBar EXCEPT ![g] = "idle"]
  BY <1>3, PhaseChanged, "idle" \in Places DEF phaseBar, InCall, Places
<1>4. CASE DialFails(g) \/ DecodeFails(g)
  <2>1. phaseBar[g] = "open" /\ phaseBar' = [phaseBar EXCEPT ![g] = "idle"]
    BY <1>3, <1>4 DEF DialFails, DecodeFails, Return, InCall
  <2>2. Promise!Fail(g)
    BY <1>4, <2>1
    DEF DialFails, DecodeFails, Return, DisconnectLocked, Promise!Fail, Failure,
        Promise!Failure, daemonVars, phaseBar
  <2> QED
    BY <2>2 DEF Promise!Next
<1>5. CASE Encode(g)
  <2>1. phaseBar[g] = "open" /\ phaseBar' = phaseBar
    BY <1>5, PhaseChanged, "recv" \in Places, PhaseKept, <1>0
    DEF Encode, phaseBar, InCall, Places, TypeOK
  <2>2. Promise!Number(g)
    BY <1>5, <2>1
    DEF Encode, TakeID, CallInv, Promise!Number, daemonVars, phaseBar
  <2> QED
    BY <2>2 DEF Promise!Next
<1>6. CASE EncodeFails(g)
  <2>1. phaseBar[g] = "open" /\ phaseBar' = [phaseBar EXCEPT ![g] = "idle"]
    BY <1>3, <1>6 DEF EncodeFails, Return, InCall
  <2>2. Promise!NumberAndFail(g)
    BY <1>6, <2>1
    DEF EncodeFails, TakeID, Return, CallInv, Promise!NumberAndFail, Failure,
        Promise!Failure, phaseBar
  <2> QED
    BY <2>2 DEF Promise!Next
<1>7. CASE Decode(g)
  <2>1. phaseBar[g] = "open" /\ phaseBar' = [phaseBar EXCEPT ![g] = "idle"]
    BY <1>3, <1>7 DEF Decode, Return, InCall
  <2>2. Answered(req[g])
    BY <1>7 DEF Decode, WireInv, Lost, Sent
  <2>3. PICK k \in ReplyKinds : toClient = <<[kind |-> k, answers |-> req[g]]>>
    BY <2>2 DEF Answered
  <2>4. /\ k \in {"ok", "callError"}
        /\ ret' = [ret EXCEPT ![g] = Promise!Reply(k, req[g])]
    BY <1>7, <2>3, Singletons DEF Decode, Return, ReplyKinds, Promise!Reply
  <2>5. Promise!Succeed(g, k)
    BY <1>7, <2>1, <2>2, <2>4
    DEF Decode, Answered, Promise!Succeed, daemonVars, phaseBar
  <2> QED
    BY <2>4, <2>5 DEF Promise!Next
<1> QED
  BY <1>1, <1>2, <1>4, <1>5, <1>6, <1>7 DEF Client, CallStep

\* What the daemon does maps to a step of UnixctlCall, or to none.
LEMMA DaemonImplements ==
  ASSUME IndInv, Daemon
  PROVE  [Promise!Next]_Promise!callVars
<1> USE DEF IndInv
<1>1. UNCHANGED <<pc, req, ret, nextID>> /\ phaseBar' = phaseBar
  BY DEF Daemon, Answer, AnswerOrphan, Crash, Restart, clientVars, phaseBar
<1>2. ASSUME NEW id \in (1 .. nextID) \ executed, executed' = executed \cup {id}
      PROVE  Promise!Next
  <2>1. Promise!Execute(id)
    BY <1>1, <1>2 DEF Promise!Execute, phaseBar
  <2> QED
    BY <2>1 DEF Promise!Next
<1>3. CASE Answer
  <2>1. PICK g \in Callers : pc[g] = "recv"
    BY <1>3 DEF Answer, WireInv
  <2>2. Sent(req[g])
    BY <2>1, <1>3 DEF WireInv, Answer, Lost, Answered
  <2>3. executed' = executed \cup {req[g]}
    BY <2>2, <1>3, Singletons DEF Answer, Sent
  <2> QED
    BY <2>1, <2>2, <2>3, <1>2 DEF Sent, IdInv
<1>4. CASE AnswerOrphan
  BY <1>4, <1>2 DEF AnswerOrphan, IdInv
<1>5. CASE Crash \/ Restart
  BY <1>5, <1>1 DEF Crash, Restart, Promise!callVars, phaseBar
<1> QED
  BY <1>3, <1>4, <1>5 DEF Daemon

\* The initial states map to initial states, every step to a step or a stutter.
LEMMA InitImplements == Init => Promise!Init
BY DEF Init, Promise!Init, InCall, NoReturn, Promise!NoReturn

\* So every step does.
LEMMA StepImplements == IndInv /\ [Next]_vars => [Promise!Next]_Promise!callVars
<1>1. IndInv /\ UNCHANGED vars => [Promise!Next]_Promise!callVars
  BY DEF vars, Promise!callVars
<1> QED
  BY <1>1, ClientImplements, DaemonImplements DEF Next

\* Calls are executed at most once and answered with the reply to their own
\* request, whatever the connection goes through.
THEOREM Implements == Spec => ImplementsCall
BY InitImplements, StepImplements, InductiveInvariant, PTL
DEF Spec, ImplementsCall, Promise!Spec

-----------------------------------------------------------------------------
(* The exporter: its invariant.                                            *)

\* Of the client's operations main uses Close only, in its place of the shutdown,
\* and the scraper Call only, for the calls of a refresh.
GoroutineInv ==
  /\ pc["main"] = "idle" \/ (pc["main"] = "close" /\ stage = "unixctl")
  /\ pc["scraper"] # "close"
  /\ pc["scraper"] \in InCall => run = "refresh" /\ made < Calls

Cancelled == {"listener", "drain", "unregister", "unixctl", "ovsdb", "otel"}

\* scrapeCancel has been called from "listener" on, and no call outlives it with a
\* context that allows a dial.
CancelInv ==
  /\ stage \in Cancelled => cancelled
  /\ ScrapeDone /\ pc["scraper"] \in InCall => ctx["scraper"] # "live"

\* What is open at each stage.
StageInv ==
  /\ stage \notin {"select", "cancel", "listener", "drain", "unregister"} =>
       registered = {}
  /\ ovsdb = "closed" => stage \in {"otel", "exited"}
  /\ ClosedForGood

\* How the time main waits for the mutex adds up: the rest of one exchange, and one
\* that overtakes it; after that the mutex is main's.
TimeInv ==
  IF pc["main"] = "close"
    THEN /\ pc["scraper"] \in {"ensure", "send"} =>
              waited <= IF starving THEN CallTimeout ELSE 0
         /\ pc["scraper"] = "recv" =>
              waited <= IF starving THEN CallTimeout + spent ELSE spent
         /\ pc["scraper"] \in {"idle", "lock"} =>
              waited <= IF starving THEN 2 * CallTimeout ELSE CallTimeout
    ELSE waited = 0 /\ spent = 0 /\ ~starving

ExporterInv ==
  /\ IndInv /\ ExporterTypeOK
  /\ GoroutineInv /\ CancelInv /\ StageInv /\ TimeInv
-----------------------------------------------------------------------------
(* The exporter's client is a UnixctlClient.                               *)

LEMMA Goroutines == "main" \in Callers /\ "scraper" \in Callers
BY GoroutinesAssumption

\* Cancelling the scraper's context is what ContextEnds allows, or nothing.
LEMMA CancelStep ==
  ASSUME TypeOK, CancelScrape,
         UNCHANGED <<mu, pc, req, ret, conn, nextID, socketVars, daemonVars>>
  PROVE  [Next]_vars
<1>1. CASE pc["scraper"] \in InCall /\ ctx["scraper"] = "live"
  <2>1. ContextEnds("scraper")
    BY <1>1, Goroutines DEF CancelScrape, ContextEnds, TypeOK
  <2> QED
    BY <2>1, Goroutines DEF Next, Client
<1>2. CASE ~(pc["scraper"] \in InCall /\ ctx["scraper"] = "live")
  <2>1. ctx' = ctx
    BY <1>2, Goroutines DEF CancelScrape, TypeOK
  <2> QED
    BY <2>1 DEF vars, socketVars, daemonVars
<1> QED
  BY <1>1, <1>2

\* Every step of the exporter is one of the client or leaves the client alone.
LEMMA ClientOfExporter ==
  ASSUME TypeOK, [ExporterNext]_allVars
  PROVE  [Next]_vars
<1>1. CASE UNCHANGED vars
  BY <1>1
<1>2. CASE Signal \/ ScrapeCancel
  BY <1>2, CancelStep DEF Signal, ScrapeCancel
<1>3. CASE CloseUnixctl
  BY <1>3, Goroutines DEF CloseUnixctl, Next, Client
<1>4. CASE BeginCall \/ StepCall
  BY <1>4, Goroutines DEF BeginCall, StepCall, Next, Client
<1>5. CASE Daemon
  BY <1>5 DEF Next
<1>6. \/ UNCHANGED vars \/ Signal \/ ScrapeCancel \/ CloseUnixctl
      \/ BeginCall \/ StepCall \/ Daemon
  BY DEF ExporterNext, allVars, Process, Main, ConnectOVSDB, RegisterAndStart,
         SelectServeErr, SelectSignal, CloseListener, ShutdownReturns, CloseOVSDB,
         ShutdownOtel, StartupFails, ListenFails, Wait, ScraperRun,
         RefreshReturns, SelectTick, SelectDone, Unregister, Collect, Collected
<1> QED
  BY <1>1, <1>2, <1>3, <1>4, <1>5, <1>6

-----------------------------------------------------------------------------
(* The inductive invariant.                                                *)

LEMMA InitExporterInv == ExporterInit => ExporterInv
<1> SUFFICES ASSUME ExporterInit PROVE ExporterInv
  OBVIOUS
<1>1. IndInv
  BY InitInd DEF ExporterInit
<1>2. pc["main"] = "idle" /\ pc["scraper"] = "idle" /\ conn = "nil"
  BY Goroutines DEF ExporterInit, Init
<1>3. ExporterTypeOK
  <2>1. spent \in 0 .. Deadline
    BY <1>2 DEF ExporterInit, Deadline, Dialling
  <2>2. reader \in [Readers -> {"idle", "collecting"}] /\ made \in 0 .. Calls
    BY CallsAssumption DEF ExporterInit
  <2> QED
    BY <1>1, <2>1, <2>2 DEF ExporterInit, ExporterTypeOK, IndInv, Stages
<1>4. GoroutineInv /\ CancelInv /\ StageInv /\ TimeInv
  BY <1>2
  DEF ExporterInit, GoroutineInv, CancelInv, StageInv, TimeInv, ClosedForGood,
      Cancelled, ScrapeDone, InCall
<1> QED
  BY <1>1, <1>3, <1>4 DEF ExporterInv

\* What the deadline of a call and the parts of the invariant about the client
\* depend on.
LEMMA SameClient ==
  ASSUME ExporterInv, UNCHANGED <<pc, ctx, conn, waitVars>>
  PROVE  Deadline' = Deadline /\ TimeInv'
BY DEF ExporterInv, Deadline, Dialling, TimeInv, waitVars

\* Steps of main and of the readers that do not touch the client.
LEMMA MainAloneStep ==
  ASSUME ExporterInv, IndInv', UNCHANGED <<vars, run, made, waitVars>>,
         \/ ConnectOVSDB \/ StartupFails \/ ListenFails \/ SelectServeErr
         \/ SelectSignal \/ CloseListener \/ ShutdownReturns \/ CloseOVSDB
         \/ ShutdownOtel
  PROVE  ExporterInv'
<1>1. UNCHANGED <<pc, ctx, conn>>
  BY DEF vars
<1>2. Deadline' = Deadline /\ TimeInv'
  BY <1>1, SameClient
<1>3. ExporterTypeOK'
  BY <1>2
  DEF ExporterInv, ExporterTypeOK, IndInv, waitVars, Stages, GoTo,
      ConnectOVSDB, StartupFails, ListenFails, SelectServeErr, SelectSignal,
      CloseListener, ShutdownReturns, CloseOVSDB, ShutdownOtel
<1>4. /\ stage = "unixctl" => stage' = "unixctl"
      /\ UNCHANGED <<signaled, cancelled, registered>>
      /\ stage' # stage => <<stage, stage'>> \in
           {<<"connect", "register">>, <<"connect", "exited">>,
            <<"register", "exited">>, <<"select", "cancel">>,
            <<"listener", "drain">>, <<"drain", "unregister">>,
            <<"ovsdb", "otel">>, <<"otel", "exited">>}
      /\ ovsdb' = "closed" => ovsdb = "closed" \/ stage' = "otel"
  BY DEF GoTo,
      ConnectOVSDB, StartupFails, ListenFails, SelectServeErr, SelectSignal,
      CloseListener, ShutdownReturns, CloseOVSDB, ShutdownOtel
<1>5. GoroutineInv' /\ CancelInv'
  BY <1>1, <1>4 DEF ExporterInv, GoroutineInv, CancelInv, ScrapeDone, Cancelled
<1>6. StageInv'
  BY <1>1, <1>4 DEF ExporterInv, StageInv, ClosedForGood
<1> QED
  BY <1>2, <1>3, <1>5, <1>6 DEF ExporterInv

\* Everything is registered and started.
LEMMA RegisterStep ==
  ASSUME ExporterInv, IndInv', RegisterAndStart
  PROVE  ExporterInv'
<1>1. /\ UNCHANGED <<pc, ctx, conn, made, waitVars, signaled, cancelled, ovsdb>>
      /\ stage = "register" /\ stage' = "select" /\ run' = "refresh"
  BY DEF RegisterAndStart, GoTo, vars
<1>2. Deadline' = Deadline /\ TimeInv'
  BY <1>1, SameClient
<1>3. ExporterTypeOK'
  BY <1>2
  DEF ExporterInv, ExporterTypeOK, IndInv, waitVars, Stages, GoTo, RegisterAndStart
<1>4. GoroutineInv' /\ CancelInv' /\ StageInv'
  BY <1>1
  DEF ExporterInv, GoroutineInv, CancelInv, StageInv, ClosedForGood, ScrapeDone,
      Cancelled
<1> QED
  BY <1>2, <1>3, <1>4 DEF ExporterInv

\* The readers collect, and lose their callbacks one by one.
LEMMA ReaderStep ==
  ASSUME ExporterInv, IndInv', NEW r \in Readers,
         Unregister(r) \/ Collect(r) \/ Collected(r)
  PROVE  ExporterInv'
<1>1. UNCHANGED <<pc, ctx, conn, made, run, waitVars, signaled, cancelled, ovsdb>>
  BY DEF Unregister, Collect, Collected, vars, mainVars, scraperVars
<1>2. Deadline' = Deadline /\ TimeInv'
  BY <1>1, SameClient
<1>3. /\ registered' \subseteq registered
      /\ \/ stage' = stage
         \/ stage = "unregister" /\ stage' = "unixctl" /\ registered' = {}
  BY DEF Unregister, Collect, Collected, mainVars, GoTo
<1>4. ExporterTypeOK'
  <2>1. reader' \in [Readers -> {"idle", "collecting"}] /\ UNCHANGED <<listen, exitCode>>
    BY DEF ExporterInv, ExporterTypeOK, Unregister, Collect, Collected, mainVars
  <2> QED
    BY <1>1, <1>2, <1>3, <2>1
    DEF ExporterInv, ExporterTypeOK, IndInv, waitVars, Stages
<1>5. GoroutineInv' /\ CancelInv' /\ StageInv'
  BY <1>1, <1>3
  DEF ExporterInv, GoroutineInv, CancelInv, StageInv, ClosedForGood, ScrapeDone,
      Cancelled
<1> QED
  BY <1>2, <1>4, <1>5 DEF ExporterInv

\* A signal or scrapeCancel ends the context of the call in progress.
LEMMA CancellationStep ==
  ASSUME ExporterInv, IndInv', Signal \/ ScrapeCancel
  PROVE  ExporterInv'
<1>1. /\ UNCHANGED <<pc, conn, made, run, waitVars, ovsdb, registered, reader,
                     listen, exitCode>>
      /\ CancelScrape
      /\ signaled' \in BOOLEAN /\ cancelled' \in BOOLEAN /\ (cancelled => cancelled')
      /\ \/ stage' = stage
         \/ stage = "cancel" /\ stage' = "listener" /\ cancelled'
  BY DEF ExporterInv, ExporterTypeOK, Signal, ScrapeCancel, GoTo, scraperVars
<1>2. pc["scraper"] \in InCall => ctx'["scraper"] # "live"
  BY <1>1, Goroutines DEF CancelScrape, ExporterInv, IndInv, TypeOK
<1>3. pc["main"] = "close" => ctx'["scraper"] = ctx["scraper"]
  BY <1>1, Goroutines
  DEF CancelScrape, ExporterInv, GoroutineInv, CancelInv, ScrapeDone, Cancelled,
      IndInv, TypeOK
<1>4. spent \in 0 .. Deadline'
  <2>1. CASE pc["main"] = "close"
    BY <2>1, <1>1, <1>3 DEF ExporterInv, ExporterTypeOK, Deadline, Dialling
  <2>2. CASE pc["main"] # "close"
    BY <2>2, TimeoutsAssumption DEF ExporterInv, TimeInv, Deadline, Dialling
  <2> QED
    BY <2>1, <2>2
<1>5. ExporterTypeOK'
  BY <1>1, <1>4 DEF ExporterInv, ExporterTypeOK, IndInv, waitVars, Stages
<1>6. GoroutineInv' /\ StageInv' /\ TimeInv'
  BY <1>1 DEF ExporterInv, GoroutineInv, StageInv, ClosedForGood, TimeInv, waitVars
<1>7. CancelInv'
  BY <1>1, <1>2 DEF ExporterInv, CancelInv, Cancelled
<1> QED
  BY <1>5, <1>6, <1>7 DEF ExporterInv

\* main comes for the mutex, waits for it, and closes the connection.
LEMMA CloseUnixctlStep ==
  ASSUME ExporterInv, IndInv', CloseUnixctl \/ Wait
  PROVE  ExporterInv'
<1> USE DEF ExporterInv
<1>1. /\ UNCHANGED <<signaled, cancelled, listen, exitCode, ovsdb, registered,
                     reader, run, made, ctx>>
      /\ UNCHANGED pc \/ \E p \in Places : pc' = [pc EXCEPT !["main"] = p]
  BY DEF CloseUnixctl, Wait, CloseBegins, Close, scraperVars, mainVars, vars, Places
<1>2. pc'["scraper"] = pc["scraper"]
  BY <1>1, Goroutines, GoroutinesAssumption DEF IndInv, TypeOK
<1>3. stage = "unixctl" /\ cancelled
  BY DEF CloseUnixctl, Wait, GoroutineInv, CancelInv, Cancelled
<1>4. CancelInv'
  BY <1>1, <1>2, <1>3 DEF CancelInv, ScrapeDone, Cancelled
<1>5. ~Dialling /\ Deadline = IF pc["scraper"] = "recv" THEN CallTimeout ELSE 0
  BY <1>3 DEF CancelInv, ScrapeDone, InCall, Dialling, Deadline
<1>6. CASE CloseUnixctl /\ CloseBegins("main")
  <2>1. /\ pc["main"] = "idle" /\ pc'["main"] = "close"
        /\ UNCHANGED <<conn, stage, waited, starving>>
        /\ spent' \in 0 .. Deadline
    BY <1>6, Goroutines DEF CloseUnixctl, CloseBegins, Close, IndInv, TypeOK
  <2>2. Deadline' = Deadline
    BY <1>1, <1>2, <2>1 DEF Deadline, Dialling
  <2>3. waited = 0 /\ ~starving
    BY <2>1 DEF TimeInv
  <2>4. TimeInv'
    <3>1. spent' \in Nat /\ waited' = 0 /\ starving' = FALSE
      BY <2>1, <2>3, <1>5, TimeoutsAssumption DEF ExporterTypeOK
    <3> QED
      BY <2>1, <3>1, TimeoutsAssumption DEF TimeInv
  <2>5. ExporterTypeOK'
    BY <1>1, <2>1, <2>2 DEF ExporterTypeOK, IndInv
  <2>6. GoroutineInv' /\ StageInv'
    BY <1>1, <1>2, <1>3, <2>1 DEF GoroutineInv, StageInv, ClosedForGood
  <2> QED
    BY <1>4, <2>4, <2>5, <2>6
<1>7. CASE CloseUnixctl /\ Close("main")
  <2>1. /\ pc["main"] = "close" /\ pc'["main"] = "idle"
        /\ conn' = "nil" /\ stage' = "ovsdb" /\ mu = Free
        /\ waited' = 0 /\ spent' = 0 /\ starving' = FALSE
    BY <1>7, Goroutines
    DEF CloseUnixctl, CloseBegins, Close, DisconnectLocked, GoTo, IndInv, TypeOK
  <2>2. pc["scraper"] \notin Critical
    BY <2>1, Goroutines, CallersAssumption DEF IndInv, LockInv
  <2>3. Deadline' = 0
    BY <1>1, <1>2, <2>2 DEF Deadline, Dialling, Critical
  <2>4. ExporterTypeOK'
    <3>1. spent' \in 0 .. Deadline'
      <4>1. spent' = 0 /\ Deadline' = 0
        BY <2>1, <2>3
      <4>2. 0 \in 0 .. 0
        OBVIOUS
      <4> QED
        BY <4>1, <4>2, Zenon
    <3>2. starving' \in BOOLEAN
      BY <2>1
    <3> QED
      BY <1>1, <2>1, <3>1, <3>2 DEF ExporterTypeOK, IndInv, Stages
  <2>5. GoroutineInv' /\ StageInv' /\ TimeInv'
    BY <1>1, <1>2, <1>3, <2>1 DEF GoroutineInv, StageInv, ClosedForGood, TimeInv
  <2> QED
    BY <1>4, <2>4, <2>5
<1>8. CASE Wait
  <2>1. /\ pc["main"] = "close" /\ UNCHANGED <<pc, ctx, conn, stage, starving>>
        /\ spent < Deadline /\ spent' = spent + 1 /\ waited' = waited + 1
    BY <1>8 DEF Wait, vars, mainVars
  <2>2. pc["scraper"] = "recv" /\ spent < CallTimeout
    BY <2>1, <1>5 DEF ExporterTypeOK
  <2>3. TimeInv'
    BY <2>1, <2>2, TimeoutsAssumption DEF TimeInv, ExporterTypeOK
  <2>4. Deadline' = Deadline
    BY <2>1 DEF Deadline, Dialling
  <2>5. ExporterTypeOK'
    BY <1>1, <2>1, <2>2, <2>4, <1>5, TimeoutsAssumption DEF ExporterTypeOK, IndInv
  <2>6. GoroutineInv' /\ StageInv'
    BY <1>1, <2>1 DEF GoroutineInv, StageInv, ClosedForGood
  <2> QED
    BY <1>4, <2>3, <2>5, <2>6
<1> QED
  BY <1>6, <1>7, <1>8 DEF CloseUnixctl

\* A deadline is a time.
LEMMA DeadlineType == Deadline \in Nat /\ Deadline' \in Nat
BY TimeoutsAssumption DEF Deadline

\* A call of the refresh begins.
LEMMA BeginCallStep ==
  ASSUME ExporterInv, IndInv', BeginCall
  PROVE  ExporterInv'
<1> USE DEF ExporterInv
<1>1. /\ UNCHANGED <<conn, exporterVars>>
      /\ pc["scraper"] = "idle" /\ pc'["scraper"] = "lock"
      /\ pc'["main"] = pc["main"] /\ run = "refresh" /\ made < Calls
      /\ ScrapeDone => ctx'["scraper"] = "canceled"
  BY Goroutines DEF BeginCall, CallBegins, IndInv, TypeOK
<1>2. spent \in 0 .. Deadline'
  <2>1. spent = 0
    BY <1>1 DEF ExporterTypeOK, Deadline, Dialling
  <2> QED
    BY <2>1, DeadlineType
<1>3. ExporterTypeOK'
  BY <1>1, <1>2 DEF ExporterTypeOK, IndInv, exporterVars
<1>4. GoroutineInv' /\ CancelInv' /\ StageInv' /\ TimeInv'
  BY <1>1
  DEF GoroutineInv, CancelInv, StageInv, ClosedForGood, TimeInv, exporterVars,
      ScrapeDone
<1> QED
  BY <1>3, <1>4

\* What a step of the scraper's call does to those the invariant speaks of.
LEMMA StepCallEffect ==
  ASSUME ExporterInv, StepCall
  PROVE  /\ ctx' = ctx /\ pc'["main"] = pc["main"]
         /\ <<pc["scraper"], pc'["scraper"]>> \in
              {<<"lock", "ensure">>, <<"ensure", "send">>, <<"ensure", "idle">>,
               <<"send", "recv">>, <<"send", "idle">>, <<"recv", "idle">>}
         /\ conn' \in {conn, "nil"} \/ ctx["scraper"] = "live"
<1> USE Goroutines DEF ExporterInv, IndInv, TypeOK
<1>1. CASE Lock("scraper")
  BY <1>1 DEF Lock
<1>2. CASE Reuse("scraper") \/ DialSucceeds("scraper") \/ DialFails("scraper")
  BY <1>2 DEF Reuse, DialSucceeds, DialFails, Return
<1>3. CASE Encode("scraper") \/ EncodeFails("scraper")
  BY <1>3 DEF Encode, EncodeFails, Return, DisconnectLocked
<1>4. CASE Decode("scraper") \/ DecodeFails("scraper")
  BY <1>4 DEF Decode, DecodeFails, Return, DisconnectLocked
<1> QED
  BY <1>1, <1>2, <1>3, <1>4 DEF StepCall, CallStep

\* The scraper takes the mutex, or goes on with its call.
LEMMA StepCallStep ==
  ASSUME ExporterInv, IndInv', StepCall
  PROVE  ExporterInv'
<1> USE DEF ExporterInv
<1>1. /\ UNCHANGED <<mainVars, reader, run, waited>> /\ spent' = 0
      /\ made' = IF pc'["scraper"] = "idle" THEN made + 1 ELSE made
      /\ \/ /\ ~starving /\ pc["scraper"] = "lock"
            /\ starving' <=> pc["main"] = "close" /\ waited > 0
         \/ starving' = starving /\ pc["scraper"] # "lock"
  BY DEF StepCall, Lock, CallStep, Reuse, DialSucceeds, DialFails, Encode,
         EncodeFails, Decode, DecodeFails
<1>2. /\ ctx' = ctx /\ pc'["main"] = pc["main"]
      /\ <<pc["scraper"], pc'["scraper"]>> \in
           {<<"lock", "ensure">>, <<"ensure", "send">>, <<"ensure", "idle">>,
            <<"send", "recv">>, <<"send", "idle">>, <<"recv", "idle">>}
      /\ conn' \in {conn, "nil"} \/ ctx["scraper"] = "live"
  BY StepCallEffect
<1>3. pc["scraper"] \in InCall /\ run = "refresh" /\ made < Calls
  BY <1>2 DEF GoroutineInv, InCall
<1>4. GoroutineInv'
  BY <1>1, <1>2, <1>3 DEF GoroutineInv, InCall, mainVars
<1>5. CancelInv'
  BY <1>1, <1>2, <1>3 DEF CancelInv, ScrapeDone, mainVars
<1>6. StageInv'
  BY <1>1, <1>2, <1>3
  DEF StageInv, ClosedForGood, CancelInv, ScrapeDone, Cancelled, mainVars
<1>7. pc["scraper"] = "recv" => spent <= CallTimeout
  BY TimeoutsAssumption DEF ExporterTypeOK, Deadline, Dialling
<1>8. TimeInv'
  <2>1. CASE pc["main"] = "close"
    BY <2>1, <1>1, <1>2, <1>7, TimeoutsAssumption DEF TimeInv, ExporterTypeOK
  <2>2. CASE pc["main"] # "close"
    BY <2>2, <1>1, <1>2 DEF TimeInv
  <2> QED
    BY <2>1, <2>2
<1>9. ExporterTypeOK'
  <2>1. spent' \in 0 .. Deadline'
    BY <1>1, DeadlineType
  <2>2. made' \in 0 .. Calls
    BY <1>1, <1>3, CallsAssumption DEF ExporterTypeOK
  <2>3. starving' \in BOOLEAN
    <3>1. starving' = starving \/ starving' = (pc["main"] = "close" /\ waited > 0)
      BY DEF StepCall
    <3> QED
      BY <3>1 DEF ExporterTypeOK
  <2> QED
    BY <1>1, <2>1, <2>2, <2>3 DEF ExporterTypeOK, IndInv, mainVars
<1> QED
  BY <1>4, <1>5, <1>6, <1>8, <1>9

\* The other steps of Run.
LEMMA RunStep ==
  ASSUME ExporterInv, IndInv', RefreshReturns \/ SelectTick \/ SelectDone
  PROVE  ExporterInv'
<1> USE DEF ExporterInv
<1>1. /\ UNCHANGED <<pc, ctx, conn, waitVars, mainVars, reader>>
      /\ run = "refresh" => made = Calls
      /\ run' \in {"refresh", "select", "done"} /\ made' \in {0, made}
  BY DEF RefreshReturns, SelectTick, SelectDone, vars
<1>2. pc["scraper"] \notin InCall
  BY <1>1, CallsAssumption DEF GoroutineInv
<1>3. Deadline' = Deadline /\ TimeInv'
  BY <1>1, SameClient
<1>4. ExporterTypeOK'
  BY <1>1, <1>3, CallsAssumption DEF ExporterTypeOK, IndInv, waitVars, mainVars
<1>5. GoroutineInv' /\ CancelInv' /\ StageInv'
  BY <1>1, <1>2
  DEF GoroutineInv, CancelInv, StageInv, ClosedForGood, ScrapeDone, mainVars
<1> QED
  BY <1>3, <1>4, <1>5

\* Nothing happens in the exporter: the daemon steps, or nobody.
LEMMA ElsewhereStep ==
  ASSUME ExporterInv, IndInv', UNCHANGED <<pc, ctx, conn, exporterVars>>
  PROVE  ExporterInv'
<1>1. Deadline' = Deadline /\ TimeInv'
  BY SameClient DEF exporterVars, waitVars
<1>2. ExporterTypeOK'
  BY <1>1 DEF ExporterInv, ExporterTypeOK, IndInv, exporterVars
<1>3. GoroutineInv' /\ CancelInv' /\ StageInv'
  BY DEF ExporterInv, GoroutineInv, CancelInv, StageInv, ClosedForGood, ScrapeDone,
         exporterVars
<1> QED
  BY <1>1, <1>2, <1>3 DEF ExporterInv

\* Every step of the process keeps the invariant.
LEMMA ExporterInvStep == ExporterInv /\ [ExporterNext]_allVars => ExporterInv'
<1> SUFFICES ASSUME ExporterInv, [ExporterNext]_allVars PROVE ExporterInv'
  OBVIOUS
<1>1. IndInv'
  BY ClientOfExporter, IndInvStep DEF ExporterInv, IndInv
<1>2. CASE \/ ConnectOVSDB \/ StartupFails \/ ListenFails \/ SelectServeErr
           \/ SelectSignal \/ CloseListener \/ ShutdownReturns \/ CloseOVSDB
           \/ ShutdownOtel
  <2>1. UNCHANGED <<vars, run, made, waitVars>>
    BY <1>2
    DEF ConnectOVSDB, StartupFails, ListenFails, SelectServeErr, SelectSignal,
        CloseListener, ShutdownReturns, CloseOVSDB, ShutdownOtel, scraperVars
  <2> QED
    BY <1>1, <1>2, <2>1, MainAloneStep
<1>3. CASE (Daemon /\ UNCHANGED exporterVars) \/ UNCHANGED allVars
  <2>1. UNCHANGED <<pc, ctx, conn, exporterVars>>
    BY <1>3
    DEF Daemon, Answer, AnswerOrphan, Crash, Restart, clientVars, allVars, vars
  <2> QED
    BY <1>1, <2>1, ElsewhereStep
<1> QED
  BY <1>1, <1>2, <1>3, RegisterStep, ReaderStep, CancellationStep,
     CloseUnixctlStep, BeginCallStep, StepCallStep, RunStep
  DEF ExporterNext, Process, Main, ScraperRun

\* The inductive invariant holds in every behaviour of the exporter.
THEOREM ExporterInvariant == ExporterSpec => []ExporterInv
BY InitExporterInv, ExporterInvStep, PTL DEF ExporterSpec

-----------------------------------------------------------------------------
(* What follows from it.                                                   *)

\* Every variable stays in its type, for any readers, calls and timeouts.
THEOREM ExporterTypeCorrect == ExporterSpec => []ExporterTypeOK
<1>1. ExporterInv => ExporterTypeOK
  BY DEF ExporterInv
<1> QED
  BY <1>1, ExporterInvariant, PTL

\* main and the scraper use the client as UnixctlClient allows, so its promises hold
\* also while main closes it under the scraper's calls.
THEOREM ExporterUsesClient == ExporterSpec => Init /\ [][Next]_vars
<1>1. ExporterInit => Init
  BY DEF ExporterInit
<1>2. ExporterInv /\ [ExporterNext]_allVars => [Next]_vars
  BY ClientOfExporter DEF ExporterInv, IndInv
<1> QED
  BY <1>1, <1>2, ExporterInvariant, PTL DEF ExporterSpec

\* Whatever the shutdown meets, a reply the scraper gets answers its request and the
\* wire is never reused with something left on it.
THEOREM ExporterCallsAreSafe ==
  ExporterSpec => [](ReplyAnswersItsRequest /\ OneInFlight)
<1>1. ExporterInv => IndInv
  BY DEF ExporterInv
<1>2. IndInv => ReplyAnswersItsRequest /\ OneInFlight
  BY CleanWire DEF IndInv, CallInv
<1> QED
  BY <1>1, <1>2, ExporterInvariant, PTL

\* The calls of the refreshes are executed at most once and answered with their own
\* reply: the exporter's client implements UnixctlCall as well.
THEOREM ExporterImplementsCall == ExporterSpec => ImplementsCall
<1>1. ExporterInit => Promise!Init
  BY InitImplements DEF ExporterInit
<1>2. ExporterInv /\ [ExporterNext]_allVars => [Promise!Next]_Promise!callVars
  BY ClientOfExporter, StepImplements DEF ExporterInv, IndInv
<1> QED
  BY <1>1, <1>2, ExporterInvariant, PTL
  DEF ExporterSpec, ImplementsCall, Promise!Spec

\* No callback of a collector runs on a source that has been closed.
THEOREM CallbacksAreSafe == ExporterSpec => []CallbacksReadOpenSources
<1>1. ExporterInv => CallbacksReadOpenSources
  BY DEF ExporterInv, StageInv, CallbacksReadOpenSources
<1> QED
  BY <1>1, ExporterInvariant, PTL

\* The scraper, which nobody waits for, opens no connection once main has closed it.
THEOREM ClosedStaysClosed == ExporterSpec => []ClosedForGood
<1>1. ExporterInv => ClosedForGood
  BY DEF ExporterInv, StageInv
<1> QED
  BY <1>1, ExporterInvariant, PTL

\* main waits for the client's mutex for two exchanges at the longest, whatever the
\* dial timeout, the number of calls and the behaviour of the daemon.
THEOREM ShutdownKeepsTime == ExporterSpec => []PipelinesKeepTheirTime
<1>1. ASSUME ExporterInv PROVE PipelinesKeepTheirTime
  <2>1. pc["scraper"] \in {"idle", "lock", "ensure", "send", "recv"}
    BY <1>1, Goroutines DEF ExporterInv, GoroutineInv, IndInv, TypeOK, Places
  <2>2. pc["scraper"] = "recv" => spent <= CallTimeout
    BY <1>1, TimeoutsAssumption DEF ExporterInv, ExporterTypeOK, Deadline, Dialling
  <2> QED
    BY <1>1, <2>1, <2>2, TimeoutsAssumption
    DEF ExporterInv, ExporterTypeOK, TimeInv, PipelinesKeepTheirTime
<1> QED
  BY <1>1, ExporterInvariant, PTL
=============================================================================
