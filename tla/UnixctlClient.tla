--------------------------- MODULE UnixctlClient ---------------------------
(***************************************************************************)
(* internal/unixctl/client.go: the JSON-RPC client of one ovs-vswitchd     *)
(* control socket.  Goroutines share one Client; Call and Close serialise  *)
(* on its mutex, Call dials when no connection is open, writes one request *)
(* and reads one reply under a deadline, and drops the connection on every *)
(* transport error.  The reply's id is decoded and never compared with the *)
(* request's (client.go:102-111), so that a caller gets the reply to its   *)
(* own request rests on the rest of the protocol: it is a theorem here.    *)
(*                                                                         *)
(* A request is its id.  A reply is the id of the request it answers and   *)
(* what the client makes of it: a result, a non-null error field, or bytes *)
(* that do not decode.  toServer and toClient are the two directions of    *)
(* the current connection (toClient includes what dec has read ahead); a   *)
(* connection that the client has closed lives on only in orphans, the     *)
(* requests the daemon can still read from it.                             *)
(*                                                                         *)
(* The daemon is external: it answers the requests of a connection in      *)
(* order, once each, as slowly as it likes, and may crash and restart.     *)
(* Bound: MaxCalls, the number of requests that are given an id.           *)
(***************************************************************************)
EXTENDS Naturals, FiniteSets, SequencesExt

CONSTANTS Callers,   \* goroutines that hold the *Client
          Free,      \* the mutex is unlocked
          MaxCalls   \* bound on nextID

ASSUME CallersAssumption == Free \notin Callers
ASSUME MaxCallsAssumption == MaxCalls \in Nat

VARIABLES mu,        \* c.mu: the goroutine that holds it, or Free
          pc,        \* pc[g]: where g is in Call or Close
          ctx,       \* ctx[g]: state of the context g called with
          req,       \* req[g]: id of the request g has sent, 0 before
          ret,       \* ret[g]: what g's last Call returned
          conn,      \* c.conn: "nil" or "open"
          nextID,    \* c.nextID
          toServer, toClient, peerOpen,  \* the socket behind conn
          daemon, orphans, executed      \* ovs-vswitchd

clientVars == <<mu, pc, ctx, req, ret, conn, nextID>>
socketVars == <<toServer, toClient, peerOpen>>
daemonVars == <<daemon, orphans, executed>>
vars == <<mu, pc, ctx, req, ret, conn, nextID, toServer, toClient, peerOpen,
          daemon, orphans, executed>>

Ids == Nat \ {0}
ReplyKinds == {"ok", "callError", "garbage"}
Replies == [kind : ReplyKinds, answers : Ids]
Contexts == {"live", "canceled", "expired"}
Places == {"idle", "lock", "ensure", "send", "recv", "close"}
InCall == {"lock", "ensure", "send", "recv"}
Critical == {"ensure", "send", "recv"}   \* places that hold the mutex

NoReturn == [kind |-> "none", answers |-> 0]
Failure == [kind |-> "error", answers |-> 0]
Returns == {NoReturn, Failure} \cup [kind : {"ok", "callError"}, answers : Ids]

Init ==
  /\ mu = Free
  /\ pc = [g \in Callers |-> "idle"]
  /\ ctx = [g \in Callers |-> "live"]
  /\ req = [g \in Callers |-> 0]
  /\ ret = [g \in Callers |-> NoReturn]
  /\ conn = "nil" /\ nextID = 0
  /\ toServer = <<>> /\ toClient = <<>> /\ peerOpen = FALSE
  /\ daemon \in {"up", "down"} /\ orphans = {} /\ executed = {}

-----------------------------------------------------------------------------
(* The client.                                                             *)

\* The deferred Unlock and the return of Call: g is done with result r.
Return(g, r) ==
  /\ pc' = [pc EXCEPT ![g] = "idle"]
  /\ ret' = [ret EXCEPT ![g] = r]
  /\ mu' = Free

\* The client's end is closed: replies it has not read are gone, a request the
\* daemon has not read stays readable on the daemon's end.
DisconnectLocked ==
  /\ conn' = "nil"
  /\ toServer' = <<>> /\ toClient' = <<>> /\ peerOpen' = FALSE
  /\ orphans' = orphans \cup ToSet(toServer)

\* A goroutine calls Call.  Its context may be over already.
CallBegins(g) ==
  /\ pc[g] = "idle"
  /\ nextID + Cardinality({h \in Callers : pc[h] \in {"lock", "ensure", "send"}})
       < MaxCalls
  /\ \E x \in Contexts : ctx' = [ctx EXCEPT ![g] = x]
  /\ pc' = [pc EXCEPT ![g] = "lock"]
  /\ req' = [req EXCEPT ![g] = 0]
  /\ ret' = [ret EXCEPT ![g] = NoReturn]
  /\ UNCHANGED <<mu, conn, nextID, socketVars, daemonVars>>

\* Seeded fault: Call does not take the mutex.
LockMissing(g) ==
  /\ pc[g] = "lock"
  /\ mu' = g
  /\ pc' = [pc EXCEPT ![g] = "ensure"]
  /\ UNCHANGED <<ctx, req, ret, conn, nextID, socketVars, daemonVars>>

Lock(g) ==
  /\ pc[g] = "lock" /\ mu = Free
  /\ mu' = g
  /\ pc' = [pc EXCEPT ![g] = "ensure"]
  /\ UNCHANGED <<ctx, req, ret, conn, nextID, socketVars, daemonVars>>

Reuse(g) ==
  /\ pc[g] = "ensure" /\ conn = "open"
  /\ pc' = [pc EXCEPT ![g] = "send"]
  /\ UNCHANGED <<mu, ctx, req, ret, conn, nextID, socketVars, daemonVars>>

\* DialContext gives up at once on a context that is over.
DialSucceeds(g) ==
  /\ pc[g] = "ensure" /\ conn = "nil"
  /\ ctx[g] = "live" /\ daemon = "up"
  /\ conn' = "open" /\ peerOpen' = TRUE
  /\ pc' = [pc EXCEPT ![g] = "send"]
  /\ UNCHANGED <<mu, ctx, req, ret, nextID, toServer, toClient, daemonVars>>

\* Seeded fault: the early return after a failed dial forgets to unlock.
DialFailsLocked(g) ==
  /\ pc[g] = "ensure" /\ conn = "nil"
  /\ pc' = [pc EXCEPT ![g] = "idle"]
  /\ ret' = [ret EXCEPT ![g] = Failure]
  /\ UNCHANGED <<mu, ctx, req, conn, nextID, socketVars, daemonVars>>

\* No socket found, refused, backlog full, dial timeout or context over.
DialFails(g) ==
  /\ pc[g] = "ensure" /\ conn = "nil"
  /\ Return(g, Failure)
  /\ UNCHANGED <<ctx, req, conn, nextID, socketVars, daemonVars>>

TakeID(g) ==
  /\ nextID' = nextID + 1
  /\ req' = [req EXCEPT ![g] = nextID']

\* A deadline in the past fails the write; a cancelled context does not.
Encode(g) ==
  /\ pc[g] = "send" /\ peerOpen /\ ctx[g] # "expired"
  /\ TakeID(g)
  /\ toServer' = Append(toServer, nextID')
  /\ pc' = [pc EXCEPT ![g] = "recv"]
  /\ UNCHANGED <<mu, ctx, ret, conn, toClient, peerOpen, daemonVars>>

EncodeFails(g) ==
  /\ pc[g] = "send" /\ (~peerOpen \/ ctx[g] = "expired")
  /\ TakeID(g)
  /\ DisconnectLocked
  /\ Return(g, Failure)
  /\ UNCHANGED <<ctx, daemon, executed>>

\* Seeded fault: the error of the decoder is not checked.
DecodeUnchecked(g) ==
  /\ pc[g] = "recv" /\ toClient # <<>>
  /\ toClient' = Tail(toClient)
  /\ Return(g, Head(toClient))
  /\ UNCHANGED <<ctx, req, conn, nextID, toServer, peerOpen, daemonVars>>

\* A reply that decodes is returned whatever its id, and keeps the connection.
Decode(g) ==
  /\ pc[g] = "recv" /\ toClient # <<>>
  /\ Head(toClient).kind # "garbage"
  /\ toClient' = Tail(toClient)
  /\ Return(g, Head(toClient))
  /\ UNCHANGED <<ctx, req, conn, nextID, toServer, peerOpen, daemonVars>>

\* Seeded fault: a failed read leaves the connection open for the next call.
DecodeFailsConnectionKept(g) ==
  /\ pc[g] = "recv"
  /\ Return(g, Failure)
  /\ UNCHANGED <<ctx, req, conn, nextID, socketVars, daemonVars>>

\* Seeded fault: SetDeadline is missing, a read ends on bad bytes or EOF only.
DecodeFailsNoDeadline(g) ==
  /\ pc[g] = "recv"
  /\ IF toClient = <<>> THEN ~peerOpen ELSE Head(toClient).kind = "garbage"
  /\ DisconnectLocked
  /\ Return(g, Failure)
  /\ UNCHANGED <<ctx, req, nextID, daemon, executed>>

\* Seeded fault: a failed read is retried on a new connection.
DecodeFailsRetried(g) ==
  /\ pc[g] = "recv"
  /\ DisconnectLocked
  /\ pc' = [pc EXCEPT ![g] = "ensure"]
  /\ UNCHANGED <<mu, ctx, req, ret, nextID, daemon, executed>>

\* The reply does not decode, the daemon hung up, or the deadline passes: it
\* may pass at any moment, the one at which the reply arrives included.
DecodeFails(g) ==
  /\ pc[g] = "recv"
  /\ DisconnectLocked
  /\ Return(g, Failure)
  /\ UNCHANGED <<ctx, req, nextID, daemon, executed>>

CloseBegins(g) ==
  /\ pc[g] = "idle"
  /\ pc' = [pc EXCEPT ![g] = "close"]
  /\ UNCHANGED <<mu, ctx, req, ret, conn, nextID, socketVars, daemonVars>>

\* Close locks, disconnects and unlocks without ever waiting in between.
Close(g) ==
  /\ pc[g] = "close" /\ mu = Free
  /\ DisconnectLocked
  /\ pc' = [pc EXCEPT ![g] = "idle"]
  /\ UNCHANGED <<mu, ctx, req, ret, nextID, daemon, executed>>

\* The context of a call in progress is cancelled or its deadline passes.
ContextEnds(g) ==
  /\ pc[g] \in InCall /\ ctx[g] = "live"
  /\ \E x \in {"canceled", "expired"} : ctx' = [ctx EXCEPT ![g] = x]
  /\ UNCHANGED <<mu, pc, req, ret, conn, nextID, socketVars, daemonVars>>

-----------------------------------------------------------------------------
(* The daemon (external).                                                  *)

Answer ==
  /\ daemon = "up" /\ peerOpen /\ toServer # <<>>
  /\ executed' = executed \cup {Head(toServer)}
  /\ toServer' = Tail(toServer)
  /\ \E k \in ReplyKinds :
       toClient' = Append(toClient, [kind |-> k, answers |-> Head(toServer)])
  /\ UNCHANGED <<clientVars, peerOpen, daemon, orphans>>

\* The daemon reads a request whose caller has given up on it.
AnswerOrphan ==
  /\ daemon = "up"
  /\ \E id \in orphans :
       /\ orphans' = orphans \ {id}
       /\ executed' = executed \cup {id}
  /\ UNCHANGED <<clientVars, socketVars, daemon>>

\* What the daemon had written stays readable; what it had not read is gone.
Crash ==
  /\ daemon = "up" /\ daemon' = "down"
  /\ peerOpen' = FALSE /\ toServer' = <<>> /\ orphans' = {}
  /\ UNCHANGED <<clientVars, toClient, executed>>

Restart ==
  /\ daemon = "down" /\ daemon' = "up"
  /\ UNCHANGED <<clientVars, socketVars, orphans, executed>>

-----------------------------------------------------------------------------
CallStep(g) ==
  \/ Reuse(g) \/ DialSucceeds(g) \/ DialFails(g)
  \/ Encode(g) \/ EncodeFails(g) \/ Decode(g) \/ DecodeFails(g)

Client(g) ==
  \/ CallBegins(g) \/ Lock(g) \/ CallStep(g)
  \/ CloseBegins(g) \/ Close(g) \/ ContextEnds(g)

Daemon == Answer \/ AnswerOrphan \/ Crash \/ Restart

Next == (\E g \in Callers : Client(g)) \/ Daemon

\* Every blocking step of Call has a deadline (DialTimeout, SetDeadline), hence
\* WF; sync.Mutex hands over in order once a waiter has starved, hence SF.
\* Nothing is assumed of the daemon.
Fairness == \A g \in Callers :
  /\ WF_vars(CallStep(g))
  /\ SF_vars(Lock(g))
  /\ SF_vars(Close(g))

Spec == Init /\ [][Next]_vars /\ Fairness

-----------------------------------------------------------------------------
(* Properties.                                                             *)

\* Every variable stays in its type.
TypeOK ==
  /\ mu \in Callers \cup {Free}
  /\ pc \in [Callers -> Places]
  /\ ctx \in [Callers -> Contexts]
  /\ req \in [Callers -> Nat]
  /\ ret \in [Callers -> Returns]
  /\ conn \in {"nil", "open"} /\ nextID \in Nat
  /\ toServer \in Seq(Ids) /\ toClient \in Seq(Replies) /\ peerOpen \in BOOLEAN
  /\ daemon \in {"up", "down"}
  /\ orphans \in SUBSET Ids /\ executed \in SUBSET Ids

\* A reply that Call returns answers the request of that very Call, although
\* client.go:102-111 never looks at the reply's id: no late reply of a call
\* that timed out, or of another goroutine's call, is ever handed over.
ReplyAnswersItsRequest ==
  \A g \in Callers : ret[g].answers # 0 => ret[g].answers = req[g]

\* Nothing is left on the connection when it is reused: bytes are in flight
\* only while the holder of the mutex waits for its reply, they are one
\* request or one reply, and they are that call's (client.go:74-112, 145-152).
OneInFlight ==
  toServer # <<>> \/ toClient # <<>> =>
    /\ mu \in Callers /\ pc[mu] = "recv"
    /\ Len(toServer) + Len(toClient) = 1
    /\ ToSet(toServer) \cup {toClient[i].answers : i \in DOMAIN toClient}
         = {req[mu]}

\* A Call that returns a transport failure leaves no connection behind, one
\* that returns a result or the daemon's error leaves the connection as it was
\* (client.go:71-73, 60-61).
FailureDropsConnection ==
  [][\A g \in Callers : pc[g] \in InCall /\ pc'[g] = "idle" =>
       IF ret'[g] = Failure THEN conn' = "nil"
       ELSE conn' = conn /\ peerOpen' = peerOpen]_vars

\* Every Call returns: no path keeps the mutex, and a daemon that hangs or
\* dies costs a deadline and not the goroutine (client.go:75-76, 88-92).
CallReturns ==
  \A g \in Callers : pc[g] = "lock" ~> pc[g] = "idle"

\* Close returns although it waits for calls in progress (client.go:115-120).
CloseReturns ==
  \A g \in Callers : pc[g] = "close" ~> pc[g] = "idle"

\* The client implements UnixctlCall: calls are executed at most once, also
\* when the daemon reads a request after its caller has given up.
Promise == INSTANCE UnixctlCall WITH
  phase <- [g \in Callers |-> IF pc[g] \in InCall THEN "open" ELSE "idle"]

ImplementsCall == Promise!Spec
=============================================================================
