---------------------------- MODULE UnixctlCall ----------------------------
(***************************************************************************)
(* What internal/unixctl.Client promises to the goroutines that share it,  *)
(* with the socket, the mutex and the reconnects left out:                 *)
(*                                                                         *)
(*   - a call gets a number of its own and the daemon executes it at most  *)
(*     once (Call never resends, whatever went wrong);                     *)
(*   - a call that returns a reply returns the reply to its own request,   *)
(*     so the daemon has executed it;                                      *)
(*   - a call that returns an error promises nothing: the daemon may have  *)
(*     executed the request, may still execute it later, or never will.    *)
(*                                                                         *)
(* UnixctlClient implements this module (UnixctlClient!ImplementsCall).    *)
(***************************************************************************)
EXTENDS Naturals

CONSTANT Callers

VARIABLES phase,     \* phase[c]: whether c is inside Call
          req,       \* req[c]: number of c's request, 0 before it has one
          ret,       \* ret[c]: what c's last Call returned
          nextID,    \* last request number handed out
          executed   \* numbers of the requests the daemon has executed

callVars == <<phase, req, ret, nextID, executed>>

NoReturn == [kind |-> "none", answers |-> 0]
Failure == [kind |-> "error", answers |-> 0]
Reply(kind, id) == [kind |-> kind, answers |-> id]

Init ==
  /\ phase = [c \in Callers |-> "idle"]
  /\ req = [c \in Callers |-> 0]
  /\ ret = [c \in Callers |-> NoReturn]
  /\ nextID = 0
  /\ executed = {}

Begin(c) ==
  /\ phase[c] = "idle"
  /\ phase' = [phase EXCEPT ![c] = "open"]
  /\ req' = [req EXCEPT ![c] = 0]
  /\ ret' = [ret EXCEPT ![c] = NoReturn]
  /\ UNCHANGED <<nextID, executed>>

Number(c) ==
  /\ phase[c] = "open" /\ req[c] = 0
  /\ nextID' = nextID + 1
  /\ req' = [req EXCEPT ![c] = nextID']
  /\ UNCHANGED <<phase, ret, executed>>

Execute(id) ==
  /\ id \in (1 .. nextID) \ executed
  /\ executed' = executed \cup {id}
  /\ UNCHANGED <<phase, req, ret, nextID>>

Succeed(c, kind) ==
  /\ phase[c] = "open" /\ req[c] \in executed
  /\ phase' = [phase EXCEPT ![c] = "idle"]
  /\ ret' = [ret EXCEPT ![c] = Reply(kind, req[c])]
  /\ UNCHANGED <<req, nextID, executed>>

Fail(c) ==
  /\ phase[c] = "open"
  /\ phase' = [phase EXCEPT ![c] = "idle"]
  /\ ret' = [ret EXCEPT ![c] = Failure]
  /\ UNCHANGED <<req, nextID, executed>>

\* A request that was numbered but could not be written fails in one step.
NumberAndFail(c) ==
  /\ phase[c] = "open" /\ req[c] = 0
  /\ nextID' = nextID + 1
  /\ req' = [req EXCEPT ![c] = nextID']
  /\ phase' = [phase EXCEPT ![c] = "idle"]
  /\ ret' = [ret EXCEPT ![c] = Failure]
  /\ UNCHANGED executed

Next ==
  \/ \E c \in Callers : Begin(c) \/ Number(c) \/ Fail(c) \/ NumberAndFail(c)
  \/ \E c \in Callers, kind \in {"ok", "callError"} : Succeed(c, kind)
  \/ \E id \in 1 .. nextID : Execute(id)

Spec == Init /\ [][Next]_callVars
=============================================================================
