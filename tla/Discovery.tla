----------------------------- MODULE Discovery -----------------------------
(***************************************************************************)
(* How a unixctl Client finds ovs-vswitchd again: DiscoverSocket and the   *)
(* dial of ensureConnectedLocked (discover.go, client.go:122-143) against  *)
(* a run directory that the daemon changes meanwhile.  DiscoverSocket      *)
(* reads the directory three times (pid file, stat, glob) and the dial is  *)
(* a fourth look, with a daemon that can start, die or exit in between.    *)
(*                                                                         *)
(* Pids are numbered in the order in which the glob sorts their sockets'   *)
(* names.  The daemon is external: run with --pidfile it writes its pid    *)
(* file; then it binds <daemon>.<pid>.ctl (replacing a leftover of that    *)
(* name); an exit removes both files, a crash leaves them behind.          *)
(***************************************************************************)
EXTENDS Naturals, FiniteSetsExt

CONSTANT MaxPid  \* bound: pids are 1 .. MaxPid

ASSUME MaxPidAssumption == MaxPid \in Nat \ {0}

VARIABLES pidFile,   \* what the pid file says, NoPid: none that can be read
          sockets,   \* pids whose socket file exists
          alive,     \* pid of the running daemon
          bound,     \* that daemon listens on its socket
          pc,        \* where ensureConnectedLocked is; "up": connected
          path,      \* pid whose socket path is being looked at
          peer,      \* the daemon at the other end of conn is the running one
          steady     \* history: the directory has been right, and has not
                     \* changed, since this discovery began

dirVars == <<pidFile, sockets, alive, bound>>
callVars == <<pc, path>>
vars == <<pidFile, sockets, alive, bound, pc, path, peer, steady>>

NoPid == 0
Pids == 1 .. MaxPid

\* A daemon listens, and if there is a pid file it names that daemon.
Right == bound /\ pidFile = alive

Init ==
  /\ pidFile \in Pids \cup {NoPid} /\ sockets \in SUBSET Pids
  /\ alive = NoPid /\ bound = FALSE
  /\ pc = "down" /\ path = NoPid /\ peer = FALSE /\ steady = FALSE

-----------------------------------------------------------------------------
(* ensureConnectedLocked, when there is no connection.                     *)

\* Seeded fault: the glob goes first and the pid file is the fallback.
ReadPidFileLast ==
  /\ pc = "down"
  /\ steady' = Right
  /\ IF sockets # {} THEN pc' = "glob" /\ UNCHANGED path
                     ELSE pc' = "stat" /\ path' = pidFile
  /\ UNCHANGED <<dirVars, peer>>

\* Seeded fault: the error of reading the pid file is ignored.
ReadPidFileUnchecked ==
  /\ pc = "down"
  /\ steady' = Right
  /\ pc' = "stat" /\ path' = pidFile
  /\ UNCHANGED <<dirVars, peer>>

\* socketFromPIDFile.
ReadPidFile ==
  /\ pc = "down"
  /\ steady' = Right
  /\ IF pidFile = NoPid THEN pc' = "glob" /\ UNCHANGED path
                        ELSE pc' = "stat" /\ path' = pidFile
  /\ UNCHANGED <<dirVars, peer>>

Stat ==
  /\ pc = "stat"
  /\ pc' = IF path \in sockets THEN "dial" ELSE "glob"
  /\ UNCHANGED <<dirVars, path, peer, steady>>

\* The first match of the sorted glob, or an error when there is none.
Glob ==
  /\ pc = "glob"
  /\ IF sockets = {} THEN pc' = "down" /\ UNCHANGED path
                     ELSE pc' = "dial" /\ path' = Min(sockets)
  /\ UNCHANGED <<dirVars, peer, steady>>

\* A socket file nobody listens on refuses, a missing one does not exist.
Dial ==
  /\ pc = "dial"
  /\ IF bound /\ alive = path THEN pc' = "up" /\ peer' = TRUE
                              ELSE pc' = "down" /\ UNCHANGED peer
  /\ UNCHANGED <<dirVars, path, steady>>

\* Seeded fault: the error does not reset the connection.
CallFailsConnectionKept ==
  /\ pc = "up" /\ ~peer
  /\ UNCHANGED vars

\* A Call on a connection whose daemon is gone fails and disconnects.
CallFails ==
  /\ pc = "up" /\ ~peer
  /\ pc' = "down"
  /\ UNCHANGED <<dirVars, path, peer, steady>>

-----------------------------------------------------------------------------
(* The daemon and the directory (external).                                *)

\* With --pidfile or without.
Start ==
  /\ alive = NoPid
  /\ alive' \in Pids
  /\ pidFile' \in {alive', pidFile}
  /\ steady' = FALSE
  /\ UNCHANGED <<sockets, bound, callVars, peer>>

Bind ==
  /\ alive # NoPid /\ ~bound
  /\ bound' = TRUE /\ sockets' = sockets \cup {alive}
  /\ steady' = FALSE
  /\ UNCHANGED <<pidFile, alive, callVars, peer>>

Dies ==
  /\ alive # NoPid
  /\ alive' = NoPid /\ bound' = FALSE /\ peer' = FALSE /\ steady' = FALSE

\* Killed: the files stay.
Crash ==
  /\ Dies
  /\ UNCHANGED <<pidFile, sockets, callVars>>

\* Exits: the files go.
Exit ==
  /\ Dies
  /\ sockets' = sockets \ {alive}
  /\ pidFile' = IF pidFile = alive THEN NoPid ELSE pidFile
  /\ UNCHANGED callVars

-----------------------------------------------------------------------------
Discover == ReadPidFile \/ Stat \/ Glob \/ Dial \/ CallFails

Next == Discover \/ Start \/ Bind \/ Crash \/ Exit

\* Every refresh makes calls, so a client without a connection keeps trying; a
\* daemon that has started goes on to bind its socket.
Spec == Init /\ [][Next]_vars /\ WF_vars(Discover) /\ WF_vars(Bind)

-----------------------------------------------------------------------------
(* Properties.                                                             *)

\* Every variable stays in its type, and a path is looked at or dialled only
\* after a pid has been found for it (discover.go:23-27, 32-35).
TypeOK ==
  /\ pidFile \in Pids \cup {NoPid} /\ sockets \in SUBSET Pids
  /\ alive \in Pids \cup {NoPid} /\ bound \in BOOLEAN
  /\ pc \in {"down", "stat", "glob", "dial", "up"}
  /\ path \in Pids \cup {NoPid} /\ (pc \in {"stat", "dial", "up"} => path \in Pids)
  /\ peer \in BOOLEAN /\ steady \in BOOLEAN

\* With a pid file that names the listening daemon, the first attempt connects,
\* whatever sockets earlier daemons have left behind (discover.go:23-27).
LeftoversDoNoHarm ==
  steady => /\ pc \in {"stat", "dial", "up"}
            /\ path = alive
            /\ pc = "up" => peer

\* The client ends up connected to a daemon that stays up and whose pid file
\* names it, or whose socket is the only one although the pid file is missing
\* or an earlier daemon's (discover.go:13-15, 23-35; client.go:145-152).
FindsDaemon ==
  <>[](bound /\ (pidFile = alive \/ sockets = {alive})) =>
    <>[](pc = "up" /\ peer)

\* internal/unixctl/README.md:7: once a daemon stays up, the client finds its
\* socket, although the pid has changed.
Reconnects ==
  <>[](alive # NoPid) => <>[](pc = "up" /\ peer)
=============================================================================
