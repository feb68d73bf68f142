---------------------------- MODULE OvsdbClient ----------------------------
(***************************************************************************)
(* internal/ovsdb/client.go and what main makes of it: Connect, which      *)
(* dials ovsdb-server and asks libovsdb to monitor the whole database,     *)
(* both under the ten seconds of connectCtx; the client main keeps, or a   *)
(* nil one until the exporter is restarted; Healthy, View and Close.       *)
(*                                                                         *)
(* libovsdb (inner) is external: it notices at any moment that the         *)
(* connection is gone, and dials again in the background, with success or  *)
(* not, until inner.Close.  What it does when its backoff gives up is not  *)
(* modelled: it goes on trying.                                            *)
(***************************************************************************)

VARIABLES connect,    \* the statement of Connect main is at
          inner,      \* libovsdb's connection
          ovsClient   \* what main keeps: "none" yet, "nil" or "set"

ovsdbVars == <<connect, inner, ovsClient>>

OvsdbInit == connect = "dial" /\ inner = "none" /\ ovsClient = "none"

\* Connect returns an error: main goes on without a client.
ConnectFails == connect' = "done" /\ ovsClient' = "nil"

\* A bad endpoint, no server, or the context is over.
DialOVSDBFails ==
  /\ connect = "dial"
  /\ ConnectFails
  /\ UNCHANGED inner

DialOVSDB ==
  /\ connect = "dial" /\ connect' = "monitor"
  /\ inner' = "connected"
  /\ UNCHANGED ovsClient

MonitorAll ==
  /\ connect = "monitor" /\ inner = "connected"
  /\ connect' = "done" /\ ovsClient' = "set"
  /\ UNCHANGED inner

\* Seeded fault: the connection that cannot be monitored is left to libovsdb.
MonitorAllFailsOpen ==
  /\ connect = "monitor"
  /\ ConnectFails
  /\ UNCHANGED inner

MonitorAllFails ==
  /\ connect = "monitor"
  /\ ConnectFails
  /\ inner' = "closed"

CloseOVSDB ==
  /\ ovsClient = "set" /\ inner' = "closed"
  /\ UNCHANGED <<connect, ovsClient>>

\* libovsdb: the connection is lost, and comes back.
ConnectionLost ==
  /\ inner = "connected" /\ inner' = "reconnecting"
  /\ UNCHANGED <<connect, ovsClient>>

Reconnected ==
  /\ inner = "reconnecting" /\ inner' = "connected"
  /\ UNCHANGED <<connect, ovsClient>>

\* Healthy, on a nil client as well; Connected is its second half.
Healthy == ovsClient = "set" /\ inner = "connected"

\* View: a client has one for good, connected or not.
View == ovsClient = "set"

OvsdbTypeOK ==
  /\ connect \in {"dial", "monitor", "done"}
  /\ inner \in {"none", "connected", "reconnecting", "closed"}
  /\ ovsClient \in {"none", "nil", "set"}
=============================================================================
