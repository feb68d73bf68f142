----------------------------- MODULE Readiness -----------------------------
(***************************************************************************)
(* /readyz over the OvsdbClient and the Scraper (probes/ready.go,          *)
(* buildReadyChecks): a request asks the two checks one after the other,   *)
(* in the order of their names, each at its own moment, while libovsdb     *)
(* loses and regains its connection, the scraper publishes and time goes   *)
(* by, and answers 200 if both have passed.  main starts the scraper and   *)
(* the server after Connect has returned, with a client or without one.    *)
(*                                                                         *)
(* Requests only read, so one at a time stands for any number of them.     *)
(***************************************************************************)
EXTENDS Scraper, OvsdbClient

VARIABLES check,   \* the check a request is about to ask
          allOK,   \* no check it has asked has failed
          answer,  \* status of the last answer, 0 while there is none
          served   \* history: some request has been answered 200

requestVars == <<check, allOK, answer, served>>
readinessVars == <<vars, ovsdbVars, requestVars>>

ReadinessInit ==
  /\ Init /\ OvsdbInit
  /\ check = "idle" /\ allOK = TRUE /\ answer = 0 /\ served = FALSE

Started == ovsClient # "none"

-----------------------------------------------------------------------------
(* probes.Ready.                                                           *)

Request ==
  /\ Started /\ check = "idle"
  /\ check' = "ovsdb" /\ allOK' = TRUE /\ answer' = 0
  /\ UNCHANGED <<vars, ovsdbVars, served>>

CheckOVSDB ==
  /\ check = "ovsdb" /\ check' = "unixctl-ovs"
  /\ allOK' = (allOK /\ Healthy)
  /\ UNCHANGED <<vars, ovsdbVars, answer, served>>

Respond(ok) ==
  /\ check' = "idle" /\ allOK' = TRUE
  /\ answer' = IF ok THEN 200 ELSE 503
  /\ served' = (served \/ ok)

\* Seeded fault: the last check decides.
CheckUnixctlLast ==
  /\ check = "unixctl-ovs"
  /\ Respond(Ready)
  /\ UNCHANGED <<vars, ovsdbVars>>

CheckUnixctl ==
  /\ check = "unixctl-ovs"
  /\ Respond(allOK /\ Ready)
  /\ UNCHANGED <<vars, ovsdbVars>>

-----------------------------------------------------------------------------
Connect == DialOVSDB \/ DialOVSDBFails \/ MonitorAll \/ MonitorAllFails

Scraping ==
  /\ Started
  /\ Next
  /\ UNCHANGED <<ovsdbVars, requestVars>>

\* main closes the client during shutdown only, while requests that outlive
\* server.Shutdown go on.
Ovsdb ==
  /\ \/ Connect \/ ConnectionLost \/ Reconnected
     \/ ctx = "canceled" /\ CloseOVSDB
  /\ UNCHANGED <<vars, requestVars>>

ReadinessNext ==
  \/ Scraping \/ Ovsdb
  \/ Request \/ CheckOVSDB \/ CheckUnixctl

\* As for the scraper; Connect has a deadline, handlers run.
ReadinessFairness ==
  /\ Fairness
  /\ WF_readinessVars(Connect /\ UNCHANGED <<vars, requestVars>>)
  /\ WF_readinessVars(CheckOVSDB) /\ WF_readinessVars(CheckUnixctl)

ReadinessSpec ==
  ReadinessInit /\ [][ReadinessNext]_readinessVars /\ ReadinessFairness

-----------------------------------------------------------------------------
(* Properties.                                                             *)

\* Every variable stays in its type; a connection of libovsdb, which dials
\* again for ever, belongs to a client that main can close or to a Connect in
\* progress (client.go:77-81).
ReadinessTypeOK ==
  /\ TypeOK /\ OvsdbTypeOK
  /\ check \in {"idle", "ovsdb", "unixctl-ovs"}
  /\ allOK \in BOOLEAN /\ served \in BOOLEAN /\ answer \in {0, 200, 503}
  /\ inner \in {"connected", "reconnecting"} =>
       connect = "monitor" \/ ovsClient = "set"

\* From the first 200 of /readyz on the collectors have both sources for good: a
\* view, and a snapshot with something in it, whatever is lost and fails later.
\* So no exporter without an ovsdb client is ever put into rotation
\* (ready.go:28-40, scraper.go:116-125, ovs_exporter.go:157-161).
ServedHasSources ==
  served => View /\ (pc # "store" => snap # None /\ snap.fields # {})

\* Once the daemon answers and ovsdb is connected for good, /readyz answers 200 to
\* every request from some moment on and there is a complete snapshot, however it
\* began (scraper.go:135-148; ovs_exporter.go:263-272).
ReadyzRecovers ==
  <>[](healthy /\ ctx = "live" /\ Healthy) =>
    /\ <>[][check # "idle" /\ check' = "idle" => answer' = 200]_readinessVars
    /\ <>[](snap # None /\ snap.fields = Names)
=============================================================================
