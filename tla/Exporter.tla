------------------------------ MODULE Exporter ------------------------------
(***************************************************************************)
(* main of ovs_exporter.go around a UnixctlClient shared by two goroutines:*)
(* the scraper, which makes the calls of its refreshes one after the other *)
(* until scrapeCtx is over and is never waited for, and main, which starts *)
(* everything, waits for a signal or for the HTTP server to fail, and then *)
(* takes everything down in a fixed order while the scraper, the HTTP      *)
(* handlers and the periodic metric readers are still running.             *)
(*                                                                         *)
(* A metric reader collects by running the registered callbacks, which     *)
(* read the ovsdb cache and the snapshot, under its pipeline's lock; taking*)
(* a callback out waits for that lock (OpenTelemetry SDK, external).       *)
(* HTTP is the reader behind /metrics: it collects while a request is      *)
(* served.  Bounds: Calls per refresh, and MaxCalls of UnixctlClient.      *)
(*                                                                         *)
(* Time is counted, in units, where the shutdown waits for the mutex of    *)
(* the unixctl client: what it waits there is missing from the ten seconds *)
(* that main has set aside for the pipelines (shutdownCtx).                *)
(***************************************************************************)
EXTENDS UnixctlClient

CONSTANTS Readers,  \* metric readers: /metrics and the push exporters
          HTTP,     \* the reader behind /metrics
          Calls,    \* unixctl calls of one refresh
          DialTimeout, CallTimeout  \* of the unixctl client

ASSUME ReadersAssumption == HTTP \in Readers
ASSUME GoroutinesAssumption == Callers = {"main", "scraper"}
ASSUME CallsAssumption == Calls \in Nat \ {0}
ASSUME TimeoutsAssumption == DialTimeout \in Nat /\ CallTimeout \in Nat

VARIABLES stage,       \* the statement main is at
          signaled,    \* rootCtx is done
          cancelled,   \* scrapeCancel has been called
          listen,      \* the server goroutine
          exitCode,
          ovsdb,       \* ovsClient
          registered,  \* readers that still run the collectors' callbacks
          reader,      \* reader[r]: whether r is collecting
          run,         \* where the scraper's Run is
          made,        \* calls made by its refresh
          waited,      \* how long main has waited for the client's mutex
          spent,       \* how long the call in progress has been in its dial,
                       \* then in its exchange, while main waits
          starving     \* the mutex is in starvation mode, in favour of main

mainVars == <<stage, signaled, cancelled, listen, exitCode, ovsdb, registered>>
scraperVars == <<run, made>>
waitVars == <<waited, spent, starving>>
exporterVars == <<stage, signaled, cancelled, listen, exitCode, ovsdb,
                  registered, reader, run, made, waited, spent, starving>>
allVars == <<vars, exporterVars>>

ScrapeDone == signaled \/ cancelled

ExporterInit ==
  /\ Init
  /\ stage = "connect" /\ signaled = FALSE /\ cancelled = FALSE
  /\ listen = "off" /\ exitCode = 0 /\ ovsdb = "none"
  /\ registered = {} /\ reader = [r \in Readers |-> "idle"]
  /\ run = "off" /\ made = 0
  /\ waited = 0 /\ spent = 0 /\ starving = FALSE

-----------------------------------------------------------------------------
(* main: startup.                                                          *)

GoTo(s) == stage' = s

\* Best effort: without ovsdb the exporter runs on.
ConnectOVSDB ==
  /\ stage = "connect" /\ GoTo("register")
  /\ ovsdb' \in {"open", "none"}
  /\ UNCHANGED <<vars, signaled, cancelled, listen, exitCode, registered,
                 reader, scraperVars, waitVars>>

\* RegisterAll, go Run, go ListenAndServe.
RegisterAndStart ==
  /\ stage = "register" /\ GoTo("select")
  /\ registered' = Readers
  /\ run' = "refresh" /\ listen' = "serving"
  /\ UNCHANGED <<vars, signaled, cancelled, exitCode, ovsdb, reader, made, waitVars>>

\* Every os.Exit(1) before the select.
StartupFails ==
  /\ stage \in {"connect", "register"} /\ GoTo("exited")
  /\ exitCode' = 1
  /\ UNCHANGED <<vars, signaled, cancelled, listen, ovsdb, registered, reader,
                 scraperVars, waitVars>>

\* SIGINT or SIGTERM: rootCtx and with it scrapeCtx are done.
CancelScrape ==
  ctx' = [ctx EXCEPT !["scraper"] =
            IF pc["scraper"] \in InCall /\ @ = "live" THEN "canceled" ELSE @]

Signal ==
  /\ ~signaled /\ signaled' = TRUE
  /\ CancelScrape
  /\ UNCHANGED <<mu, pc, req, ret, conn, nextID, socketVars, daemonVars,
                 stage, cancelled, listen, exitCode, ovsdb, registered,
                 reader, scraperVars, waitVars>>

ListenFails ==
  /\ listen = "serving" /\ listen' = "failed"
  /\ UNCHANGED <<vars, stage, signaled, cancelled, exitCode, ovsdb,
                 registered, reader, scraperVars, waitVars>>

-----------------------------------------------------------------------------
(* main: the select and the shutdown.                                      *)

SelectServeErr ==
  /\ stage = "select" /\ listen = "failed"
  /\ GoTo("cancel") /\ exitCode' = 1
  /\ UNCHANGED <<vars, signaled, cancelled, listen, ovsdb, registered, reader,
                 scraperVars, waitVars>>

SelectSignal ==
  /\ stage = "select" /\ signaled
  /\ GoTo("cancel")
  /\ UNCHANGED <<vars, signaled, cancelled, listen, exitCode, ovsdb,
                 registered, reader, scraperVars, waitVars>>

\* Seeded fault: scrapeCancel is deferred only, rootCtx is relied upon.
ScrapeCancelDeferred ==
  /\ stage = "cancel" /\ GoTo("listener")
  /\ UNCHANGED <<vars, signaled, cancelled, listen, exitCode, ovsdb,
                 registered, reader, scraperVars, waitVars>>

ScrapeCancel ==
  /\ stage = "cancel" /\ GoTo("listener")
  /\ cancelled' = TRUE
  /\ CancelScrape
  /\ UNCHANGED <<mu, pc, req, ret, conn, nextID, socketVars, daemonVars,
                 signaled, listen, exitCode, ovsdb, registered, reader,
                 scraperVars, waitVars>>

\* server.Shutdown stops accepting, then waits for requests or for shutdownCtx.
CloseListener ==
  /\ stage = "listener" /\ GoTo("drain")
  /\ listen' = "closed"
  /\ UNCHANGED <<vars, signaled, cancelled, exitCode, ovsdb, registered,
                 reader, scraperVars, waitVars>>

\* Seeded fault: the clients are closed before the callbacks are taken out.
ShutdownReturnsToClients ==
  /\ stage = "drain" /\ GoTo("unixctl")
  /\ UNCHANGED <<vars, signaled, cancelled, listen, exitCode, ovsdb,
                 registered, reader, scraperVars, waitVars>>

ShutdownReturns ==
  /\ stage = "drain" /\ GoTo("unregister")
  /\ UNCHANGED <<vars, signaled, cancelled, listen, exitCode, ovsdb,
                 registered, reader, scraperVars, waitVars>>

\* group.Close: Unregister of every callback, one pipeline at a time.  Collector by
\* collector, and failing, it is in Registry; main goes on after an error.
Unregister(r) ==
  /\ stage = "unregister" /\ r \in registered /\ reader[r] = "idle"
  /\ registered' = registered \ {r}
  /\ IF registered' = {} THEN GoTo("unixctl") ELSE UNCHANGED stage
  /\ UNCHANGED <<vars, signaled, cancelled, listen, exitCode, ovsdb, reader,
                 scraperVars, waitVars>>

\* How long the dial or the exchange the scraper is in can go on, from its start:
\* a dial ends with its context, a read at the deadline of the connection only.
Dialling == pc["scraper"] = "ensure" /\ conn = "nil" /\ ctx["scraper"] = "live"
Deadline ==
  CASE Dialling -> DialTimeout
    [] pc["scraper"] = "recv" -> CallTimeout
    [] OTHER -> 0

\* unixClient.Close waits for the mutex of the client; it finds a call in progress
\* at any moment of it.
CloseUnixctl ==
  /\ stage = "unixctl"
  /\ \/ /\ CloseBegins("main") /\ UNCHANGED stage
        /\ spent' \in 0 .. Deadline
        /\ UNCHANGED <<waited, starving>>
     \/ /\ Close("main") /\ GoTo("ovsdb")
        /\ waited' = 0 /\ spent' = 0 /\ starving' = FALSE
  /\ UNCHANGED <<signaled, cancelled, listen, exitCode, ovsdb, registered,
                 reader, scraperVars>>

\* A unit of time in which the scraper keeps the mutex main waits for.
Wait ==
  /\ pc["main"] = "close" /\ spent < Deadline
  /\ spent' = spent + 1 /\ waited' = waited + 1
  /\ UNCHANGED <<vars, mainVars, reader, scraperVars, starving>>

CloseOVSDB ==
  /\ stage = "ovsdb" /\ GoTo("otel")
  /\ ovsdb' = IF ovsdb = "open" THEN "closed" ELSE ovsdb
  /\ UNCHANGED <<vars, signaled, cancelled, listen, exitCode, registered,
                 reader, scraperVars, waitVars>>

\* otelResult.Shutdown, then os.Exit, which ends every goroutine.
ShutdownOtel ==
  /\ stage = "otel" /\ GoTo("exited")
  /\ UNCHANGED <<vars, signaled, cancelled, listen, exitCode, ovsdb,
                 registered, reader, scraperVars, waitVars>>

Main ==
  \/ ConnectOVSDB \/ RegisterAndStart \/ SelectServeErr \/ SelectSignal
  \/ ScrapeCancel \/ CloseListener \/ ShutdownReturns
  \/ CloseUnixctl \/ CloseOVSDB \/ ShutdownOtel

-----------------------------------------------------------------------------
(* The metric readers.                                                     *)

\* A push exporter's timer fires, or a request for /metrics is accepted.
Collect(r) ==
  /\ reader[r] = "idle"
  /\ r = HTTP => listen = "serving"
  /\ reader' = [reader EXCEPT ![r] = "collecting"]
  /\ UNCHANGED <<vars, mainVars, scraperVars, waitVars>>

Collected(r) ==
  /\ reader[r] = "collecting"
  /\ reader' = [reader EXCEPT ![r] = "idle"]
  /\ UNCHANGED <<vars, mainVars, scraperVars, waitVars>>

-----------------------------------------------------------------------------
(* The scraper goroutine: Run, its refresh, and the calls.                 *)

\* Seeded fault: a refresh goes on calling.
BeginCallAgain ==
  /\ run = "refresh"
  /\ CallBegins("scraper")
  /\ ctx'["scraper"] = IF ScrapeDone THEN "canceled" ELSE "live"
  /\ UNCHANGED exporterVars

BeginCall ==
  /\ run = "refresh" /\ made < Calls
  /\ CallBegins("scraper")
  /\ ctx'["scraper"] = IF ScrapeDone THEN "canceled" ELSE "live"
  /\ UNCHANGED exporterVars

\* sync.Mutex: a waiter that is overtaken once it has waited for long enough (a
\* millisecond; here, a unit) is the next to get the mutex.
StepCall ==
  /\ \/ /\ ~starving /\ Lock("scraper")
        /\ starving' = (pc["main"] = "close" /\ waited > 0)
     \/ CallStep("scraper") /\ UNCHANGED starving
  /\ made' = IF pc'["scraper"] = "idle" THEN made + 1 ELSE made
  /\ spent' = 0 /\ UNCHANGED waited
  /\ UNCHANGED <<mainVars, reader, run>>

RefreshReturns ==
  /\ run = "refresh" /\ made = Calls
  /\ run' = "select"
  /\ UNCHANGED <<vars, mainVars, reader, made, waitVars>>

SelectTick ==
  /\ run = "select"
  /\ run' = "refresh" /\ made' = 0
  /\ UNCHANGED <<vars, mainVars, reader, waitVars>>

SelectDone ==
  /\ run = "select" /\ ScrapeDone
  /\ run' = "done"
  /\ UNCHANGED <<vars, mainVars, reader, made, waitVars>>

ScraperRun == BeginCall \/ StepCall \/ RefreshReturns \/ SelectTick \/ SelectDone

-----------------------------------------------------------------------------
Process ==
  /\ stage # "exited"
  /\ \/ Main \/ StartupFails \/ ListenFails \/ Signal \/ Wait
     \/ ScraperRun
     \/ \E r \in Readers : Unregister(r) \/ Collect(r) \/ Collected(r)

ExporterNext == Process \/ (Daemon /\ UNCHANGED exporterVars)

\* main runs; a mutex (the client's, a pipeline's) is handed over in order
\* once a waiter has starved; callbacks end; calls have deadlines.
ExporterFairness ==
  /\ WF_allVars(Main) /\ SF_allVars(CloseUnixctl)
  /\ WF_allVars(StepCall)
  /\ \A r \in Readers : WF_allVars(Collected(r)) /\ SF_allVars(Unregister(r))

ExporterSpec == ExporterInit /\ [][ExporterNext]_allVars /\ ExporterFairness

-----------------------------------------------------------------------------
(* Properties.                                                             *)

Stages == {"connect", "register", "select", "cancel", "listener", "drain",
           "unregister", "unixctl", "ovsdb", "otel", "exited"}

\* Every variable stays in its type; a refresh makes no more than its calls.
ExporterTypeOK ==
  /\ TypeOK
  /\ stage \in Stages /\ signaled \in BOOLEAN /\ cancelled \in BOOLEAN
  /\ listen \in {"off", "serving", "failed", "closed"} /\ exitCode \in {0, 1}
  /\ ovsdb \in {"none", "open", "closed"}
  /\ registered \in SUBSET Readers
  /\ reader \in [Readers -> {"idle", "collecting"}]
  /\ run \in {"off", "refresh", "select", "done"} /\ made \in 0 .. Calls
  /\ waited \in Nat /\ spent \in 0 .. Deadline /\ starving \in BOOLEAN

\* The collectors' callbacks run on open sources only, also when a reader or a
\* request outlives server.Shutdown: group.Close comes before the clients are
\* closed and waits for callbacks in progress (ovs_exporter.go:239-252).
CallbacksReadOpenSources ==
  \A r \in Readers : reader[r] = "collecting" /\ r \in registered =>
    ovsdb # "closed" /\ stage \notin {"ovsdb", "otel", "exited"}

\* Once unixClient.Close has returned, no connection is opened again by the
\* scraper nobody waited for: its context is done, its dials fail
\* (ovs_exporter.go:235, 245; client.go:134-138).
ClosedForGood ==
  stage \in {"ovsdb", "otel"} => conn = "nil"

\* main waits no longer for the client's mutex than two exchanges can take, the one
\* in progress and one that overtakes it on the same connection: a failed exchange
\* leaves no connection, and dials have been cancelled.  So much of the ten seconds
\* of shutdownCtx may be missing when the pipelines are flushed, and no more
\* (ovs_exporter.go:235-253; client.go:75, 88-92, 134-138).
PipelinesKeepTheirTime == waited <= 2 * CallTimeout

\* A signal or a dead server ends the process, although server.Shutdown, the
\* pipelines' locks and the client's mutex all wait for somebody else
\* (ovs_exporter.go:224-256).
Exits == signaled \/ listen = "failed" ~> stage = "exited"
=============================================================================
