----------------------------- MODULE OtelSetup -----------------------------
(***************************************************************************)
(* internal/otel: Setup, from the environment variables main has read to   *)
(* the pipeline it installs, by flags (otel.go) or by a configuration file *)
(* (config_file.go), the routes main then serves, and the Shutdown that    *)
(* Setup returns.  Every constructor may fail; Setup then returns at once, *)
(* and main exits.                                                         *)
(*                                                                         *)
(* autoexport and otelconf are external.  autoexport builds what the       *)
(* environment variable of the signal names at that moment.  otelconf      *)
(* parses OTEL_CONFIG_FILE again if it is set, and then and when the       *)
(* configuration has no meter provider the reader that Setup hands it is   *)
(* dropped.                                                                *)
(***************************************************************************)
EXTENDS Naturals, SequencesExt

CONSTANTS Kinds,    \* exporters autoexport knows, other than prometheus
          MaxList,  \* bound: entries of OTEL_METRICS_EXPORTER
          Unset,    \* an environment variable that is not set
          Paths     \* values of --web.telemetry-path

Prometheus == "prometheus"
None == <<"none">>

ASSUME KindsAssumption == "none" \in Kinds /\ Prometheus \notin Kinds /\ "" \notin Kinds
ASSUME MaxListAssumption == MaxList \in Nat

VARIABLES found,      \* history: the environment main has read
          env,        \* the environment
          prom,       \* cfg.PrometheusEnabled
          path,       \* --web.telemetry-path
          file,       \* meter_provider of the configuration file
          pc,         \* where Setup, main or Shutdown is
          kinds,      \* pushKinds still to be built
          readers,    \* readers built, in a sequence as none may come twice
          handler,    \* promHandler is not nil
          installed,  \* readers of the meter provider that is installed
          routes,     \* what the HTTP server serves: patterns and handlers
          running,    \* providers that have been built and not shut down
          shutdowns   \* what Shutdown calls

inputs == <<found, prom, path, file>>
built == <<readers, handler, installed, running, shutdowns>>
vars == <<found, env, prom, path, file, pc, kinds, readers, handler, installed,
          routes, running, shutdowns>>

Lists == BoundedSeq(Kinds \cup {Prometheus, ""}, MaxList)
Single == {<<k>> : k \in Kinds}

\* main falls back to "none" for what is not set.
Selector(v) == IF env[v] \in {Unset, <<>>} THEN None ELSE env[v]

Init ==
  /\ found \in [metrics : Lists \cup {Unset}, traces : Single \cup {Unset},
                logs : Single \cup {Unset}, config : {"file", Unset}]
  /\ env = found
  /\ prom \in BOOLEAN /\ path \in Paths /\ file \in {"absent", "push", "pull"}
  /\ pc = "setup" /\ kinds = <<>> /\ readers = <<>> /\ handler = FALSE
  /\ installed = <<>> /\ routes = {} /\ running = {} /\ shutdowns = <<>>

\* return nil, err.
Fail ==
  /\ pc' = "failed"
  /\ UNCHANGED <<inputs, kinds, built>>

-----------------------------------------------------------------------------
(* The flags.                                                              *)

\* What the loop keeps of the first n entries: empty ones, prometheus and what
\* has been seen are skipped.
Kept(s) ==
  LET out[n \in 0 .. Len(s)] ==
        IF n = 0 THEN <<>>
        ELSE IF s[n] \in {"", Prometheus} \/ Contains(out[n - 1], s[n]) THEN out[n - 1]
        ELSE Append(out[n - 1], s[n])
  IN  out

\* "none" alone selects nothing.
ParsePushExporters(s) == IF s = None THEN <<>> ELSE Kept(s)[Len(s)]

BuildResource ==
  /\ pc = "setup" /\ env.config = Unset
  /\ UNCHANGED env
  /\ \/ pc' = "prom" /\ UNCHANGED <<inputs, kinds, built>>
     \/ Fail

AddPromReader ==
  /\ readers' = IF prom THEN Append(readers, Prometheus) ELSE readers
  /\ handler' = prom

BuildPromReader ==
  /\ pc = "prom"
  /\ UNCHANGED env
  /\ \/ /\ pc' = "kinds"
        /\ kinds' = ParsePushExporters(Selector("metrics"))
        /\ AddPromReader
        /\ UNCHANGED <<inputs, installed, running, shutdowns>>
     \/ prom /\ Fail

SetEnvScoped ==
  /\ pc = "kinds" /\ kinds # <<>> /\ pc' = "reader"
  /\ env' = [env EXCEPT !.metrics = <<Head(kinds)>>]
  /\ UNCHANGED <<inputs, kinds, built>>

Restore == env' = [env EXCEPT !.metrics = found.metrics]

\* Seeded fault: the variable is restored on success only.
NewMetricReaderNotDeferred ==
  /\ pc = "reader"
  /\ \/ /\ pc' = "kinds" /\ Restore
        /\ readers' = Append(readers, Head(env.metrics)) /\ kinds' = Tail(kinds)
        /\ UNCHANGED <<inputs, handler, installed, running, shutdowns>>
     \/ UNCHANGED env /\ Fail

\* autoexport.NewMetricReader; restore is deferred.
NewMetricReader ==
  /\ pc = "reader"
  /\ Restore
  /\ \/ /\ pc' = "kinds"
        /\ readers' = Append(readers, Head(env.metrics)) /\ kinds' = Tail(kinds)
        /\ UNCHANGED <<inputs, handler, installed, running, shutdowns>>
     \/ Fail

\* Seeded fault: the meter provider is not listed for Shutdown.
InstallMeterProviderUnlisted ==
  /\ pc = "kinds" /\ kinds = <<>> /\ pc' = "traces"
  /\ installed' = readers /\ running' = running \cup {"metrics"}
  /\ UNCHANGED <<inputs, env, kinds, readers, handler, shutdowns>>

InstallMeterProvider ==
  /\ pc = "kinds" /\ kinds = <<>> /\ pc' = "traces"
  /\ installed' = readers /\ running' = running \cup {"metrics"}
  /\ shutdowns' = Append(shutdowns, "metrics")
  /\ UNCHANGED <<inputs, env, kinds, readers, handler>>

\* The tracer provider, then the logger provider.  The variable is set to the
\* value it already has.
BuildProvider(signal, after) ==
  /\ pc = signal
  /\ UNCHANGED env
  /\ \/ /\ Selector(signal) = None /\ pc' = after
        /\ UNCHANGED <<inputs, kinds, built>>
     \/ /\ Selector(signal) # None /\ pc' = after
        /\ running' = running \cup {signal} /\ shutdowns' = Append(shutdowns, signal)
        /\ UNCHANGED <<inputs, kinds, readers, handler, installed>>
     \/ Selector(signal) # None /\ Fail

BuildTracerProvider == BuildProvider("traces", "logs")
BuildLoggerProvider == BuildProvider("logs", "built")

-----------------------------------------------------------------------------
(* The configuration file.                                                 *)

\* Read and parsed, and refused if it has a pull reader.
ReadConfigFile ==
  /\ pc = "setup" /\ env.config # Unset
  /\ UNCHANGED env
  /\ \/ /\ file # "pull" /\ pc' = "yaml prom"
        /\ UNCHANGED <<inputs, kinds, built>>
     \/ Fail

\* Seeded fault: a file without a meter provider is left as it is.
AddYAMLPromReaderOnly ==
  /\ pc = "yaml prom"
  /\ UNCHANGED env
  /\ \/ /\ pc' = "yaml env"
        /\ AddPromReader
        /\ UNCHANGED <<inputs, kinds, installed, running, shutdowns>>
     \/ prom /\ Fail

\* The reader, and an empty meter provider for it if the file has none.
AddYAMLPromReader ==
  /\ pc = "yaml prom"
  /\ UNCHANGED env
  /\ \/ /\ pc' = "yaml env"
        /\ AddPromReader
        /\ file' = IF prom /\ file = "absent" THEN "empty" ELSE file
        /\ UNCHANGED <<found, prom, path, kinds, installed, running, shutdowns>>
     \/ prom /\ Fail

ClearConfigFile ==
  /\ pc = "yaml env"
  /\ \/ /\ pc' = "yaml sdk" /\ env' = [env EXCEPT !.config = Unset]
        /\ UNCHANGED <<inputs, kinds, built>>
     \/ UNCHANGED env /\ Fail

\* otelconf.NewSDK (external), for a file that does not disable it.
Declared == IF file = "push" THEN <<"push">> ELSE <<>>
SDKReaders ==
  IF env.config # Unset \/ file = "absent" THEN Declared ELSE readers \o Declared

NewSDK ==
  /\ pc = "yaml sdk"
  /\ UNCHANGED env
  /\ \/ /\ pc' = "built"
        /\ installed' = SDKReaders
        /\ running' = {"sdk"} /\ shutdowns' = <<"sdk">>
        /\ UNCHANGED <<inputs, kinds, readers, handler>>
     \/ Fail

-----------------------------------------------------------------------------
(* buildHandler.                                                           *)

Routes ==
  {<<"/healthz", "health">>, <<"/readyz", "ready">>}
  \cup (IF handler THEN {<<path, "metrics">>} ELSE {})
  \cup (IF path # "/" THEN {<<"/", "landing">>} ELSE {})

\* ServeMux (external) panics on a pattern it already has; the landing page may
\* fail.  Either way main exits without Shutdown.
Ambiguous == \E r, s \in Routes : r # s /\ r[1] = s[1]

BuildHandler ==
  /\ pc = "built"
  /\ UNCHANGED env
  /\ \/ /\ ~Ambiguous /\ pc' = "serving"
        /\ routes' = Routes
        /\ UNCHANGED <<inputs, kinds, built>>
     \/ (Ambiguous \/ path # "/") /\ Fail /\ UNCHANGED routes

-----------------------------------------------------------------------------
(* Result.Shutdown.                                                        *)

\* Seeded fault: Shutdown returns the first error.
ShutdownUntilError ==
  /\ pc \in {"serving", "shutdown"} /\ shutdowns # <<>>
  /\ running' = running \ {Head(shutdowns)} /\ shutdowns' = Tail(shutdowns)
  /\ pc' \in {"shutdown", "down"}
  /\ UNCHANGED <<inputs, env, kinds, readers, handler, installed>>

\* An error is kept and the loop goes on.
ShutdownNext ==
  /\ pc \in {"serving", "shutdown"} /\ shutdowns # <<>>
  /\ running' = running \ {Head(shutdowns)} /\ shutdowns' = Tail(shutdowns)
  /\ pc' = IF Tail(shutdowns) = <<>> THEN "down" ELSE "shutdown"
  /\ UNCHANGED <<inputs, env, kinds, readers, handler, installed>>

Setup ==
  \/ BuildResource \/ BuildPromReader \/ SetEnvScoped \/ NewMetricReader
  \/ InstallMeterProvider
  \/ BuildTracerProvider \/ BuildLoggerProvider
  \/ ReadConfigFile \/ AddYAMLPromReader \/ ClearConfigFile \/ NewSDK

Next ==
  \/ (Setup \/ ShutdownNext) /\ UNCHANGED routes
  \/ BuildHandler

Spec == Init /\ [][Next]_vars

-----------------------------------------------------------------------------
(* Properties.                                                             *)

Places == {"setup", "prom", "kinds", "reader", "traces", "logs", "yaml prom",
           "yaml env", "yaml sdk", "built", "serving", "shutdown", "down",
           "failed"}

\* Every variable stays in its type; at every step Shutdown would call exactly
\* what is running (otel.go:127, 147, 157).
TypeOK ==
  /\ found.config \in {"file", Unset} /\ prom \in BOOLEAN /\ path \in Paths
  /\ file \in {"absent", "empty", "push", "pull"}
  /\ pc \in Places /\ handler \in BOOLEAN
  /\ ToSet(kinds) \subseteq Kinds
  /\ ToSet(readers) \subseteq Kinds \cup {Prometheus}
  /\ ToSet(shutdowns) = running

Selected ==
  IF found.config # Unset THEN ToSet(Declared)
  ELSE IF found.metrics \in {Unset, None} THEN {}
  ELSE ToSet(found.metrics) \ {"", Prometheus}

\* What serves has the Prometheus reader exactly if it is enabled and there is a
\* handler for it at the telemetry path and nowhere else, and one reader for each
\* exporter asked for, however the list or the file names them: never a second
\* Prometheus listener, and /metrics is not left empty (otel.go:199-218, 308-314;
\* config_file.go:17-23, 62-68; ovs_exporter.go:78-80).
ReadersAsSelected ==
  pc = "serving" =>
    /\ {r \in routes : r[2] = "metrics"}
         = IF prom THEN {<<path, "metrics">>} ELSE {}
    /\ ToSet(installed) = Selected \cup (IF prom THEN {Prometheus} ELSE {})
    /\ Len(installed) = Cardinality(ToSet(installed))

\* However Setup ends, the environment is as it was, but for the name of the
\* configuration file (otel.go:294-306, config_file.go:17-23, 72-76).
EnvironmentAsFound ==
  pc \in {"serving", "failed"} =>
    /\ [env EXCEPT !.config = found.config] = found
    /\ env.config \in {found.config, Unset}

\* Shutdown stops every provider that Setup has started, also after one of them
\* has failed to stop (otel.go:169-177).
ShutdownReachesAll == pc = "down" => running = {}
=============================================================================
