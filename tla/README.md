# A TLA+ model of ovs-exporter

ovs-exporter is a Prometheus exporter for Open vSwitch. It keeps a copy of the
Open_vSwitch database (ovsdb), asks ovs-vswitchd for its counters over the
unixctl socket every `--cache.ttl`, and publishes both as OpenTelemetry
metrics. This directory models the parts of it whose correctness depends on
order: who runs when, what fails, what is read while it changes.

Modules are translated from the Go source; `PROJECT.json` maps every definition
to its lines. Comments cite files without the `src/` prefix.

## 1. The system

| component | source | state | operations | talks to |
|---|---|---|---|---|
| unixctl client | `internal/unixctl/client.go` | mutex, connection, encoder/decoder, next id | `Call`, `Close` | ovs-vswitchd over one Unix socket; called by the scraper and by `main` |
| socket discovery | `internal/unixctl/discover.go` | none; reads the run directory | `DiscoverSocket` | the pid file and sockets ovs-vswitchd leaves; called by every dial |
| unixctl parsers | `internal/unixctl/{coverage,memory,dpif,dpctl,upcall}.go` | none | `Parse...` | reply text in, `Snapshot` field out |
| scraper and refresh | `internal/scrape`, `internal/datasource/refresh.go` | two atomic pointers (`outcome`, `snap`), a ticker | `Run`, `Refresh`, `Snapshot`, `Outcome`, `Stale` | client, parsers; read by collectors and `/readyz` |
| data source | `internal/datasource/datasource.go` | none | `OVS`, `UnixCtlOVS` | ovsdb view and scraper, for collectors |
| ovsdb client and view | `internal/ovsdb` | the monitored cache (libovsdb), connection | `Connect`, `Close`, `Connected`, `Healthy`, `View`, table readers | ovsdb-server; collectors, `/readyz` |
| collector registry | `collector/collector.go` | flags, factories, the registered callbacks | `NewGroup`, `RegisterAll`, `Close`, `observeUp` | collectors, the SDK's meters |
| collectors | `collector/*.go` | none of their own | one callback each | data source in, instruments out |
| otel pipeline | `internal/otel` | providers, exporters, shutdown list | `Setup`, `Shutdown` | readers run the callbacks |
| probes | `internal/probes` | none | `Ready`, `Health` | `Stale`, `Healthy` |
| main | `ovs_exporter.go` | contexts, the order of startup and shutdown | `main` | everything |

Three kinds of goroutine run at once: `main`, the scraper, and the metric
readers (HTTP handlers of `/metrics` and the periodic push exporters). They
share the client's mutex, the scraper's two pointers, the ovsdb cache and the
SDK's pipeline locks. None waits for the scraper to end.

What is hard, and what makes each component correct:

* **client** — one connection and one mutex for all callers, requests that time
  out while their reply is on its way, a daemon that dies between any two steps.
  Correct: a reply is handed to the caller whose request it answers (the code
  never compares ids), nothing is left on a connection that is used again, a
  transport failure drops it, a request is executed at most once, no caller is
  stuck for ever.
* **discovery** — four looks at a directory (pid file, stat, glob, dial) while
  the daemon restarts under another pid and leaves files behind. Correct: once a
  daemon stays up it is found.
* **scraper** — publishes two things in two stores, partly failing refreshes,
  dropped ticks, cancellation at any point. Correct: a 200 of `/readyz` means
  there is a snapshot from the refresh the 200 rests on, or one about to be stored,
  no field comes from an older refresh, failures do not destroy data, a live scraper
  whose TTL leaves room for two refreshes is never stale, recovery is permanent.
* **main** — takes everything down while the others run. Correct: callbacks
  never read a closed source, the scraper does not reconnect a closed client,
  the time set aside for the pipelines is not eaten up without bound, the process
  ends.
* **registry** — flags, defaults and filters decide in turn; registering and
  unregistering may fail at any collector. Correct: what runs is what was asked
  for, and `Close` takes everything out whatever happened before.
* **collectors** — each callback reads its sources for itself, while snapshots
  are replaced and transactions reach the ovsdb cache row by row. Correct: no
  interface is counted twice or left out because of what happens around it,
  `ovs.collector.up` agrees with what was observed before it, and every instrument
  registered is observed when there is something to observe.
* **parsers** — loops that remember the line they are under. Correct: what comes
  out stands in the report under that name, whatever garbled lines lie between.
* **otel setup** — constructors that fail, a process-wide environment changed and
  restored. Correct: the readers are those asked for, `/metrics` is served by one
  of them, the environment is left as it was, `Shutdown` reaches all that was
  started.
* **ovsdb client, probes** — a best-effort connect of two steps, automatic
  reconnects, two checks asked one after the other while both sources change.
  Correct: no connection is left behind by a failed `Connect`, a 200 stands for
  data that is there, `/readyz` comes back after an outage.

`PROJECT.json` lists the hazards line by line, with the properties that would
catch each of them.

## 2. The modules

### UnixctlClient, UnixctlCall

`UnixctlClient` has one action for each stretch of `Call` and `Close` between
two points where another goroutine or the daemon can act. `pc[g]` is the place
of goroutine `g`:

| `pc` | code |
|---|---|
| `lock` | waiting at `c.mu.Lock()` |
| `ensure` | `ensureConnectedLocked` (`Reuse`, `DialSucceeds`, `DialFails`) |
| `send` | id, deadline, `enc.Encode` (`Encode`, `EncodeFails`) |
| `recv` | `dec.Decode` and what follows (`Decode`, `DecodeFails`) |
| `close` | waiting at the lock in `Close` |

The deferred `Unlock` is part of the action that returns. The socket is two
sequences, `toServer` and `toClient` (with what the decoder has read ahead), and
`peerOpen`. A request is its id; a reply is the id it answers and whether it is
a result, the daemon's error, or bytes that do not decode. A context that ends
while a call is under way is `canceled` (only the dial notices) or `expired`
(the deadline set on the connection is in the past, reads and writes fail).
When the client closes its end, requests the daemon has not read stay readable
to it: `orphans`.

ovs-vswitchd is external: it answers the requests of a connection in their
order, once each, with anything, as late as it likes or never; it crashes and
restarts.

`UnixctlCall` is the promise: calls, numbers, and executions, without socket,
mutex or connection. `UnixctlClient` implements it with
`phase <- IF pc[g] \in InCall THEN "open" ELSE "idle"`; the other variables map
to themselves. What is proved of both is in the first part of `ExporterProofs`.

### Discovery, DiscoveryProofs

`pc` is where `ensureConnectedLocked` is between two looks at the run directory:
pid file, `stat` of the path made from it, `glob`, dial. Pids are numbered in
the order in which the glob sorts their sockets. The daemon starts, writes its
pid file, binds its socket, exits (both files go) or crashes (both stay).
`Init` has any leftovers.

### Scraper, Publication

`Run`, `Refresh` and `NewOVSRefresh` as one goroutine: `call` (one unixctl call
with its parse at a time), `publish` and `store` (the two atomic stores, in the
code's order), `select`. Readers of the pointers take no lock and can run
between any two steps, so what they may see is what holds in every state.
Instants are ages, capped at `AgeBound` (above every age the program compares).
Calls and the wait for a tick take time; one tick is buffered and one that
finds the buffer full is dropped, as in Go.

`Publication` is what the two pointers promise to those who load them: attempts,
each reported once, of which a successful one replaces the snapshot by what it has
fetched itself. There are no calls, no ticker and no context in it. `Scraper`
implements it with `began <- begun`, `fields <- got`, and `attempt` read off `pc`:

| `pc` | `attempt` |
|---|---|
| `call`, `publish` | `open` |
| `store` | `reported` |
| `select`, `done` | `closed` |

Failing calls are stutters of `Publication`, and so are the tick's waiting and
`Run`'s end. It forbids a field carried over from an older refresh, a snapshot
replaced by an older or an empty one, and a failed refresh that touches it.

### OvsdbClient, Readiness, ReadinessProofs

`OvsdbClient` has the two statements of `Connect` that can fail after something has
been opened (`connect`), libovsdb's connection (`inner`), and the pointer `main`
keeps (`ovsClient`): `"nil"` for good when `Connect` has failed. libovsdb is
external: it loses the connection and dials again at any moment until it is closed.

`Readiness` composes it with `Scraper` (EXTENDS) and with the handler of
`/readyz`: `check` is the check about to be asked, `allOK` the conjunction so far;
between the two checks anything may happen. `main` starts the scraper and the
server only when `Connect` has returned (`Started`). The checks are `Healthy` of
`OvsdbClient` and `Ready` of `Scraper`. `answer` is the status of the last request,
`served` is history: some request has been answered 200.

### Exporter, ExporterProofs

`main` from the ovsdb connection to `os.Exit`, composed with `UnixctlClient`
(EXTENDS): the goroutines are `"main"`, which calls `Close`, and `"scraper"`,
which makes `Calls` calls per refresh. `Readers` collect; collecting runs the
callbacks under the pipeline's lock, for which `Unregister` waits.
`server.Shutdown` may return at any moment (all requests done, or its ten seconds
over). `group.Close` is one step per reader here and never fails, as `main` goes on
either way: that it unregisters collector by collector, and what may fail of it, is in
`Registry`.

Time is counted where it is lost to the pipelines: while `main` waits for the
client's mutex in `unixClient.Close` (`Wait`). `waited` is how long that has been,
`spent` how long the dial or the exchange in progress has been going on; `main`
finds it at any point. `starving` is the starvation mode of `sync.Mutex`: a waiter
overtaken after it has waited is next.

### Registry, RegistryProofs

`stage` is where `main` (or a test) is with the group. `given` is the command
line; `enabled` and `forced` are the two package maps of `collector.go`;
`callbacks` is what the meter runs, `handles` the registrations a `registrar`
holds. Iterating a Go map is any order of `Register(c)`; every step of
`NewGroup`, `RegisterAll` and `Close` has a failing variant. `main` has no flag
that reaches `DisableDefaultCollectors`, although its comment speaks of one: it
is exported and tested, so the action is part of the model.

### CacheWalk, CacheWalkProofs

The three per-interface collectors share one walk: copy `Port`, copy `Interface`,
copy `Bridge`, then go bridge by bridge over the copies. `bridgeTable`, `portTable` and
`interfaceTable` are the cache; a row that is not there refers to nothing. Of libovsdb
only the read lock is relied on (`internal/ovsdb/cache.go:9-12`): one table is copied at
one moment, and between any two steps `Change` alters a single row, so that copies may
show half of a transaction and references that lead nowhere. Of ovsdb-server only
`Init` asks anything, that a row is there if and only if something refers to it; the
schema (`schemas/vswitch.ovsschema:81`, `154`) lets two bridges hold one port and two
ports one interface, and so does the model.

`seen` has the ways by which interfaces were observed, each a bridge, a port and an
interface. `changes`, `stable` and `shared` are history, from the moment `observe`
began: how many rows have changed, which ways have been there all along, and which rows
two others have held at once.

### Collection, CollectionProofs

One reader collecting with any group of the ten collectors. The tables
`Register...` and `Observe...` are the instruments a collector passes to
`RegisterCallback` and those its `observe` uses, given what the view or the snapshot
holds (`"none"`, `"bare"`, `"full"`); `...Dep` are the DepChecks declared in each
`init`. Between any two callbacks a refresh may end, or the database may change or
disconnect. `moved` is history: what has changed in this collection, the data of the
database, the snapshot, or only the health of either source. A failed refresh and a lost
connection are of the last sort, since they leave the data in place.

### Parsers, ParsersProofs

One module for the five parsers: `Read` takes the next line of the report of one
command; each kind of line is an action. `cur`, `curBridge` and `parts` are the
pointers the loops keep. The ports of a bridge are a slice in the code; here they are
its entries, each known by the line it comes from, so that order and repetition are
kept. What parses *within* a line (numbers, the regular
expressions) is part of the input, `Garbled` stands for what does not. The
properties read the list of lines declaratively and compare: which header is the
last one above a line, which line is the last to set a counter, which words stand
between two values. `:>` and `@@`, by which the loops update their maps, are defined
in the module, as those of module TLC are opaque to the prover.

### OtelSetup, OtelSetupProofs

`Setup` statement by statement, by flags or by file, then `Shutdown`. `env` is the
process environment, `found` what `main` had read. autoexport and otelconf are
external: the first builds what the environment names at that moment, the second
reads `OTEL_CONFIG_FILE` again if it is still set. `BuildHandler` then registers the
routes; `ServeMux` panics on a pattern it has already. Left out are telemetry paths that
are no valid pattern at all, and configuration files with `disabled: true`, for which
otelconf returns an SDK that does nothing and `/metrics` answers with nothing.

### Seeded faults

Each module holds a few definitions introduced by "Seeded fault:". They are not
part of the specification: each is a variant of the action that follows it with
one plausible bug (a lock not taken, a connection kept after an error, a
deadline missing). Put in place of the original, the property that
`PROJECT.json` pairs with it fails: that is how we know the property depends on
the code.

## 3. What is checked

Twelve runs; three of them are expected to find a violation (section 6).

| run | shows | bounds | states |
|---|---|---|---|
| `unixctl_client` | replies go to their own request, the wire is clean on reuse, failures disconnect, `UnixctlCall` is implemented, `Call` and `Close` return | 2 goroutines, 3 requests | 75 thousand |
| `discovery` | leftovers do no harm beside a pid file; the running daemon is found by pid file or as the only socket | 3 pids | 3 thousand |
| `discovery_leftovers` | *violated*: `Reconnects` | 3 pids | |
| `readiness` | `Publication` is implemented, what a 200 of `/readyz` stands for and how old an outcome can get, recovery is permanent, `Run` returns, no connection is left behind | 3 methods, interval 3, calls up to 1 | 1 million |
| `scraper_zero_ttl` | *violated*: `Recovers` | 2 methods, TTL 0 | |
| `exporter` | callbacks read open sources only, the client stays closed, at most two call timeouts are lost at its mutex, a signal or a dead server ends the process | 2 readers, 2 calls per refresh, 3 requests, timeouts 1 and 2 | 382 thousand |
| `registry` | the group is what was asked for, `ovs.collector.up` speaks for registered collectors, `Close` leaves nothing | 3 collectors, 2 on by default | 9 thousand |
| `cache_walk` | no interface twice unless two rows share it, no stable interface left out | 2 bridges, 2 ports, 2 interfaces (symmetric), 4 rows change per collection | 2.1 million |
| `collection` | DepChecks agree with what `observe` did before them; every instrument registered is observed and no other | any 1 or 2 of the 10 collectors | 1.5 million |
| `collection_stale` | *violated*: `UpMeansAvailable` | any 1 collector | |
| `parsers` | topology, statistics and names are those of the report | 5 lines, 2 names of each sort | 1 million |
| `otel_setup` | readers as selected and served at the telemetry path, environment as found, `Shutdown` reaches all | lists of 2 entries, 2 push exporters, 3 paths | 195 thousand |

Why the bounds are enough.

* *Client*: a late reply needs one request that times out and one that follows,
  on a connection that a third may reuse; two goroutines are enough to wait for
  the mutex and to take each other's reply. The theorems below hold for any
  number of either.
* *Discovery*: one leftover that sorts below and one above the running pid.
* *Readiness*: three calls of one unit in an interval of three is the tight case, a
  refresh that takes exactly as long as the interval. An outcome is oldest at the
  end of the second refresh: two refreshes, and the interval the ticker waits after
  the first, against three intervals. With a refresh longer than the interval
  `NeverStaleWhileRunning` fails. The real numbers are 5 calls of at most 7 s (dial
  2 s, call 5 s) against the default of 60 s, well inside; with a TTL under 35 s they
  are not, and two shipped files set one (section 5).
  Requests read and write nothing, so one at a time is enough.
* *Exporter*: one call under way, one that overtakes `Close` and one that comes
  after it. The two call timeouts of `PipelinesKeepTheirTime` are reached.
* *Registry*: two collectors that are on and one that is off, so that every flag
  can agree or disagree with its default; the theorems hold for any number.
* *CacheWalk*: two of each parent to move between. Four changes are enough for a port
  and an interface to move each, row by row, while the other interface stays; the
  theorems hold for any number of rows and of changes.
* *Collection*: callbacks share nothing but their sources, so a pair shows every
  interference; the properties speak of one collector at a time.
* *Parsers*: a report under a first name, one line that changes or fails to change
  it, and what follows: every property is broken by at most four lines. The theorems
  hold for reports of any length.
* *OtelSetup*: two entries can repeat each other, or be mixed with an empty one
  or with `prometheus`.

Deadlock is checked except in `registry`, `parsers` and `otel_setup`, which model
something that comes to an end. Elsewhere some action is always possible (the
daemon's or the clock's), so the check says little; that nobody waits for ever is
what `CallReturns`, `CloseReturns`, `RunReturns` and `Exits` say.

## 4. Fairness

* `WF(CallStep(g))`: every blocking statement of `Call` has a deadline (dial
  timeout, `SetDeadline`), so a goroutine that holds the mutex moves on.
* `SF(Lock(g))`, `SF(Close(g))`: `sync.Mutex` hands over in order once a waiter
  has starved for 1 ms, so it is not overtaken for ever. The same holds for the
  SDK's pipeline lock (`SF(Unregister)`).
* `SF(SelectDone)`: `select` picks at random among ready cases.
* `WF` of `Connect` and of the checks of `/readyz`: `connectCtx` ends after ten
  seconds, and a check never blocks. Nothing is assumed of libovsdb: that it
  reconnects is a premise of `ReadyzRecovers`.
* `WF` of the scraper's steps, of `main`'s and of time: goroutines run.
* `WF(Bind)` in `Discovery`: a daemon that has started binds its socket.
* Nothing is assumed of the daemon's answers, nor that it lives.

## 5. What is proved

tlapm checks every step; each module proves that its invariant holds initially,
that every action preserves it (one lemma per action or group of actions), and
derives the properties from it.

`ExporterProofs`, first part, of the client alone, for every set of goroutines, every
bound on calls and every behaviour of the daemon:

| theorem | says |
|---|---|
| `TypeCorrect` | `Spec => []TypeOK` |
| `InductiveInvariant` | `Spec => []IndInv` |
| `RepliesMatch` | `Spec => []ReplyAnswersItsRequest` |
| `WireIsClean` | `Spec => []OneInFlight` |
| `FailureDisconnects` | `Spec => FailureDropsConnection` |
| `Implements` | `Spec => ImplementsCall` |

`ReplyAnswersItsRequest` is not inductive: that a reply is right depends on what
is on the wire when it is read. `IndInv` adds

* `LockInv`: the goroutine past `Lock`, and only that one, holds the mutex;
* `ConnInv`: no connection, no wire; past `ensureConnectedLocked` there is one;
* `WireInv`: while `g` waits for its reply the wire holds its request, or its
  reply, or nothing (a crash); while nobody waits it is empty;
* `IdInv`: ids the daemon has executed or can still read are different and were
  handed out; a waiting request is not orphaned;
* `CallInv`: what a call remembers of its own request.

`WireInv` is the core: it holds because every way out of `recv` either takes the
one reply off the wire or drops the connection. `Implements` needs `IdInv` for
"at most once". The assumptions are those of the model: `Free` is no goroutine,
and the daemon answers a request at most once and in order per connection (two
replies to one request would break the client, which trusts this).

`RegistryProofs`, for every set of collectors and of defaults:

| theorem | says |
|---|---|
| `InductiveInvariant` | `Spec => []IndInv` |
| `TypeCorrect` | `Spec => []TypeOK`: a callback always has a handle |
| `GroupAsAsked` | `Spec => []GroupIsWhatWasAsked` |
| `UpSpeaks` | `Spec => []UpSpeaksForRegistered` |
| `NothingLeft` | `Spec => []CloseLeavesNothing` |

`IndInv` adds what the loops have and have not done at each stage: during
`RegisterAll` exactly the collectors no longer pending have a callback, during
`Close` a callback whose collector is no longer pending is one that failed.

`CacheWalkProofs`, for every number of bridges, ports and interfaces:

| theorem | says |
|---|---|
| `InductiveInvariant` | `Spec => []IndInv` |
| `TypeCorrect` | `Spec => []TypeOK` |
| `ObservedOnce` | `Spec => []EachInterfaceOnce` |
| `StableObserved` | `Spec => []StableInterfacesObserved` |

`EachInterfaceOnce` is not inductive by itself. `CopiesInv` says that what two ports of
the copy hold, or two bridges, is in `shared`, since each copy is of one moment;
`SeenInv` that what has been observed is in the copies; `StableInv` that what has not
moved is in every copy that has been taken until it is observed. So an interface counted
twice was, or came by a port that was, held by two rows at one moment: an interface or
port that moves while the tables are read is never counted at both its places. That two
rows do share one is legal; what then happens is in section 6.

`ExporterProofs`, second part, for any readers, any number of calls per refresh and
any timeouts, on top of the first:

| theorem | says |
|---|---|
| `ExporterInvariant` | `ExporterSpec => []ExporterInv` |
| `ExporterTypeCorrect` | `ExporterSpec => []ExporterTypeOK` |
| `ExporterUsesClient` | `ExporterSpec => Init /\ [][Next]_vars` |
| `ExporterCallsAreSafe` | `ExporterSpec => [](ReplyAnswersItsRequest /\ OneInFlight)` |
| `ExporterImplementsCall` | `ExporterSpec => ImplementsCall` |
| `CallbacksAreSafe` | `ExporterSpec => []CallbacksReadOpenSources` |
| `ClosedStaysClosed` | `ExporterSpec => []ClosedForGood` |
| `ShutdownKeepsTime` | `ExporterSpec => []PipelinesKeepTheirTime` |

Each step of the exporter is a step of the client or leaves it alone
(`ExporterUsesClient`), so `IndInv` is a conjunct of `ExporterInv` and what is proved
of the client holds while it is shut down. The others are `GoroutineInv` (which
operation of the client each goroutine may be in), `CancelInv` (`scrapeCancel` comes
before everything that closes; no call that outlives it may dial), `StageInv` (what
is closed, unregistered and flushed at each place of `main`) and `TimeInv` (how long
`main` has waited, by the place of the call ahead of it: a waiter that has been
overtaken after starving is next, so at most one exchange follows the one it found).
`ClosedForGood` needs `CancelInv` in every state, not only after the close: the
context is over before `main` asks for the mutex.

`ReadinessProofs`, for any sequence of methods, interval, call duration and
threshold:

| theorem | says |
|---|---|
| `ScraperInvariant` | `Init /\ [][Next]_vars => []ScraperInv` |
| `ScraperTypeCorrect` | `Spec => []TypeOK` |
| `ReadyMeansSnapshot` | `Spec => []ReadyServesSnapshot` |
| `OutcomeStaysYoung` | `Spec => []OutcomeAge`: while `Run` goes on, at most two refreshes and an interval |
| `NeverStale` | `Spec => [](RefreshesFit => NeverStaleWhileRunning)` |
| `Publishes` | `Spec => ImplementsPublication` |
| `ReadinessInvariant` | `ReadinessSpec => []ReadinessInv` |
| `ReadinessTypeCorrect` | `ReadinessSpec => []ReadinessTypeOK` |
| `ServedForGood` | `ReadinessSpec => []ServedHasSources` |
| `ReadinessScrapes` | all that is said of `Scraper` holds in `Readiness` |

`ScraperInv` is about ages. `ScheduleInv` bounds that of the attempt in progress by
the calls it has made, and, while `Run` waits, by the time the ticker still needs;
`OutcomeInv` ties the outcome to the attempt that reported it or to the one before;
`SnapshotInv` says which refresh the snapshot readers can see is of. None is
inductive alone: the age of an outcome is bounded only because the ticker bounds
that of the next attempt. `RefreshesFit` says `2 * RefreshTime + Interval <= MaxAge`.
It is a hypothesis and no assumption of the model, as the flags need not satisfy it:
with the default of 60 s they do (five calls of at most 7 s). With the 15 s of
`examples/k8s/daemonset.yaml:70` and the 5 s of
`test/integration/smoke/docker-compose.yml:44` they do not, and there a slow ovs-vswitchd
can make a live scraper look stale: nothing is claimed for these. The constants of `readiness` satisfy it with nothing to spare.

`DiscoveryProofs`, for any number of pids: `InductiveInvariant`, `TypeCorrect`
(`Spec => []TypeOK`), `LeftoversHarmless` (`Spec => []LeftoversDoNoHarm`). The
invariant adds that a daemon that listens has its socket in the directory
(`BoundInv`), without which `stat` could send a discovery to the glob.

`CollectionProofs`, for groups of any size:

| theorem | says |
|---|---|
| `InductiveInvariant` | `Spec => []CollectionInv` |
| `TypeCorrect` | `Spec => []TypeOK` |
| `UpAgreesWithData` | `Spec => []UpTellsOfData` |
| `SeriesComplete` | `Spec => []SeriesAreComplete` |

Four lemmas go through the ten collectors: what one observes is registered, it
observes only if its DepCheck holds, it does observe then, and all of it when its
sources are complete. `UnmovedInv` carries them through a collection: as long as the data
of a collector has not been replaced, what was said is what would be said now. `ViewInv`
is for the collectors of the database whatever happens to it: the view is never taken
back, so who has observed by it is up. Neither holds before the first collection
(`NotBegun`), and `UnmovedInv` is not inductive without `PendingInv`: what `observeUp`
has not reached is not reported.

`OtelSetupProofs`, for any environment, lists of any length, any exporters and
telemetry paths:

| theorem | says |
|---|---|
| `InductiveInvariant` | `Spec => []OtelInv` |
| `PushExportersSelected` | what `ParsePushExporters` returns for any list |
| `TypeCorrect` | `Spec => []TypeOK` |
| `ServesWhatIsSelected` | `Spec => []ReadersAsSelected` |
| `EnvironmentRestored` | `Spec => []EnvironmentAsFound` |
| `ShutdownStopsAll` | `Spec => []ShutdownReachesAll` |

`ReadersInv` says that the readers built and those still to be built are together
the ones selected, and have none in common; `ProvidersInv` that a provider about to
be built is not running; `EnvInv` where the variable of the metrics exporters holds
one name only. `ParsePushExporters` is a loop: that its recursive definition has a
value, and what that is, is proved from the well-foundedness of the naturals, by the
first prefix of the list for which it would fail (`KeptEquation`, `KeptCollects`).

`ParsersProofs`, for any names, counters and words, and reports of any length:

| theorem | says |
|---|---|
| `InductiveInvariant` | `Spec => []ParsersInv` |
| `TypeCorrect` | `Spec => []TypeOK` |
| `TopologyOfReport` | `Spec => []TopologyAsPrinted` |
| `StatsOfReport` | `Spec => []StatsAsPrinted` |
| `NamesOfReport` | `Spec => []NamesAsPrinted` |

The properties compare a loop that sees one line at a time with a reading of the
whole report, and are not inductive: what a line changes in the result depends on
what the loop remembers. `CurInv` says that this is the datapath of the last header,
`BridgeInv` the last bridge under that header, `PartsInv` the words since the last
value. Whatever is "the last" is a maximum over positions; that it exists is proved
from the well-foundedness of the naturals (`LastOfProperties`), and the other lemmas
say what one more line does to each of them (`HeadersStep`, `UnderStep`,
`UnderBridgesStep`, `KeyAtStep`): a header hides what was under an earlier one of
the same name, anything else is one more position under the last header.
`TypeOK` is not part of the invariant but follows from it.

The assumptions are those the modules name: bounds are positive, `Free`, `None` and
`NoPid` are none of the things they are the absence of, the methods of a refresh are
a sequence, `"none"` is an exporter autoexport knows and `""` is not.

Only model-checked is every liveness property (`CallReturns`, `CloseReturns`,
`FindsDaemon`, `ReadyzRecovers`, `RunReturns`, `Exits`): liveness under fairness is
beyond the prover. What the three runs of section 6 refute is of course not proved
either. Every invariant and every action property of the other runs is a theorem,
and so are both refinements.

## 6. Findings

* **A leftover socket hides a restarted daemon** (`discovery_leftovers`). When
  no pid file can be read, `DiscoverSocket` returns the first match of the glob
  every time. A dead socket that sorts first is dialled for ever;
  `internal/unixctl/README.md:7` promises that restarts are handled
  transparently.
* **`--cache.ttl=0`** (`scraper_zero_ttl`). `New` replaces a zero interval by
  15 s, `buildReadyChecks` multiplies the flag: the age is compared with zero and
  `/readyz` never stays 200.
* **`ovs.collector.up` does not tell what is available now** (`collection_stale`).
  `observeUp` asks whether there is a view or a snapshot; both stay when the
  database disconnects and when every unixctl call fails. The description of the
  metric (`collector/collector.go:238`) says "currently available".

Not findings, but worth knowing: for the instant between the two stores of
`Refresh` the first success can be seen before its snapshot (`ReadyServesSnapshot` says
that one is about to be stored; readers check for nil). A port that two bridges hold,
which ovsdb-server allows, has its interfaces observed once for each of them
(`collector/interfaces.go:117-129`), and when a port and an interface move while the
tables are read, an interface can be observed for a bridge it was never in; the model
has both. A collector of the snapshot whose field a new snapshot takes away between its
callback and `observeUp` is reported down beside its data.

The properties of the parsers take for right what the code does with lines it does not
understand. A datapath line of `dpif/show` that does not parse is as if it were absent,
so that the bridges under it go to the datapath before; the same goes for the ports
under a bridge line, and for the counters of `dpctl/show` and `upcall/show` under an
unknown header. Words left by a value of `memory/show` that does not parse become part
of the next key, as `internal/unixctl/memory.go:26-28` and its test ask.

When `Setup` fails late the providers it has installed are not shut down; `main`
exits at once. The ten seconds of `shutdownCtx` are twice the call timeout: behind a
slow ovs-vswitchd the wait for the client's mutex can take all of them, and the
pipelines are then flushed with a context that is over (`PipelinesKeepTheirTime` says
it is never more). `--web.telemetry-path=/healthz` panics in `ServeMux` after
everything has been started, a negative `--cache.ttl` in `time.NewTicker` after the
first refresh.

## 7. Not modelled

The generated `ovsmodel`, `tracing.go` (spans only), flag parsing, log lines and
the fan-out of log records (`multiHandler`, which keeps no state), the landing page,
dashboards and manifests. The constant refusals of constructors (nil function, empty
name) and the values and attributes of observations are left out of every module.
`Health` always answers 200. What otelconf makes of a file with `disabled: true`, and
what libovsdb does once its backoff gives up, is not in this repository; here the SDK is
built and libovsdb goes on trying. Of a negative `--cache.ttl` there is nothing to say
but that it panics; `TTLAssumption` excludes it.

## 8. Plan

Done, in this order: UnixctlCall, UnixctlClient, Discovery, Scraper, Exporter (the
core), then Registry, CacheWalk, Collection, Parsers, OtelSetup, then Publication,
OvsdbClient, Readiness, the time of the shutdown in Exporter and the routes in
OtelSetup.

The theorems came in the order UnixctlClient (now in ExporterProofs), Registry,
CacheWalk, Exporter, Readiness, Discovery, Collection, OtelSetup, Parsers.

What is left are six hazards no property covers, each with its reason in
`PROJECT.json`: a negative `--cache.ttl`, a telemetry path that takes the route of a
probe, providers installed before `Setup` fails, statistics a row has no value for,
headers the parsers do not recognise, and values of `memory/show` that do not parse.
They want a decision about the code before a property can be stated. A change
of the code begins with the module `PROJECT.json` maps it to, then the run of that
module, then its proof.
