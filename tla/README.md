# TLA+ models of the traefik routing runtime

This directory holds TLA+ specifications of the parts of this repository
that have state, concurrency or an algorithm worth checking, the TLC
configurations that check them, and `PROJECT.json`, which maps every
definition to the source lines it models and lists the runs, the
fault variants (mutants) that show each property can fail, the findings and
the hazards.

## 1. Inventory

The repository (`src/`) is a thin slice of traefik v3: 13 Go files, of
which 9 are implementation. `spec.md` describes the whole routing runtime
(components C1 to C9); most of those components have no code here.

| Component | Source | State it keeps | Operations | Status |
|---|---|---|---|---|
| Router factory (C7) | `pkg/server/routerfactory.go` | TCP/UDP entry-point lists; `cancelPrevState`, the cancel func of the last build's context | `NewRouterFactory`, `CreateRouters` | modelled: `RouterFactory` |
| Configuration aggregator (C8) | none (spec 4.8) | latest configuration per provider, throttle timer | message, throttle expiry, start of a build | modelled from the spec, as the caller of C7 |
| Entry-point listeners (C9) | none (spec 4.9) | current root handler per entry point | atomic swap, dispatch | modelled from the spec, as the consumer of C7's result |
| Health checks of the service manager (C3) | none (spec 4.3); launched at `routerfactory.go:91` | per-server health in each load balancer | probe while the context is live | modelled from the spec, as far as the context governs it |
| Chain builder (C6) | `pkg/server/middleware/chainbuilder.go` | metrics registry, access logger, tracer | `Build` (order of entry-point wrappers), `Close` | modelled: `ChainBuilder` |
| OpenTelemetry metrics registry | `pkg/metrics/opentelemetry.go` | global meter provider, global gauge collector (`values` map under `mu`), label slices | `RegisterOpenTelemetry`, `StopOpenTelemetry`, gauge `add`/`set`/`With`, the gauge collection callback, counter/histogram `With` | modelled: `OtelGauge`, `OtelLabels` |
| Kubernetes Ingress client | `pkg/provider/kubernetes/ingress/client.go` | informer factories per namespace, `isNamespaceAll`, `watchedNamespaces` | `WatchAll`, `GetIngresses`, `GetService`/`GetEndpoints`/`GetSecret`, `UpdateIngressStatus`, `isLoadBalancerIngressEquals`, `lookupNamespace`, `isWatchedNamespace` | modelled (partly): `IngressClient` |
| gRPC-Web middleware | `pkg/middlewares/grpcweb/grpcweb.go` | allowed origins | origin check | not modelled: a stateless `any` over the configured origins |
| Provider interface, RouterTransform interface | `pkg/provider/provider.go`, `pkg/provider/kubernetes/k8s/router_transform.go` | none | interface declarations | not modelled: no behaviour |
| Generated IngressRoute REST client | `pkg/provider/kubernetes/crd/generated/.../ingressroute.go` | none | one REST call per method | not modelled: generated code, pure I/O |
| Default command configuration | `cmd/configuration.go` | static defaults | `NewTraefikConfiguration` | not modelled: constants only (throttle 2 s, entry point `web`) |
| Transports (C1), TLS (C2), load balancing and sticky sessions (C3), middleware builder (C4), rule matcher (C5) | none | | | not modelled: no code in this repository |

How they interact. Providers send configuration messages to the aggregator
(C8); after the throttle it calls `CreateRouters` (C7) with a runtime
configuration. `CreateRouters` cancels the context of the previous build,
creates a new one, builds HTTP handlers (through the service manager, the
middleware builder and the chain builder C6), TCP and UDP routers for every
entry point, launches the health checks of the new services on the new
context, and returns the routers. The listeners (C9) swap them in, one
atomic pointer per entry point, while connections keep being dispatched
through whichever root is current. The metrics registry is shared by the
chain builder, the listeners (open-connection gauge), the health checks
(server-up gauge) and the reload path (reload counters). The Ingress client
feeds the Kubernetes provider from informer caches and writes Ingress
status back to the API server.

What is hard.
- Reload: builds, listener swaps, health-check goroutines and live traffic
  interleave; a build's context is the only handle that stops its health
  checks; the spec has builds overlap (a new build starts while one is in
  flight) and promises that no stale build is installed.
- Metrics: the gauge collector is a global map guarded by a mutex that one
  writer (`newOTLPGaugeFrom`, line 323) does not take, read by the exporter's
  callback goroutine; `RegisterOpenTelemetry` is written to be called more
  than once (it reuses the provider) but resets every gauge each time;
  `With` appends to a shared slice.
- Metrics, across reloads: gauges `Set` by reload and health-probe
  goroutines live in the same collector, and the collector has no way to
  delete a series.
- Ingress client: `WatchAll` records the watched namespaces before the
  factories exist and keys them differently for "all namespaces"; status
  updates compare against the informer cache, which may be stale; the
  status comparison is not symmetric.

Properties that make each component correct (the ones marked * are checked
now, the others are planned).
- Router factory: at most one generation has running health checks and it
  is the one whose cancel func is kept*; the generation that serves has a
  live context once a reload has finished*; its load balancers converge on
  the servers' real state*; an entry point only ever moves to a newer
  configuration, and eventually serves the latest* (refinement of
  `ConfigReload`).
- Metrics: the gauge map is never written while the exporter reads it*; an
  open-connections series equals the number of open connections with its
  labels*; a gauge that is `Set` exports its latest value*; the server-up
  gauge exports only configured servers*; the exported server-up value of
  every configured server eventually matches whether it answers*; distinct
  label sets are distinct series*; a label slice, once returned by `With`,
  never changes*, and counters and histograms report to the SDK the labels
  their callers asked for*.
- Ingress client: every watched namespace has its informer factories
  (no nil dereference in `GetService`)*; `WatchAll` returns, and then the
  getters serve exactly the requested namespaces* (refinement of
  `NamespaceWatch`); the Ingress status converges to the
  published one, which needs `isLoadBalancerIngressEquals` to be multiset
  equality*.
- Chain builder: capture wraps every wrapper that observes the response*,
  in the fixed order of spec 4.6*, and rebuilding does not accumulate
  wrappers*.

## 2. Plan

Modules, in order of importance (the first is built):

1. `ConfigReload` (abstract) and `RouterFactory` + `MCRouterFactory` -
   done. Reload generations, cancellation, health checks, switch.
2. `OtelGauge` + `MCOtelGauge` - done: `RegisterOpenTelemetry`/`StopOpenTelemetry`
   lifecycle, `gaugeCollector.add`/`set`, `newOTLPGaugeFrom`'s unlocked
   reset of every gauge the registry creates, the collection callback
   under `mu`, connection goroutines adding to the open-connections gauge,
   reloads and health probes setting the last-reload and server-up gauges.
   Runs: one registration (pass); repeated registration (map race; gauge
   reset while connections are open); a reload removing a probed server.
3. `OtelLabels` - done: `otelLabelNamesValues.With` with Go `append` capacity
   semantics (aliasing of a shared backing array), `ToLabels`, and the
   `strings.Join` key of the gauge collector, checked against reference
   operators over bounded label lists.
4. `IngressClient` + MC - done: `WatchAll` step by step with failures,
   `isWatchedNamespace`/`lookupNamespace`/getters, `UpdateIngressStatus`
   against a lagging informer cache and a concurrent writer;
   `isLoadBalancerIngressEquals` against multiset equality.
5. `ChainBuilder` - done: `Build` per entry point and reload, checked
   against the order and the capture rule of spec 4.6.
6. Done in the second sitting: `gaugeCollector.set`, `otelGauge.Set` and
   the gauges of a registry in `OtelGauge`; the `WatchAll` error returns
   restricted to those client-go can produce.
7. Considered and left out: composing `RouterFactory` with the server-up
   gauge (every generation probes the same real servers, so a leaked
   generation's probes set the values the live one would; the stale
   series of a removed server is already `otel_removed_server`); `Close`
   racing a reload's `Build` in `ChainBuilder` (the order of shutdown
   steps is in the server, which is not in this repository, and spec 6
   only says accept loops stop before connections drain). `WatchAll` is
   always retried with the same namespace list (the provider passes its
   configured list), so a retry with another list is not a behaviour of
   this code. The project keeps at most 12 runs, so a new question
   replaces a weaker one.
8. Done in the third sitting: real server availability, the exported
   server-up values and fairness in `OtelGauge`, with the liveness property
   of spec 8, scenario B; counter `Add` and histogram `Observe` in
   `OtelLabels`, with an end-to-end property on the attributes the SDK
   receives; the abstract `NamespaceWatch`, which `WatchAll` is shown to
   implement (it replaces an invariant that only covered the `ok` state).

## 3. Modules and runs

### `ConfigReload` (abstract)

What the reload pipeline promises, without machinery: `latest` is the
newest provider configuration, `served[ep]` the one each entry point
dispatches to; an entry point only switches to a strictly newer published
version, and under weak fairness eventually serves the latest.

### `RouterFactory`

State: the aggregator's `cfgVersion` and throttle flag `pending`; per build
task a program counter `pc`, the configuration `taskConf` it builds, the
generation `taskGen` it created and the entry points `toInstall` it has not
switched yet; `cancelPrevState` (the field of the same name: the
generation whose cancel func is stored); `cancelled` and `launched` sets of
generations; `genConf` (configuration of each generation); `tcpRoots` and
`udpRoots` (the listener's current root per entry point); `up` (real
server state) and `view` (each generation's health view).

Actions and the code they stand for:
- `RouterKind(ep)`: the if/else of lines 53-57 (an invalid protocol goes
  to TCP); `EntryPointsTCP`/`EntryPointsUDP`: the two lists the loop of
  lines 45-58 builds from it.
- `CancelPrev(t)`: lines 74-76; `NewContext(t)`: lines 78-79; `Build(t)`:
  lines 81-108, including `LaunchHealthCheck(ctx)` and the return.
  `CreateRouters` is split at these points because that is where a second
  build can interleave; with one build task they run back to back.
- `ProviderMessage`, `ThrottleExpire(t)` (aggregator), `Install(t, ep)`
  (listener swap, one entry point at a time), `HealthCheckProbe(g, s)`
  (a tick of a live generation's health checker), `Serve(ep)` (data path:
  reads the root, changes nothing) are modelled from the spec.
- `ServerFlip(s)`: the environment.

Fairness: weak fairness on the throttle timer, on every step of a build
task and on each live generation's probes: the aggregator's goroutine and
the health-check tickers run without waiting on anything outside the
model. No fairness for provider messages or servers going down.

Runs (`MCRouterFactory`: entry points `web`, `websecure` TCP and `dns`
UDP, servers `s1`, `s2`, 3 provider messages, 2 server flips):
- `reload_serial` (`MCRouterFactory.cfg`, one build task, pass, about 18k
  states): `TypeOK` (among others, at most one generation per provider
  message: an aggregator that does not disarm its throttle timer when a
  build takes the configuration violates it); `SingleLiveGeneration` (every generation with running
  health checks is the one in `cancelPrevState`); `ServingIsLive` (after a
  reload every entry point's generation is live); `HealthConverges`
  (liveness); `ReloadRefinement` (`ConfigReload!Spec` under the mapping
  `served[ep] = genConf[root of ep]`).
- `reload_overlap_stale` (two build tasks, violation of
  `ReloadRefinement`): a build superseded while in flight still returns and
  is switched in after the newer one.
- `reload_overlap_leak` (two build tasks, violation of
  `SingleLiveGeneration`): both builds cancel the same old context; one new
  context is never cancelled.

Bounds: three messages give two reloads after the first build, enough for
a build to be superseded mid-flight and for an old generation to be
switched in after a new one; two entry points of one kind show a switch
left half-way; two flips let a server go down and come back while a
generation is or is not probing.

### `OtelGauge`

The gauge path of `pkg/metrics/opentelemetry.go`. State: `provider` (the
global meter provider, 0 for nil), `collector`, `callbacks` (the gauges
whose callbacks are registered on the live provider), `values` (the collector's
`values` map: gauge name to series key to value), the main goroutine's
`regPc`, `regCount` and `gaugeIdx` (the gauge being created), `registry` (some `RegisterOpenTelemetry` call
returned non-nil), the periodic reader's `readerPc`, the holder of `mu`,
per connection goroutine `connPc`, `connLabels` and `tracked` (it got a
real gauge), and for the rest of the server `reloads`, the servers of the
configuration in force (`configured`) and the last result each server's
health probe set (`probed`), whether each server really answers (`alive`,
changed `flips` times), and the server-up values the last collection
observed (`exported`). Four gauge names are followed: open
connections (`Add`), last reload success and server up (`Set`), and the
TLS certificate gauge, which is created and reset like them but which
nothing in the model sets.

Actions and the code they stand for:
- `RegisterStart`: lines 35-47 (reuse or create the provider, or fail and
  return nil; create the collector). `GaugeOrder`: the gauges lines 48-111
  create, in that order (last reload, open connections, TLS certificates,
  and server up only with `AddServicesLabels`).
- For each gauge in turn, `RegisterResetBegin`/`RegisterResetEnd`: line
  323 of its `newOTLPGaugeFrom`, the write of `values[name]` without `mu`,
  split in two so that another goroutine's access can fall inside it; then
  `RegisterCallback`: lines 325-353 (its callback registered; after the
  last gauge the registry is returned). So a callback of an earlier gauge
  is registered while a later gauge's line 323 is still to come.
  `StopOpenTelemetry`: lines 113-126.
- `CollectBegin`/`CollectEnd`: the registered callbacks, lines 330-343,
  under `mu`; the server-up values they observe are what the exporter
  sends. Timing assumption `ReaderTicks`: the periodic reader first
  collects one export interval (10s by default) after the provider is
  created, so never while the `RegisterOpenTelemetry` call that created
  it is still creating gauges; a later call, which reuses the provider,
  gets no such protection.
- `ConnOpenBegin(c, l)`/`ConnOpenEnd(c)` and `ConnCloseBegin`/`ConnCloseEnd`:
  `gauge.With(l).Add(+1)` and `Add(-1)` (lines 361-371), i.e.
  `gaugeCollector.add` (lines 277-306, operator `AddToGauge`) under `mu`.
- `ConfigReloaded`: a successful reload (spec 4.8; the caller is not in
  this repository) puts a new server set in force and sets the
  last-reload gauge; `HealthProbe(s)`: a probe of a configured server sets
  its server-up series to 1 if it answers and 0 if not (the probe itself
  is the spec's health checker, modelled from spec 4.3). `ServerFlip(s)`: a
  server goes down or comes back (environment). Both go through `otelGauge.Set` (lines
  373-375) into `gaugeCollector.set` (lines 308-320, operator `SetGauge`),
  one step each because `set` holds `mu` throughout.

A Go map written while another goroutine accesses it is a data race (the
runtime aborts); a goroutine is an accessor from its begin step to its end
step, and `NoMapRace` says there is never more than one.

Fairness: weak fairness on the rest of a registration once started and on
the release of `mu` by a connection or the reader (their critical sections
end); strong fairness on the periodic reader's `CollectBegin` and on each
server's `HealthProbe`, which tick for as long as the process runs but need
`mu`, which connections take and release over and over: `sync.Mutex`
hands the lock to a waiter blocked for more than 1ms (starvation mode), so
a waiter is not overtaken forever. Register/Stop calls, connections,
reloads and servers are the environment and get no fairness.

Runs (`MCOtelGauge`: connections `c1`, `c2`, label sets `web`, `websecure`,
servers `s1`, `s2`, services labels on, two reloads):
- `otel_single_register` (`MCOtelGauge.cfg`, one `RegisterOpenTelemetry`
  call, as the server makes at start-up, pass): `TypeOK` (every
  open-connections value is a connection count, never negative),
  `NoMapRace` (which holds here because of `ReaderTicks`: without it the
  reader could collect between two gauges' registration),
  `GaugeMatchesOpenConnections` (each series equals the
  number of tracked open connections with its labels, and exists when that
  number is positive), and `ServerUpConverges` (spec 8, scenario B: while the provider runs with
  the callbacks, the exported server-up value of every configured server
  eventually is and stays 1 if it answers and 0 if not).
- `otel_reregister_race` (two calls, violation of `NoMapRace`): the second
  call's unlocked reset overlaps the running reader's callback.
- `otel_reregister_reset` (two calls, violation of
  `GaugeMatchesOpenConnections`): the reset drops the count of the
  connections already open (the first violating state; the gauge goes
  negative when those connections later close).
- `otel_removed_server` (one call, violation of
  `ServerUpSeriesConfigured`): a reload drops a server a probe had
  reported, and its series stays exported.

Bounds: two connections and two label sets let two connections share a
series and another series exist beside it, and give every pair of
accessors of the map; two registration calls are the least that reach the
reuse path of line 36; two servers and two reloads let a reload keep one
server and drop another, and let a second reload follow the first; two
server flips let a server go down and come back, or two servers go down.

### `OtelLabels`

`otelLabelNamesValues` is a Go slice, and `With` (lines 412-418) returns
`append(lvs, labelValues...)`. The model keeps the backing arrays
(`arrays`, each a sequence as long as its capacity), every label list
derived so far (`slices`, records of array, length and capacity, the nil
list of a fresh instrument first), how many `With` calls made each
(`depth`) and what those calls passed (`intended`). `AppendSlice` is Go's
`append`: in place when the capacity has room, otherwise into a new array
of the capacity `growslice` picks (`GrowCap`: double, or the needed length
if that is more; no size-class rounding below 16 strings). `WithCall` is a
`With` on any list so far (the wrappers of the counter, gauge and histogram
all reduce to it). `CounterAdd(h)` and `HistogramObserve(h)` (lines 257-259,
400-402) hand `ToLabels` of list `h`, as it is at the call, to the SDK
(`recorded`, counted per instrument kind and attribute pairs), and `owed`
counts the pairs the list's `With` calls asked for. `GaugeAdd` is `gaugeCollector.add` of `+1` under the
key `SeriesKey` = `strings.Join(attributes, "")` (line 280), with label
values as short character sequences, and the two label names fixed.

Runs (`MCOtelLabels`: values `v1`, `v2`; argument lists `(v1, v2)`,
`(v2)`, `(v1, v2, v1)`; two gauge adds; two counter or histogram calls).
Both are violation runs; what holds before the bugs they show is not
checked, because with fewer chained `With` calls no list has spare
capacity, and with one-character values no two keys can collide, so a
passing run would hold whatever the code does.
- `labels_key_collision` (`MCOtelLabels.cfg`: label values of one or two
  characters, no chained `With`; violation of `SeriesPerLabelList`, "each
  exported series has the count of the adds of its own label list"): TLC
  finds `(a, "a", b, "ba")` and `(a, "ab", b, "a")` joined to the same key
  `"aabba"`, so their adds are summed into one series; `strings.Join`
  without a separator is not injective, and a collision needs only a
  value that ends or starts with the next label's name.
- `labels_deep_alias` (violation of `RecordedAsIntended`, "the counter and
  histogram calls hand the SDK exactly the attribute pairs their callers'
  `With` calls asked for"): two chained calls, the first with three values
  padded to four, leave a list with length 6 and capacity 8; two `With`
  calls on it write the same slots, and a counter `Add` on the first
  reports the second's labels.

Bounds: depth 2 (a `With` on an instrument and one on its result) is the
smallest depth where a wrong padding order leaves spare capacity; depth 3
is the smallest where Go's own growth does.

### `NamespaceWatch` (abstract)

What `WatchAll` promises the provider: given the requested namespaces
(`requested`), it moves from `starting` either to `watching`, where
exactly the requested namespaces are served, or to `stopped`; under weak
fairness it does not stay in `starting`. Failed attempts that are retried
are invisible at this level.

### `IngressClient`

State: `WatchAll`'s position `wPc` (`call`, `register`, `start`,
`cluster`, then `ok`, `err` or `stopped`) and loop index `idx`; the configured list
`nsArg` and the defaulted `nsList`; the fields `isNamespaceAll`,
`watchedNamespaces` (`watched`), the key sets of the three factory maps and
`clusterFactory` and the configuration flag `disableIngressClassInformer`
(either value, as an initial state); for one Ingress, its status and resourceVersion in the
API server (`api`) and in the informer cache (`cache`), the status the
provider publishes (`desired`), whether an event is waiting in the
capacity-1 `eventCh` (`event`), and how many `UpdateStatus` calls failed
(`updFailures`).

Actions and the code they stand for:
- `WatchAllBegin` (lines 132-153: server version, which can fail through
  `Fail`, and the provider retries; defaulting of an empty list;
  `watchedNamespaces`), `RegisterNamespace` (163-186, one namespace),
  `StartAndSync` (188-212), `WatchCluster` (214-236). client-go's
  `AddEventHandler` fails only on a stopped informer, and these factories
  are new, so its error returns are never taken; `WaitForCacheSync`
  reports "not synced" only once the stop channel has closed, so a sync
  error ends in `stopped`, where the provider has stopped and does not
  retry.
- `UpdateIngressStatus` (258-288): watched-namespace check, the cached
  copy, the `isLoadBalancerIngressEquals` skip, `UpdateStatus` refused on a
  stale resourceVersion, or failing (its 5s timeout, the network) with the
  error only returned.
- `Resync`: the informers re-deliver their objects every `resyncPeriod`
  (line 28, given to the factories), which signals `eventCh` and is the
  only thing that retries a failed update when nothing else changes.
- Operators: `lookupNamespace`, `isWatchedNamespace`, `Get` (outcome of
  `GetService`/`GetEndpoints`/`GetSecret`: not watched, nil factory, read),
  `isLoadBalancerIngressEquals`, `Listed` (`GetIngresses` returns the
  Ingress), `GetIngressClasses` (343-362: "cluster factory not loaded"
  while `clusterFactory` is nil, otherwise a lister read; the filter on
  traefik's controller name is data and left out).
- Environment: `RetryWatch` (the provider calls `WatchAll` again on the
  same client), `CacheSync` (the informer catches up and signals
  `eventCh`), `OtherWrite` (another writer sets the status).

Fairness: weak fairness on every `WatchAll` step, the retry, the
provider's handling of events, the informer's sync and its resync timer,
all of which wait on nothing outside the model; none on the other writer.
Failures and other writes are bounded, so they stop. With the resync
turned off (a resync period of 0), one failed `UpdateStatus` leaves the
status wrong for good, and TLC finds `StatusConverges` violated.

Runs (`MCIngressClient`: namespaces `a`, `b`; the Ingress in `a`;
entries `eIP` = IP `x`, `eHost` = hostname `y`, `eHostX` = hostname `x`):
- `ingress_watch_status` (pass; lists `[]`, `[a]`, `[a, b]`; up to two
  failed calls and two failed `UpdateStatus`; the desired status
  `[eIP, eHost]`; two writes of `[eHost, eIP]`, `[eHost]` or
  `[eIP, eHost, eHost]`): `TypeOK`,
  `NoNilFactory` (also: at `ok`, `GetIngressClasses` fails exactly when
  the IngressClass informer is disabled, both settings of
  `disableIngressClassInformer` being initial states; a `WatchCluster` that never
  stores the factory violates it), `WatchRefinement` (the client implements
  `NamespaceWatch` under the mapping: `requested` is the list's namespaces,
  all of them for `[]` or a list naming `""`; `phase` is `watching` at
  `ok`, `stopped` at `stopped`, `starting` otherwise; `served` is, at `ok`,
  the namespaces all three factories serve through `Get`), `StatusConverges` (liveness: once
  `WatchAll` has returned, the API server's status eventually is and stays
  the desired multiset).
- The list `[""]` (`NamespaceArgs <- MCNamespaceArgsExplicitAll` in
  `MCIngressClient.cfg`) violates `WatchRefinement`: the factories watch
  every namespace and the getters reject each one (`client.go:148`). It is
  kept as a documented case rather than a run (a namespace list naming
  `""` is an unusual configuration); the hazard in `PROJECT.json` records
  it.
- `ingress_lb_equal` (desired `[eIP, eIP]` or `[eHostX]`, another writer
  puts `[eIP, eHost]` or `[eIP]`; violation of `StatusConverges`).

Bounds: two namespaces give a list longer than one, so the loops of
`WatchAll` take more than one turn; two failures let a retry itself fail;
two writes by another writer, in every order relative to the cache and to
the provider's own writes, reach the skip on a stale cache, the conflict,
and a write that undoes a correction; two failed updates let the retry on
resync fail again.

### `ChainBuilder`

State: the builder's configuration `cfg` (access logger or nil; metrics
registry nil or which of entry-point, router and service metrics it
enables; tracer or nil), every configuration being an initial state; the
last chain `Build` returned per entry point (`chains`, wrappers outermost
first), the entry points built so far, the number of builds, and `closed`.
`BuildChain` is lines 33-53 (`MetricsOn` is `registry != nil &&
Is...Enabled()`); `Build(ep)` is a reload's call for one entry point;
`Close` is lines 56-66.

Run `chain_every_config` (two entry points, three builds so one is
rebuilt; pass): `TypeOK` (a chain holds at most the four wrappers, which
fails if rebuilding extends the previous chain); `CaptureEnclosesObservers`
(when the access log, entry-point metrics, or router or service metrics
inside the chain observe the status, capture is the outermost wrapper;
the configuration with only router or service metrics is the one that
depends on the unparenthesised `||`/`&&` of line 36, and a capture
condition that leaves those terms out violates it);
The run stops after the
bounded builds and `Close`, so deadlock is not checked.

## 4. Not modelled, and why

- The bodies of the HTTP/TCP/UDP managers, middleware builder, rule
  matcher, load balancer, transports and TLS store: not in this repository;
  their effect on reload is abstracted to "the handlers of generation g".
- Health-check hysteresis and sticky sessions (spec 4.3): not in this
  repository; a probe publishes the server's state directly.
- The spec's "previous good generation stays installed if a build yields
  no valid router": routers are not validated in this repository's code.
- Logging, metric descriptions, exporter set-up (`newOpenTelemetryMeterProvider`,
  `newHTTPExporter`, `newGRPCExporter`, TLS client config): configuration
  and I/O, whose only effect on the model is that `RegisterStart` may fail.
- The values of counter `Add` and histogram `Observe`: the SDK sums and
  buckets them; only the attributes they are recorded under are modelled.
- The IngressClass list itself: `GetIngressClasses`' controller-name filter,
  `filterIngressClassByName` and `translateNotFoundError` are read-only
  filters and error mapping over objects the model does not hold; only
  `GetIngressClasses`' nil-factory outcome is modelled.
- The Ingress client's constructors (`newInClusterClient`,
  `newExternalClusterClient...`, `createClientFromConfig`): reading
  kubeconfig files, tokens and CA files, i.e. configuration and I/O.
- The histogram constructor `newOTLPHistogramFrom`: identical in shape to
  `newOTLPCounterFrom`, which `OtelLabels`' `Init` (a fresh instrument's
  nil label list) stands for.
- `ChainBuilder.Close` racing `Build`: the order of shutdown and reload is
  decided by the server, which is not in this repository.
- The generated IngressRoute client: generated REST calls.
- The gRPC-Web middleware: it wraps an external library's handler; its
  origin function is a stateless `any` over the configured origins.
- `cmd/configuration.go`, `provider.go`, `router_transform.go`: defaults
  and interface declarations, with no behaviour to check.

## 5. Findings

Each is a violation run; `PROJECT.json` gives the source line.
- `reload_overlap_stale`: a `CreateRouters` call superseded while it is
  still building returns its routers anyway, and they can be switched in
  after the newer ones (`routerfactory.go:73`).
- `reload_overlap_leak`: `cancelPrevState` is read and written without
  synchronisation, so two overlapping calls lose one cancel func; that
  generation's health checks never stop (`routerfactory.go:74`).
- `otel_reregister_race`: a second `RegisterOpenTelemetry` writes the gauge
  map without `mu` while the reader's callback holds it
  (`opentelemetry.go:323`).
- `otel_reregister_reset`: the same call empties the open-connections
  gauge while connections are open, so it no longer counts them (and
  goes negative as they close).
- `labels_key_collision`: `gaugeCollector.add` keys series by
  `strings.Join(attributes, "")`, so two label lists can share a series
  (`opentelemetry.go:280`).
- `labels_deep_alias`: `With` on a label list with spare capacity shares
  the backing array with a sibling, so a counter reports another list's
  labels (`opentelemetry.go:417`).
- `otel_removed_server`: the gauge collector never deletes a series, so a
  server removed by a reload keeps its server-up series, with its last
  probe result, for as long as the process runs (`opentelemetry.go:308`).
- `ingress_lb_equal`: `isLoadBalancerIngressEquals` calls `[a, b]` equal to
  `[a, a]` and a hostname equal to the same string as an IP, so a wrong
  status is never corrected (`client.go:297`).
