------------------------------ MODULE OtelGauge ------------------------------
(***************************************************************************)
(* The OpenTelemetry gauge path of pkg/metrics/opentelemetry.go, for one   *)
(* gauge name (the open-connections gauge; the other gauges registered by  *)
(* newOTLPGaugeFrom behave the same way).                                  *)
(*                                                                         *)
(* Three kinds of goroutine share the global openTelemetryGaugeCollector: *)
(*   - the main goroutine calls RegisterOpenTelemetry and                  *)
(*     StopOpenTelemetry;                                                  *)
(*   - the meter provider's periodic reader runs the gauge callback, which *)
(*     locks gaugeCollector.mu and reads values[name];                     *)
(*   - connection goroutines call gauge.Add(+1) / Add(-1), i.e.            *)
(*     gaugeCollector.add under mu.                                        *)
(* newOTLPGaugeFrom writes values[name] without taking mu.                 *)
(*                                                                         *)
(* Go maps are not safe for a write concurrent with any other access; a    *)
(* goroutine "accesses" the map from the step that starts its access to    *)
(* the step that ends it, so a data race is a state with two accessors.   *)
(***************************************************************************)
EXTENDS Integers, Sequences, FiniteSets, Functions, TLC

CONSTANTS
    Conns,             \* connection goroutines
    Labels,            \* label sets a connection's gauge is taken With (entry point, protocol)
    Servers,           \* server URLs a configuration may contain
    AddServicesLabels, \* config.AddServicesLabels
    MaxRegisters,      \* bound on RegisterOpenTelemetry calls
    MaxReloads,        \* bound on configuration reloads
    MaxFlips           \* bound on servers going down or coming back

ASSUME Conns # {} /\ Labels # {} /\ MaxRegisters \in Nat \ {0}
ASSUME AddServicesLabels \in BOOLEAN /\ MaxReloads \in Nat /\ MaxFlips \in Nat

\* The gauge names whose collector values the model follows, and the key
\* of a series taken without With (strings.Join of no labels).
ConnsGauge  == "open_connections"
ReloadGauge == "config_last_reload_success"
UpGauge     == "service_server_up"
NoLabels    == ""

\* A server not probed since the model started.
NotProbed == -1

VARIABLES
    provider,     \* openTelemetryMeterProvider: 0 (nil) or the id of the live provider
    collector,    \* openTelemetryGaugeCollector != nil
    callbacks,    \* gauges whose callbacks are registered on the live provider
    values,       \* gaugeCollector.values: name -> (series key -> value)
    regCount,     \* RegisterOpenTelemetry calls started
    regPc,        \* main goroutine's position
    gaugeIdx,     \* index in GaugeOrder of the gauge newOTLPGaugeFrom is creating
    registry,     \* some call returned a registry (not nil)
    readerPc,     \* periodic reader: "idle" or "collecting" (inside a callback)
    mu,           \* holder of gaugeCollector.mu, or NoHolder
    connPc,       \* connPc[c]: "closed", "opening", "open", "closing"
    connLabels,   \* connLabels[c]: label set of connection c's gauge
    tracked,      \* tracked[c]: c took its gauge from a real registry
    reloads,      \* successful configuration reloads so far
    configured,   \* servers of the configuration in force
    probed,       \* probed[s]: last value a health probe Set for s, or NotProbed
    alive,        \* alive[s]: server s really answers (environment)
    flips,        \* server status changes so far
    exported      \* server-up series the last collection observed

vars == <<provider, collector, callbacks, values, regCount, regPc, gaugeIdx, registry,
          readerPc, mu, connPc, connLabels, tracked, reloads, configured, probed,
          alive, flips, exported>>

NoHolder == "none"
Reader == "reader"

\* The series of a gauge name, as the callback reads it (none if absent).
Series(name) == IF name \in DOMAIN values THEN values[name] ELSE <<>>

\* Connections whose Add(+1) has been applied and whose Add(-1) has not.
OpenCount(l) ==
    Cardinality({c \in Conns : connPc[c] \in {"open", "closing"}
                                 /\ connLabels[c] = l /\ tracked[c]})

\* Goroutines currently reading or writing the values map.
Accessors ==
    {c \in Conns : connPc[c] \in {"opening", "closing"}}
    \cup (IF readerPc = "collecting" THEN {Reader} ELSE {})
    \cup (IF regPc = "resetting" THEN {"main"} ELSE {})

Init ==
    /\ provider = 0
    /\ collector = FALSE
    /\ callbacks = {}
    /\ values = <<>>
    /\ regCount = 0
    /\ regPc = "idle"
    /\ gaugeIdx = 1
    /\ registry = FALSE
    /\ readerPc = "idle"
    /\ mu = NoHolder
    /\ connPc = [c \in Conns |-> "closed"]
    /\ connLabels = [c \in Conns |-> CHOOSE l \in Labels : TRUE]
    /\ tracked = [c \in Conns |-> FALSE]
    /\ reloads = 0
    /\ configured = {}
    /\ probed = [s \in Servers |-> NotProbed]
    /\ alive = [s \in Servers |-> TRUE]
    /\ flips = 0
    /\ exported = <<>>

\* Fault variant: an existing series is overwritten by the delta
\* (value: delta instead of v.value + delta, line 304).
AddToGaugeOverwrite(name, l, delta) ==
    values' = IF name \notin DOMAIN values THEN values @@ (name :> (l :> delta))
              ELSE [values EXCEPT ![name] = (l :> delta) @@ @]

\* Fault variant: a new series key replaces the whole values[name] map
\* (the branch of line 284 taken for a missing key, not a missing name).
AddToGaugeReplaceMap(name, l, delta) ==
    values' = IF name \in DOMAIN values /\ l \in DOMAIN values[name]
              THEN [values EXCEPT ![name][l] = @ + delta]
              ELSE [n \in DOMAIN values \cup {name} |->
                      IF n = name THEN (l :> delta) ELSE values[n]]

-----------------------------------------------------------------------------
(* gaugeCollector.add(name, delta, attributes) and                         *)
(* gaugeCollector.set(name, value, attributes), each under mu.             *)

\* add (lines 277-306): a missing name gets a map with the one series; a
\* missing key gets the delta; an existing series is summed.
AddToGauge(name, l, delta) ==
    values' = IF name \notin DOMAIN values THEN (name :> (l :> delta)) @@ values
              ELSE IF l \notin DOMAIN values[name]
                   THEN [values EXCEPT ![name] = @ @@ (l :> delta)]
              ELSE [values EXCEPT ![name][l] = @ + delta]

\* Fault variant: set adds the value to an existing series.
SetGaugeAdd(name, l, v) ==
    values' = IF name \in DOMAIN values /\ l \in DOMAIN values[name]
              THEN [values EXCEPT ![name][l] = @ + v]
              ELSE [n \in DOMAIN values \cup {name} |->
                      IF n = name THEN (l :> v) @@ Series(name) ELSE values[n]]

\* set (lines 308-320): a missing name gets an empty map; the series is
\* overwritten with the value.
SetGauge(name, l, v) ==
    values' = [n \in DOMAIN values \cup {name} |->
                 IF n = name THEN (l :> v) @@ Series(name) ELSE values[n]]

\* The TLS certificate gauge: nothing in the model sets it, but its
\* newOTLPGaugeFrom writes values like the others.
TLSGauge == "tls_certs_not_after"

\* The gauges RegisterOpenTelemetry creates with newOTLPGaugeFrom, in the
\* order it creates them (lines 48-111): last reload success, open
\* connections and TLS certificates always, the server-up gauge iff
\* services labels are on.
GaugeOrder ==
    <<ReloadGauge, ConnsGauge, TLSGauge>> \o (IF AddServicesLabels THEN <<UpGauge>> ELSE <<>>)

-----------------------------------------------------------------------------
(* Main goroutine: RegisterOpenTelemetry and StopOpenTelemetry.            *)

\* Lines 36-47: reuse the provider or create it (which starts its periodic
\* reader); on failure log and return nil.  Then create the collector if
\* there is none, and start on the first gauge.
RegisterStart ==
    /\ regPc = "idle"
    /\ regCount < MaxRegisters
    /\ regCount' = regCount + 1
    /\ \/ /\ provider # 0
          /\ regPc' = "reset"
          /\ UNCHANGED <<provider, callbacks>>
       \/ /\ provider = 0
          /\ provider' = regCount + 1
          /\ callbacks' = {}
          /\ regPc' = "reset"
       \/ /\ provider = 0
          /\ UNCHANGED <<provider, callbacks, regPc>>
    /\ collector' = (collector \/ regPc' = "reset")
    /\ gaugeIdx' = 1
    /\ UNCHANGED <<values, registry, readerPc, mu, connPc, connLabels, tracked,
                   reloads, configured, probed, alive, flips, exported>>

\* Line 323 of the current gauge's newOTLPGaugeFrom:
\* values[name] = make(...), without mu.  The write starts ...
RegisterResetBegin ==
    /\ regPc = "reset"
    /\ regPc' = "resetting"
    /\ UNCHANGED <<provider, collector, callbacks, values, regCount, gaugeIdx,
                   registry, readerPc, mu, connPc, connLabels, tracked, reloads,
                   configured, probed, alive, flips, exported>>

\* ... and ends with an empty map for that gauge.
RegisterResetEnd ==
    /\ regPc = "resetting"
    /\ values' = (GaugeOrder[gaugeIdx] :> <<>>) @@ values
    /\ regPc' = "callback"
    /\ UNCHANGED <<provider, collector, callbacks, regCount, gaugeIdx, registry,
                   readerPc, mu, connPc, connLabels, tracked, reloads,
                   configured, probed, alive, flips, exported>>

\* Lines 325-353: the gauge's callback is registered on the provider's
\* meter, from where the reader may run it; then the next gauge of lines
\* 48-111 is created, or the registry is returned after the last one.
RegisterCallback ==
    /\ regPc = "callback"
    /\ callbacks' = callbacks \cup {GaugeOrder[gaugeIdx]}
    /\ IF gaugeIdx = Len(GaugeOrder)
       THEN /\ registry' = TRUE
            /\ regPc' = "idle"
            /\ UNCHANGED gaugeIdx
       ELSE /\ gaugeIdx' = gaugeIdx + 1
            /\ regPc' = "reset"
            /\ UNCHANGED registry
    /\ UNCHANGED <<provider, collector, values, regCount, readerPc, mu, connPc,
                   connLabels, tracked, reloads, configured, probed,
                   alive, flips, exported>>

\* StopOpenTelemetry (113-126): Shutdown waits for a collection in progress,
\* stops the reader, and the provider is forgotten.  The collector and its
\* values are kept.
StopOpenTelemetry ==
    /\ regPc = "idle"
    /\ provider # 0
    /\ readerPc = "idle"
    /\ provider' = 0
    /\ callbacks' = {}
    /\ UNCHANGED <<collector, values, regCount, regPc, gaugeIdx, registry, readerPc, mu,
                   connPc, connLabels, tracked, reloads, configured, probed,
                   alive, flips, exported>>

-----------------------------------------------------------------------------
(* The periodic reader runs the gauge callbacks (lines 330-344).           *)

\* The periodic reader first collects one export interval (10s by default)
\* after the provider is created, so not while the RegisterOpenTelemetry
\* call that created it is still registering gauges: the model's timing
\* assumption.  A later call that reuses the provider can overlap it.
ReaderTicks == ~(regPc # "idle" /\ provider = regCount)

\* Fault variant: the callback reads values without locking mu.
CollectBeginNoLock ==
    /\ provider # 0 /\ callbacks # {} /\ ReaderTicks
    /\ readerPc = "idle"
    /\ readerPc' = "collecting"
    /\ UNCHANGED <<provider, collector, callbacks, values, regCount, regPc, gaugeIdx,
                   registry, mu, connPc, connLabels, tracked, reloads,
                   configured, probed,
                   alive, flips, exported>>

CollectBegin ==
    /\ provider # 0 /\ callbacks # {} /\ ReaderTicks
    /\ readerPc = "idle"
    /\ mu = NoHolder
    /\ mu' = Reader
    /\ readerPc' = "collecting"
    /\ UNCHANGED <<provider, collector, callbacks, values, regCount, regPc, gaugeIdx,
                   registry, connPc, connLabels, tracked, reloads, configured,
                   probed,
                   alive, flips, exported>>

\* Observes every value of values[name] (none if the name is absent) and
\* unlocks; the server-up observations are what the exporter sends.
CollectEnd ==
    /\ readerPc = "collecting"
    /\ exported' = IF UpGauge \in callbacks THEN Series(UpGauge) ELSE <<>>
    /\ mu' = NoHolder
    /\ readerPc' = "idle"
    /\ UNCHANGED <<provider, collector, callbacks, values, regCount, regPc, gaugeIdx,
                   registry, connPc, connLabels, tracked, reloads, configured,
                   probed, alive, flips>>

-----------------------------------------------------------------------------
(* Connection goroutines: openConnectionsGauge.With(labels).Add(+1) when   *)
(* a connection is accepted and Add(-1) when it closes (otelGauge.Add,     *)
(* lines 369-371, into gaugeCollector.add, lines 277-306).  Connections    *)
(* are accepted once the first RegisterOpenTelemetry call has returned;    *)
(* a connection keeps the gauge it was given (a void one if the call       *)
(* returned nil).                                                          *)

connRest == <<provider, collector, callbacks, regCount, regPc, gaugeIdx, registry,
              readerPc, reloads, configured, probed,
                   alive, flips, exported>>

ConnOpenBegin(c, l) ==
    /\ regCount > 0 /\ regPc = "idle"
    /\ connPc[c] = "closed"
    /\ connLabels' = [connLabels EXCEPT ![c] = l]
    /\ tracked' = [tracked EXCEPT ![c] = registry]
    /\ \/ /\ registry
          /\ mu = NoHolder
          /\ mu' = c
          /\ connPc' = [connPc EXCEPT ![c] = "opening"]
       \/ /\ ~registry
          /\ connPc' = [connPc EXCEPT ![c] = "open"]
          /\ UNCHANGED mu
    /\ UNCHANGED <<values, connRest>>

ConnOpenEnd(c) ==
    /\ connPc[c] = "opening"
    /\ AddToGauge(ConnsGauge, connLabels[c], 1)
    /\ mu' = NoHolder
    /\ connPc' = [connPc EXCEPT ![c] = "open"]
    /\ UNCHANGED <<connLabels, tracked, connRest>>

ConnCloseBegin(c) ==
    /\ connPc[c] = "open"
    /\ \/ /\ tracked[c]
          /\ mu = NoHolder
          /\ mu' = c
          /\ connPc' = [connPc EXCEPT ![c] = "closing"]
       \/ /\ ~tracked[c]
          /\ connPc' = [connPc EXCEPT ![c] = "closed"]
          /\ UNCHANGED mu
    /\ UNCHANGED <<values, connLabels, tracked, connRest>>

ConnCloseEnd(c) ==
    /\ connPc[c] = "closing"
    /\ AddToGauge(ConnsGauge, connLabels[c], -1)
    /\ mu' = NoHolder
    /\ connPc' = [connPc EXCEPT ![c] = "closed"]
    /\ UNCHANGED <<connLabels, tracked, connRest>>

-----------------------------------------------------------------------------
(* Gauges Set by the rest of the server through the registry               *)
(* (otelGauge.Set, lines 373-375, into gaugeCollector.set).  A set holds  *)
(* mu for the whole map access, so it is one step; it needs the registry, *)
(* so in a single registration it never overlaps the reset of line 323.   *)

setRest == <<provider, collector, callbacks, regCount, regPc, gaugeIdx, registry,
             readerPc, mu, connPc, connLabels, tracked, alive, flips, exported>>

\* A configuration reload succeeds: the new configuration (its servers) is
\* in force and lastConfigReloadSuccessGauge.Set(now) is called; now is
\* abstracted to the reload's number, which increases as time does.
ConfigReloaded ==
    /\ registry
    /\ reloads < MaxReloads
    /\ mu = NoHolder
    /\ reloads' = reloads + 1
    /\ configured' \in SUBSET Servers
    /\ SetGauge(ReloadGauge, NoLabels, reloads + 1)
    /\ UNCHANGED <<probed, setRest>>

\* A health probe of a configured server reports whether it answers, up
\* (1) or down (0), with serviceServerUpGauge.With(service, url).Set; the
\* gauge exists only when services labels are on.
HealthProbe(s) ==
    /\ registry /\ AddServicesLabels
    /\ s \in configured
    /\ mu = NoHolder
    /\ LET up == IF alive[s] THEN 1 ELSE 0 IN
          /\ probed' = [probed EXCEPT ![s] = up]
          /\ SetGauge(UpGauge, s, up)
    /\ UNCHANGED <<reloads, configured, setRest>>

\* An upstream server goes down or comes back (environment).
ServerFlip(s) ==
    /\ flips < MaxFlips
    /\ flips' = flips + 1
    /\ alive' = [alive EXCEPT ![s] = ~@]
    /\ UNCHANGED <<provider, collector, callbacks, values, regCount, regPc, gaugeIdx,
                   registry, readerPc, mu, connPc, connLabels, tracked,
                   reloads, configured, probed, exported>>

-----------------------------------------------------------------------------

Next ==
    \/ RegisterStart \/ RegisterResetBegin \/ RegisterResetEnd
    \/ RegisterCallback \/ StopOpenTelemetry
    \/ CollectBegin \/ CollectEnd
    \/ \E c \in Conns :
          \/ \E l \in Labels : ConnOpenBegin(c, l)
          \/ ConnOpenEnd(c) \/ ConnCloseBegin(c) \/ ConnCloseEnd(c)
    \/ ConfigReloaded
    \/ \E s \in Servers : HealthProbe(s) \/ ServerFlip(s)

\* The main goroutine finishes a registration it has started, a goroutine
\* holding mu releases it, and the periodic reader and the health checker
\* keep ticking.  The reader and a probe need mu, which connections take
\* and release over and over, so they are enabled only intermittently;
\* sync.Mutex switches to starvation mode for a waiter blocked more than
\* 1ms, which hands it the lock, hence strong fairness for them.  Calls
\* to Register/Stop, connections, reloads and servers are the
\* environment and owe nothing.
Fairness ==
    /\ WF_vars(RegisterResetBegin) /\ WF_vars(RegisterResetEnd)
    /\ WF_vars(RegisterCallback)
    /\ SF_vars(CollectBegin) /\ WF_vars(CollectEnd)
    /\ \A c \in Conns : WF_vars(ConnOpenEnd(c)) /\ WF_vars(ConnCloseEnd(c))
    /\ \A s \in Servers : SF_vars(HealthProbe(s))

Spec == Init /\ [][Next]_vars /\ Fairness

-----------------------------------------------------------------------------
(* Properties.                                                             *)

TypeOK ==
    /\ provider \in 0..MaxRegisters
    /\ collector \in BOOLEAN /\ callbacks \subseteq Range(GaugeOrder) /\ registry \in BOOLEAN
    /\ DOMAIN values \subseteq Range(GaugeOrder)
    \* an open-connections series counts connections
    /\ \A l \in DOMAIN Series(ConnsGauge) :
          l \in Labels /\ Series(ConnsGauge)[l] \in 0..Cardinality(Conns)
    /\ \A s \in DOMAIN Series(UpGauge) : s \in Servers /\ Series(UpGauge)[s] \in {0, 1}
    /\ regCount \in 0..MaxRegisters
    /\ regPc \in {"idle", "reset", "resetting", "callback"}
    /\ gaugeIdx \in 1..Len(GaugeOrder)
    /\ readerPc \in {"idle", "collecting"}
    /\ mu \in Conns \cup {NoHolder, Reader}
    /\ connPc \in [Conns -> {"closed", "opening", "open", "closing"}]
    /\ connLabels \in [Conns -> Labels]
    /\ tracked \in [Conns -> BOOLEAN]
    /\ reloads \in 0..MaxReloads /\ configured \subseteq Servers
    /\ probed \in [Servers -> {NotProbed, 0, 1}]
    /\ alive \in [Servers -> BOOLEAN] /\ flips \in 0..MaxFlips
    /\ DOMAIN exported \subseteq Servers

\* The values map of the gauge collector is never accessed by two
\* goroutines at once: the callback and gaugeCollector.add exclude each
\* other through mu, and the unlocked write of newOTLPGaugeFrom (line 323)
\* must not overlap either of them (Go aborts on a concurrent map write).
NoMapRace == Cardinality(Accessors) <= 1

\* What the callback would export for each label set is the number of
\* connections open with it: a series exists exactly for the label sets
\* with tracked open connections (or that had some), and its value is
\* their count (gaugeCollector.add sums the deltas of Add(+1) and Add(-1)).
GaugeMatchesOpenConnections ==
    \A l \in Labels :
        /\ l \in DOMAIN Series(ConnsGauge) => Series(ConnsGauge)[l] = OpenCount(l)
        /\ OpenCount(l) > 0 => l \in DOMAIN Series(ConnsGauge)

\* The server-up gauge exports only servers of the configuration in force:
\* a server removed by a reload no longer has a series claiming it is up
\* or down (spec 4.3: removing a server stops its probe and releases its
\* state).
ServerUpSeriesConfigured ==
    \A s \in DOMAIN Series(UpGauge) : s \in configured

\* Spec 8, scenario B: a server that is down is reported down.  While the
\* meter provider runs with the gauges' callbacks, the server-up values
\* the reader exports eventually are, and stay, 1 for every configured
\* server that answers and 0 for every one that does not, once servers
\* and configurations stop changing (HealthProbe's Set through
\* gaugeCollector.set, then the callback's read of values[name] under mu).
ServerUpConverges ==
    <>[](provider # 0 /\ UpGauge \in callbacks =>
            \A s \in configured :
                /\ s \in DOMAIN exported
                /\ exported[s] = IF alive[s] THEN 1 ELSE 0)

=============================================================================
