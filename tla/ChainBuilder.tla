---------------------------- MODULE ChainBuilder ----------------------------
(***************************************************************************)
(* The entry-point chain builder of pkg/server/middleware/chainbuilder.go. *)
(* NewChainBuilder fixes the metrics registry, the access logger and the   *)
(* tracer; on every reload Build is called once per entry point and its    *)
(* chain wraps that entry point's handlers; Close closes the access log    *)
(* and the tracer.  A chain is the sequence of wrappers, outermost first   *)
(* (alice.Chain.Append adds an inner wrapper).                             *)
(***************************************************************************)
EXTENDS Naturals, Sequences, SequencesExt

CONSTANTS
    EntryPoints,   \* entry point names
    MaxBuilds      \* bound on Build calls

\* The configurations NewChainBuilder can be given: an access logger or
\* nil, a metrics registry (nil, or which of entry-point, router and
\* service metrics it enables), a tracer or nil.
NoRegistry == [set |-> FALSE, ep |-> FALSE, router |-> FALSE, svc |-> FALSE]
Registries == {NoRegistry} \cup [set : {TRUE}, ep : BOOLEAN, router : BOOLEAN, svc : BOOLEAN]
Configs == [accessLog : BOOLEAN, registry : Registries, tracer : BOOLEAN]

\* The wrappers, in the order spec 4.6 fixes.
FixedOrder == <<"capture", "accesslog", "tracing", "epmetrics">>

VARIABLES
    cfg,       \* the ChainBuilder's fields
    chains,    \* chains[ep]: the chain the last Build returned for ep
    built,     \* entry points Build has been called for
    builds,    \* Build calls so far
    closed     \* Close has been called

vars == <<cfg, chains, built, builds, closed>>

\* c.metricsRegistry != nil && c.metricsRegistry.Is<kind>Enabled()
MetricsOn(c, kind) == c.registry.set /\ c.registry[kind]

\* Router and service metrics are recorded by handlers inside the chain.
InnerObservers(c) == MetricsOn(c, "router") \/ MetricsOn(c, "svc")

Init ==
    /\ cfg \in Configs
    /\ chains = [ep \in EntryPoints |-> <<>>]
    /\ built = {}
    /\ builds = 0
    /\ closed = FALSE

\* Fault variant: capture only for the access log and entry-point metrics.
BuildChainEpOnly(c) ==
    LET capture == c.accessLog \/ MetricsOn(c, "ep") IN
    SelectSeq(FixedOrder, LAMBDA w :
        \/ w = "capture" /\ capture
        \/ w = "accesslog" /\ c.accessLog
        \/ w = "tracing" /\ c.tracer
        \/ w = "epmetrics" /\ MetricsOn(c, "ep"))

\* Build's chain (lines 33-53): capture if there is an access logger or
\* the registry enables any metrics, then the access log, the tracing
\* span and the entry-point metrics, each if configured.
BuildChain(c) ==
    LET capture == c.accessLog \/ MetricsOn(c, "ep") \/ InnerObservers(c) IN
    SelectSeq(FixedOrder, LAMBDA w :
        \/ w = "capture" /\ capture
        \/ w = "accesslog" /\ c.accessLog
        \/ w = "tracing" /\ c.tracer
        \/ w = "epmetrics" /\ MetricsOn(c, "ep"))

\* Fault variant: the chain of the previous reload is extended.
BuildAccumulate(ep) ==
    /\ builds < MaxBuilds
    /\ builds' = builds + 1
    /\ chains' = [chains EXCEPT ![ep] = @ \o BuildChain(cfg)]
    /\ built' = built \cup {ep}
    /\ UNCHANGED <<cfg, closed>>

\* A reload builds the chain of one entry point.  The builder does not
\* check whether Close was called.
Build(ep) ==
    /\ builds < MaxBuilds
    /\ builds' = builds + 1
    /\ chains' = [chains EXCEPT ![ep] = BuildChain(cfg)]
    /\ built' = built \cup {ep}
    /\ UNCHANGED <<cfg, closed>>

\* Close (lines 56-66): closes the access logger and the tracer.
Close ==
    /\ ~closed
    /\ closed' = TRUE
    /\ UNCHANGED <<cfg, chains, built, builds>>

Next == (\E ep \in EntryPoints : Build(ep)) \/ Close

Spec == Init /\ [][Next]_vars

-----------------------------------------------------------------------------
(* Properties.                                                             *)

TypeOK ==
    /\ cfg \in Configs
    /\ chains \in [EntryPoints -> BoundedSeq(Range(FixedOrder), Len(FixedOrder))]
    /\ built \subseteq EntryPoints
    /\ builds \in 0..MaxBuilds
    /\ closed \in BOOLEAN

\* Spec 4.6: the wrappers must observe the final response status.  Every
\* chain built for an entry point where something observes the status
\* (the access log, entry-point metrics, or the router and service
\* metrics recorded by handlers inside the chain) starts with capture,
\* which encloses all of them.
CaptureEnclosesObservers ==
    \A ep \in built :
        LET ch == chains[ep] IN
        (\/ \E i \in DOMAIN ch : ch[i] \in {"accesslog", "epmetrics"}
         \/ InnerObservers(cfg))
        => ch # <<>> /\ Head(ch) = "capture"

=============================================================================
