---------------------------- MODULE RouterFactory ----------------------------
(***************************************************************************)
(* The reload path of the routing runtime.                                 *)
(*                                                                         *)
(* RouterFactory.CreateRouters (pkg/server/routerfactory.go) cancels the   *)
(* context of the previous build, creates a new one, builds the HTTP, TCP  *)
(* and UDP handlers of every entry point from one runtime configuration   *)
(* and launches the health checks of the new services on the new context. *)
(* Around it, modelled from the spec because that code is not in the      *)
(* repository: the configuration aggregator (spec 4.8), which throttles    *)
(* provider messages and starts builds on one or more build tasks, the     *)
(* entry-point listeners (spec 4.9), which swap in the returned handlers   *)
(* one entry point at a time, and the health checkers (spec 4.3), which    *)
(* probe servers for as long as their generation's context is live.       *)
(*                                                                         *)
(* A generation is one call of CreateRouters; its number stands for the    *)
(* context it creates and for the handlers it returns.                     *)
(***************************************************************************)
EXTENDS Naturals, FiniteSets

CONSTANTS
    EntryPoints,   \* entry points of the static configuration
    Protocol,      \* Protocol[ep] \in {"tcp", "udp"}: cfg.GetProtocol()
    Tasks,         \* build tasks of the aggregator (1: builds are serial)
    Servers,       \* upstream servers of the health-checked services
    MaxConfigs,    \* bound on provider messages, hence on CreateRouters calls
    MaxFlips       \* bound on upstream servers going up or down

ASSUME Protocol \in [EntryPoints -> {"tcp", "udp"}]
ASSUME Tasks # {} /\ Servers # {}
ASSUME MaxConfigs \in Nat /\ MaxFlips \in Nat

VARIABLES
    cfgVersion,      \* latest configuration version received from providers
    pending,         \* throttle timer armed: a version not yet handed to a build
    pc,              \* pc[t]: where build task t is in CreateRouters / switch
    taskConf,        \* taskConf[t]: version of the rtConf task t builds
    taskGen,         \* taskGen[t]: generation (context) task t created
    toInstall,       \* toInstall[t]: entry points task t has not switched yet
    nextGen,         \* generations created so far
    cancelPrevState, \* f.cancelPrevState: generation whose cancel func is kept
    cancelled,       \* generations whose context has been cancelled
    launched,        \* generations whose LaunchHealthCheck ran
    genConf,         \* genConf[g]: configuration version generation g built
    tcpRoots,        \* current TCP root handler (generation) per TCP entry point
    udpRoots,        \* current UDP handler (generation) per UDP entry point
    up,              \* up[s]: the upstream server really answers
    flips,           \* server status changes so far
    view             \* view[g][s]: health status of s in generation g's balancer

vars == <<cfgVersion, pending, pc, taskConf, taskGen, toInstall, nextGen,
          cancelPrevState, cancelled, launched, genConf, tcpRoots, udpRoots,
          up, flips, view>>

\* Every build consumes an armed throttle timer, which only a provider
\* message arms, so there are at most MaxConfigs generations.
None == 0                    \* a nil cancel func / no handler installed yet
Gens == 1..MaxConfigs
GenOrNone == 0..MaxConfigs
Health == {"unknown", "up", "down"}

(***************************************************************************)
(* NewRouterFactory: entry points whose protocol is "udp" get UDP routers, *)
(* every other one (an invalid protocol included) gets TCP routers.        *)
(***************************************************************************)
\* The if/else of lines 53-57 for one entry point.
RouterKind(ep) == IF Protocol[ep] = "udp" THEN "udp" ELSE "tcp"

\* The two lists the loop of lines 45-58 appends to.
EntryPointsUDP == {ep \in EntryPoints : RouterKind(ep) = "udp"}
EntryPointsTCP == {ep \in EntryPoints : RouterKind(ep) = "tcp"}

\* Generations whose health-check goroutines are still running.
LiveGens == launched \ cancelled

\* Generation an entry point currently dispatches to.
Root(ep) == IF ep \in EntryPointsTCP THEN tcpRoots[ep] ELSE udpRoots[ep]

Probed(s) == IF up[s] THEN "up" ELSE "down"

Init ==
    /\ cfgVersion = 0
    /\ pending = FALSE
    /\ pc = [t \in Tasks |-> "idle"]
    /\ taskConf = [t \in Tasks |-> 0]
    /\ taskGen = [t \in Tasks |-> None]
    /\ toInstall = [t \in Tasks |-> {}]
    /\ nextGen = 0
    /\ cancelPrevState = None
    /\ cancelled = {}
    /\ launched = {}
    /\ genConf = [g \in GenOrNone |-> 0]
    /\ tcpRoots = [ep \in EntryPointsTCP |-> None]
    /\ udpRoots = [ep \in EntryPointsUDP |-> None]
    /\ up = [s \in Servers |-> TRUE]
    /\ flips = 0
    /\ view = [g \in Gens |-> [s \in Servers |-> "unknown"]]

-----------------------------------------------------------------------------
(* Configuration aggregator (spec 4.8).                                    *)

\* A provider message replaces the latest configuration and (re)arms the
\* throttle timer.
ProviderMessage ==
    /\ cfgVersion < MaxConfigs
    /\ cfgVersion' = cfgVersion + 1
    /\ pending' = TRUE
    /\ UNCHANGED <<pc, taskConf, taskGen, toInstall, nextGen, cancelPrevState,
                   cancelled, launched, genConf, tcpRoots, udpRoots, up, flips,
                   view>>

\* Fault variant: the timer is not disarmed when a build takes the
\* configuration, so the same configuration is built again and again.
ThrottleExpireKeepArmed(t) ==
    /\ pending
    /\ pc[t] = "idle"
    /\ taskConf' = [taskConf EXCEPT ![t] = cfgVersion]
    /\ pc' = [pc EXCEPT ![t] = "cancelPrev"]
    /\ UNCHANGED <<cfgVersion, pending, taskGen, toInstall, nextGen, cancelPrevState,
                   cancelled, launched, genConf, tcpRoots, udpRoots, up, flips,
                   view>>

\* The throttle timer expires: a build task takes the latest configuration
\* and calls CreateRouters with it.
ThrottleExpire(t) ==
    /\ pending
    /\ pc[t] = "idle"
    /\ pending' = FALSE
    /\ taskConf' = [taskConf EXCEPT ![t] = cfgVersion]
    /\ pc' = [pc EXCEPT ![t] = "cancelPrev"]
    /\ UNCHANGED <<cfgVersion, taskGen, toInstall, nextGen, cancelPrevState,
                   cancelled, launched, genConf, tcpRoots, udpRoots, up, flips,
                   view>>

-----------------------------------------------------------------------------
(* RouterFactory.CreateRouters, split where another build task can         *)
(* interleave: the read of f.cancelPrevState and its call, the write of    *)
(* the new cancel func, and the build itself.                              *)

\* if f.cancelPrevState != nil { f.cancelPrevState() }
CancelPrev(t) ==
    /\ pc[t] = "cancelPrev"
    /\ cancelled' = IF cancelPrevState = None THEN cancelled
                    ELSE cancelled \cup {cancelPrevState}
    /\ pc' = [pc EXCEPT ![t] = "newCtx"]
    /\ UNCHANGED <<cfgVersion, pending, taskConf, taskGen, toInstall, nextGen,
                   cancelPrevState, launched, genConf, tcpRoots, udpRoots, up,
                   flips, view>>

\* Fault variant: ctx, _ := context.WithCancel(...), the cancel func is
\* never stored.
NewContextKeepsPrev(t) ==
    /\ pc[t] = "newCtx"
    /\ nextGen' = nextGen + 1
    /\ taskGen' = [taskGen EXCEPT ![t] = nextGen + 1]
    /\ pc' = [pc EXCEPT ![t] = "build"]
    /\ UNCHANGED <<cfgVersion, pending, taskConf, toInstall, cancelled,
                   cancelPrevState, launched, genConf, tcpRoots, udpRoots, up,
                   flips, view>>

\* ctx, f.cancelPrevState = context.WithCancel(context.Background())
NewContext(t) ==
    /\ pc[t] = "newCtx"
    /\ nextGen' = nextGen + 1
    /\ taskGen' = [taskGen EXCEPT ![t] = nextGen + 1]
    /\ cancelPrevState' = nextGen + 1
    /\ pc' = [pc EXCEPT ![t] = "build"]
    /\ UNCHANGED <<cfgVersion, pending, taskConf, toInstall, cancelled,
                   launched, genConf, tcpRoots, udpRoots, up, flips, view>>

\* Fault variant: defer cancel() in CreateRouters, the new context dies
\* when the routers are returned.
BuildDeferCancel(t) ==
    /\ pc[t] = "build"
    /\ launched' = launched \cup {taskGen[t]}
    /\ cancelled' = cancelled \cup {taskGen[t]}
    /\ genConf' = [genConf EXCEPT ![taskGen[t]] = taskConf[t]]
    /\ toInstall' = [toInstall EXCEPT ![t] = EntryPoints]
    /\ pc' = [pc EXCEPT ![t] = "install"]
    /\ UNCHANGED <<cfgVersion, pending, taskConf, taskGen, nextGen,
                   cancelPrevState, tcpRoots, udpRoots, up, flips, view>>

\* Fault variant: serviceManager.LaunchHealthCheck(ctx) left out.
BuildNoHealthCheck(t) ==
    /\ pc[t] = "build"
    /\ genConf' = [genConf EXCEPT ![taskGen[t]] = taskConf[t]]
    /\ toInstall' = [toInstall EXCEPT ![t] = EntryPoints]
    /\ pc' = [pc EXCEPT ![t] = "install"]
    /\ UNCHANGED <<cfgVersion, pending, taskConf, taskGen, nextGen,
                   cancelPrevState, cancelled, launched, tcpRoots, udpRoots,
                   up, flips, view>>

\* Fault variant: the UDP routers (lines 102-104) are not built, so no
\* UDP handler is returned.
BuildNoUDP(t) ==
    /\ pc[t] = "build"
    /\ launched' = launched \cup {taskGen[t]}
    /\ genConf' = [genConf EXCEPT ![taskGen[t]] = taskConf[t]]
    /\ toInstall' = [toInstall EXCEPT ![t] = EntryPointsTCP]
    /\ pc' = [pc EXCEPT ![t] = "install"]
    /\ UNCHANGED <<cfgVersion, pending, taskConf, taskGen, nextGen,
                   cancelPrevState, cancelled, tcpRoots, udpRoots, up, flips,
                   view>>

\* The HTTP, TCP and UDP managers build every entry point's handlers from
\* rtConf; serviceManager.LaunchHealthCheck(ctx) starts the probes of the
\* new generation (they stop at once if ctx is already cancelled); the
\* routers are returned to the caller, which switches them in.
Build(t) ==
    /\ pc[t] = "build"
    /\ launched' = launched \cup {taskGen[t]}
    /\ genConf' = [genConf EXCEPT ![taskGen[t]] = taskConf[t]]
    /\ toInstall' = [toInstall EXCEPT ![t] = EntryPoints]
    /\ pc' = [pc EXCEPT ![t] = "install"]
    /\ UNCHANGED <<cfgVersion, pending, taskConf, taskGen, nextGen,
                   cancelPrevState, cancelled, tcpRoots, udpRoots, up, flips,
                   view>>

-----------------------------------------------------------------------------
(* Entry-point listeners and health checkers (spec 4.9, 4.3), and the      *)
(* upstream servers they observe.                                          *)

\* The listener of ep atomically swaps in the handler task t's build
\* returned for it; the switch ends when every entry point has been done.
Install(t, ep) ==
    /\ pc[t] = "install"
    /\ ep \in toInstall[t]
    /\ tcpRoots' = IF ep \in EntryPointsTCP
                   THEN [tcpRoots EXCEPT ![ep] = taskGen[t]] ELSE tcpRoots
    /\ udpRoots' = IF ep \in EntryPointsUDP
                   THEN [udpRoots EXCEPT ![ep] = taskGen[t]] ELSE udpRoots
    /\ toInstall' = [toInstall EXCEPT ![t] = @ \ {ep}]
    /\ pc' = [pc EXCEPT ![t] = IF toInstall[t] = {ep} THEN "idle" ELSE "install"]
    /\ UNCHANGED <<cfgVersion, pending, taskConf, taskGen, nextGen,
                   cancelPrevState, cancelled, launched, genConf, up, flips,
                   view>>

\* A health-check tick of generation g probes server s and publishes the
\* result in g's load balancer; it runs only while g's context is live.
HealthCheckProbe(g, s) ==
    /\ g \in LiveGens
    /\ view' = [view EXCEPT ![g][s] = Probed(s)]
    /\ UNCHANGED <<cfgVersion, pending, pc, taskConf, taskGen, toInstall,
                   nextGen, cancelPrevState, cancelled, launched, genConf,
                   tcpRoots, udpRoots, up, flips>>

\* A connection or datagram arrives on ep and is dispatched through the
\* root handler it reads from the listener's atomic pointer (a 404 or a
\* close while none is installed).  The data path reads the control-plane
\* state and changes none of it; the listeners never stop accepting.
Serve(ep) ==
    /\ ep \in EntryPoints
    /\ UNCHANGED vars

\* An upstream server goes down or comes back (environment).
ServerFlip(s) ==
    /\ flips < MaxFlips
    /\ flips' = flips + 1
    /\ up' = [up EXCEPT ![s] = ~@]
    /\ UNCHANGED <<cfgVersion, pending, pc, taskConf, taskGen, toInstall,
                   nextGen, cancelPrevState, cancelled, launched, genConf,
                   tcpRoots, udpRoots, view>>

Next ==
    \/ ProviderMessage
    \/ \E t \in Tasks :
          \/ ThrottleExpire(t)
          \/ CancelPrev(t)
          \/ NewContext(t)
          \/ Build(t)
          \/ \E ep \in EntryPoints : Install(t, ep)
    \/ \E g \in Gens, s \in Servers : HealthCheckProbe(g, s)
    \/ \E s \in Servers : ServerFlip(s)
    \/ \E ep \in EntryPoints : Serve(ep)

\* The throttle timer fires, each build task runs to completion, and the
\* health-check ticker of a live generation keeps ticking.  Providers and
\* upstream servers are the environment and owe nothing.
Fairness ==
    /\ \A t \in Tasks :
          /\ WF_vars(ThrottleExpire(t))
          /\ WF_vars(CancelPrev(t))
          /\ WF_vars(NewContext(t))
          /\ WF_vars(Build(t))
          /\ WF_vars(\E ep \in EntryPoints : Install(t, ep))
    /\ \A g \in Gens, s \in Servers : WF_vars(HealthCheckProbe(g, s))

Spec == Init /\ [][Next]_vars /\ Fairness

-----------------------------------------------------------------------------
(* Properties.                                                             *)

TypeOK ==
    /\ cfgVersion \in 0..MaxConfigs
    /\ pending \in BOOLEAN
    /\ pc \in [Tasks -> {"idle", "cancelPrev", "newCtx", "build", "install"}]
    /\ taskConf \in [Tasks -> 0..MaxConfigs]
    /\ taskGen \in [Tasks -> GenOrNone]
    /\ toInstall \in [Tasks -> SUBSET EntryPoints]
    /\ nextGen \in GenOrNone
    /\ cancelPrevState \in GenOrNone
    /\ cancelled \subseteq Gens /\ launched \subseteq Gens
    /\ genConf \in [GenOrNone -> 0..MaxConfigs]
    /\ \A ep \in EntryPoints : Root(ep) \in GenOrNone
    /\ up \in [Servers -> BOOLEAN] /\ flips \in 0..MaxFlips
    /\ view \in [Gens -> [Servers -> Health]]

\* CreateRouters keeps exactly one way to stop health checks: every
\* generation whose health-check goroutines still run is the one whose
\* cancel func sits in f.cancelPrevState.  A generation outside it would
\* probe forever, since nothing else can cancel its context (a lost
\* cancel when two builds interleave between lines 74 and 79).
SingleLiveGeneration == LiveGens \subseteq {cancelPrevState}

\* Once no build or switch is under way, every entry point dispatches to a
\* generation whose context is live, so its load balancers still receive
\* health-check results (CreateRouters cancels only the generation before
\* the one it builds).
ServingIsLive ==
    (\A t \in Tasks : pc[t] = "idle") =>
        \A ep \in EntryPoints : Root(ep) # None => Root(ep) \in LiveGens

\* Once a configuration has arrived, the load balancers behind every TCP
\* entry point eventually and for good agree with the real state of each
\* upstream server (LaunchHealthCheck on the generation that serves).
HealthConverges ==
    <>[](cfgVersion > 0 =>
            \A ep \in EntryPointsTCP :
               /\ tcpRoots[ep] # None
               /\ \A s \in Servers : view[tcpRoots[ep]][s] = Probed(s))

\* The reload path implements ConfigReload: an entry point only ever
\* switches to handlers built from a newer configuration, and eventually
\* serves the latest one.
Reload == INSTANCE ConfigReload
            WITH latest <- cfgVersion,
                 served <- [ep \in EntryPoints |-> genConf[Root(ep)]]

ReloadRefinement == Reload!Spec

=============================================================================
