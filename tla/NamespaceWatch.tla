---------------------------- MODULE NamespaceWatch ----------------------------
(***************************************************************************)
(* What the Ingress client's WatchAll promises its provider, without the   *)
(* informer factories: the call is given the namespaces to watch, and it   *)
(* either returns an event channel, after which every requested namespace  *)
(* and no other is served by the getters, or gives up because the provider *)
(* stopped.  Failed attempts that the provider retries are invisible here. *)
(* Whichever it is, the call does not hang.                                *)
(***************************************************************************)
CONSTANTS
    Namespaces     \* namespaces of the cluster

VARIABLES
    requested,     \* the namespaces the provider asks to watch
    phase,         \* "starting", "watching" or "stopped"
    served         \* namespaces whose objects the getters return

vars == <<requested, phase, served>>

Init ==
    /\ requested \in SUBSET Namespaces
    /\ phase = "starting"
    /\ served = {}

\* WatchAll returns its event channel: exactly the requested namespaces
\* are served from then on.
Watch ==
    /\ phase = "starting"
    /\ phase' = "watching"
    /\ served' = requested
    /\ UNCHANGED requested

\* WatchAll returns an error because the provider stopped.
Stop ==
    /\ phase = "starting"
    /\ phase' = "stopped"
    /\ UNCHANGED <<requested, served>>

Next == Watch \/ Stop

Spec == Init /\ [][Next]_vars /\ WF_vars(Next)

=============================================================================
