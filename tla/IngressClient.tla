---------------------------- MODULE IngressClient ----------------------------
(***************************************************************************)
(* The Kubernetes Ingress client of pkg/provider/kubernetes/ingress/       *)
(* client.go.                                                              *)
(*                                                                         *)
(* WatchAll is modelled step by step, because it records isNamespaceAll    *)
(* and watchedNamespaces before the informer factories exist and stores    *)
(* each factory in turn; its error returns are taken where they can be     *)
(* reached (the server version; a cache sync, when the provider stops).    *)
(* The getters are operators over that state.  One                         *)
(* Ingress's status is modelled three times: in the API server (`api`),    *)
(* in the informer cache the client reads (`cache`, which lags), and as    *)
(* the status the provider wants (`desired`).  The API server rejects an   *)
(* update carrying a stale resourceVersion.                                *)
(***************************************************************************)
EXTENDS Naturals, Sequences, FiniteSets, SequencesExt

CONSTANTS
    Namespaces,           \* namespaces of the cluster
    NamespaceArgs,        \* namespace lists WatchAll may be called with
    IngNamespace,         \* namespace of the Ingress whose status is updated
    DesiredStatuses,      \* load-balancer statuses the provider may publish
    OtherStatuses,        \* statuses another writer may put in the API server
    MaxFailures,          \* bound on failed WatchAll calls
    MaxOtherWrites,       \* bound on writes by another writer
    MaxUpdateFailures     \* bound on UpdateStatus calls that fail

\* metav1.NamespaceAll.
NamespaceAll == ""

VARIABLES
    wPc,             \* WatchAll: "call", "register", "start", "cluster", "ok", "err", "stopped"
    nsArg,           \* the namespaces argument of the provider's configuration
    nsList,          \* namespaces after defaulting (line 148-150)
    idx,             \* index into nsList of the namespace being registered
    isNamespaceAll,  \* c.isNamespaceAll
    watched,         \* c.watchedNamespaces
    factIngress,     \* keys of c.factoriesIngress
    factKube,        \* keys of c.factoriesKube
    factSecret,      \* keys of c.factoriesSecret
    disableIngressClassInformer, \* c.disableIngressClassInformer (configuration)
    clusterFactory,  \* c.clusterFactory: "nil" or "started"
    failures,        \* failed WatchAll calls so far
    desired,         \* the status the provider computes for the Ingress
    api,             \* the Ingress in the API server: [status, rv]
    cache,           \* the Ingress in the informer cache: [status, rv]
    event,           \* an event is waiting in eventCh (capacity 1)
    otherWrites,     \* writes by another writer so far
    updFailures      \* UpdateStatus calls that failed so far

watchVars == <<wPc, nsArg, nsList, idx, isNamespaceAll, watched, factIngress,
               factKube, factSecret, disableIngressClassInformer, clusterFactory,
               failures>>
statusVars == <<desired, api, cache, event, otherWrites, updFailures>>
vars == <<watchVars, statusVars>>

-----------------------------------------------------------------------------
(* Lookups (lines 369-397) and getters (311-341).                          *)

\* Fault variant: the namespace is used as the factory key as it is.
lookupNamespaceAsIs(ns) == ns

lookupNamespace(ns) == IF isNamespaceAll THEN NamespaceAll ELSE ns

\* Fault variant: only the recorded list is searched.
isWatchedNamespaceListOnly(ns) == ns \in Range(watched)

isWatchedNamespace(ns) == isNamespaceAll \/ ns \in Range(watched)

\* GetService / GetEndpoints (factories = factKube) and GetSecret
\* (factories = factSecret): an error for an unwatched namespace, a nil
\* factory dereference (panic) when the looked-up key has no factory,
\* otherwise a lister read.
Get(factories, ns) ==
    IF ~isWatchedNamespace(ns) THEN "notWatched"
    ELSE IF lookupNamespace(ns) \notin factories THEN "panic"
    ELSE "read"

\* GetIngressClasses, lines 343-362: an error while the cluster factory is
\* not stored, otherwise a read of its IngressClass lister (filtered on
\* traefik's controller name).
GetIngressClasses == IF clusterFactory = "nil" THEN "notLoaded" ELSE "read"

\* The load-balancer key of an entry: Hostname+IP.
LbKey(e) == e.hostname \o e.ip

\* Fault variant: the lengths are not compared.
isLoadBalancerIngressEqualsNoLen(a, b) ==
    \A j \in DOMAIN b : LbKey(b[j]) \in {LbKey(a[i]) : i \in DOMAIN a}

\* isLoadBalancerIngressEquals(a, b), lines 291-308.
isLoadBalancerIngressEquals(a, b) ==
    /\ Len(a) = Len(b)
    /\ \A j \in DOMAIN b : LbKey(b[j]) \in {LbKey(a[i]) : i \in DOMAIN a}

\* GetIngresses lists the Ingress: some stored factory covers its namespace.
Listed == NamespaceAll \in factIngress \/ IngNamespace \in factIngress

-----------------------------------------------------------------------------

Init ==
    /\ wPc = "call"
    /\ nsArg \in NamespaceArgs
    /\ nsList = <<>>
    /\ idx = 0
    /\ isNamespaceAll = FALSE
    /\ watched = <<>>
    /\ factIngress = {} /\ factKube = {} /\ factSecret = {}
    /\ disableIngressClassInformer \in BOOLEAN
    /\ clusterFactory = "nil"
    /\ failures = 0
    /\ desired \in DesiredStatuses
    /\ api = [status |-> <<>>, rv |-> 1]
    /\ cache = api
    /\ event = FALSE
    /\ otherWrites = 0
    /\ updFailures = 0

\* Fetching or parsing the server version fails: WatchAll returns its
\* error to the provider, which retries.
Fail ==
    /\ failures < MaxFailures
    /\ failures' = failures + 1
    /\ wPc' = "err"

\* Fault variant: an empty list sets isNamespaceAll but is not replaced
\* by the all-namespaces identifier.
WatchAllBeginNoDefault ==
    /\ wPc = "call"
    /\ nsList' = nsArg
    /\ isNamespaceAll' = (isNamespaceAll \/ nsArg = <<>>)
    /\ watched' = nsArg
    /\ idx' = 1
    /\ wPc' = "register"
    /\ UNCHANGED <<failures, nsArg, disableIngressClassInformer, factIngress, factKube, factSecret,
                   clusterFactory, statusVars>>

\* Lines 133-153: the server version is fetched (the call can fail before
\* anything is recorded); an empty list means all namespaces; the list is
\* recorded as watched.
WatchAllBegin ==
    /\ wPc = "call"
    /\ \/ /\ Fail
          /\ UNCHANGED <<nsList, idx, isNamespaceAll, watched>>
       \/ LET ns == IF nsArg = <<>> THEN <<NamespaceAll>> ELSE nsArg IN
          /\ nsList' = ns
          /\ isNamespaceAll' = (isNamespaceAll \/ nsArg = <<>>)
          /\ watched' = ns
          /\ idx' = 1
          /\ wPc' = "register"
          /\ UNCHANGED failures
    /\ UNCHANGED <<nsArg, disableIngressClassInformer, factIngress, factKube, factSecret, clusterFactory,
                   statusVars>>

\* Lines 163-186, one namespace: each factory is stored once its event
\* handlers are added.  AddEventHandler fails only on an informer that has
\* stopped, and these factories are new and not started, so the error
\* returns are not taken.
RegisterNamespace ==
    /\ wPc = "register"
    /\ LET ns == nsList[idx] IN
       /\ factIngress' = factIngress \cup {ns}
       /\ factKube' = factKube \cup {ns}
       /\ factSecret' = factSecret \cup {ns}
    /\ idx' = idx + 1
    /\ wPc' = IF idx = Len(nsList) THEN "start" ELSE "register"
    /\ UNCHANGED <<nsArg, disableIngressClassInformer, nsList, isNamespaceAll, watched, clusterFactory,
                   failures, statusVars>>

\* Lines 188-212: start every factory, then wait for the caches to sync.
\* WaitForCacheSync reports a type as not synced only when stopCh closes
\* first, so the "timed out" error is returned when the provider stops,
\* and it does not retry.
StartAndSync ==
    /\ wPc = "start"
    /\ wPc' \in {"cluster", "stopped"}
    /\ UNCHANGED <<nsArg, disableIngressClassInformer, nsList, idx, isNamespaceAll, watched, factIngress,
                   factKube, factSecret, clusterFactory, failures, statusVars>>

\* Fault variant: the IngressClass factory is started in a local variable
\* and never stored in c.clusterFactory.
WatchClusterNoStore ==
    /\ wPc = "cluster"
    /\ \/ /\ disableIngressClassInformer
          /\ wPc' = "ok" /\ event' = TRUE
       \/ /\ ~disableIngressClassInformer
          /\ \/ wPc' = "ok" /\ event' = TRUE
             \/ wPc' = "stopped" /\ UNCHANGED event
    /\ UNCHANGED <<nsArg, disableIngressClassInformer, nsList, idx, isNamespaceAll, watched, factIngress,
                   factKube, factSecret, failures, desired, api, cache, otherWrites,
                   updFailures, clusterFactory>>

\* Lines 214-236: unless disabled, the cluster-wide IngressClass factory is
\* stored, its handler added, started and synced (the sync again fails
\* only on stop); then eventCh is returned.
WatchCluster ==
    /\ wPc = "cluster"
    /\ \/ /\ disableIngressClassInformer
          /\ wPc' = "ok" /\ event' = TRUE
          /\ UNCHANGED clusterFactory
       \/ /\ ~disableIngressClassInformer
          /\ clusterFactory' = "started"
          /\ \/ wPc' = "ok" /\ event' = TRUE
             \/ wPc' = "stopped" /\ UNCHANGED event
    /\ UNCHANGED <<nsArg, disableIngressClassInformer, nsList, idx, isNamespaceAll, watched, factIngress,
                   factKube, factSecret, failures, desired, api, cache, otherWrites,
                   updFailures>>

\* The provider retries a failed WatchAll on the same client, with the
\* same namespace list.
RetryWatch ==
    /\ wPc = "err"
    /\ wPc' = "call"
    /\ UNCHANGED <<nsArg, disableIngressClassInformer, nsList, idx, isNamespaceAll, watched, factIngress,
                   factKube, factSecret, clusterFactory, failures, statusVars>>

-----------------------------------------------------------------------------
(* The Ingress's status.                                                   *)

\* UpdateIngressStatus(ing, desired), lines 258-288, called by the provider
\* when it handles an event: read the Ingress from the informer cache, skip
\* if its status already "equals" the desired one, otherwise send
\* UpdateStatus with the cached copy's resourceVersion, which the API server
\* refuses with a conflict if the copy is stale.  The call can also fail
\* (its 5s timeout, the network) without the write being applied; the
\* error is returned and nothing here retries it.
UpdateIngressStatus ==
    /\ wPc = "ok" /\ event /\ Listed
    /\ event' = FALSE
    /\ IF \/ ~isWatchedNamespace(IngNamespace)
          \/ isLoadBalancerIngressEquals(cache.status, desired)
          \/ cache.rv # api.rv
       THEN UNCHANGED <<api, updFailures>>
       ELSE \/ /\ api' = [status |-> desired, rv |-> api.rv + 1]
               /\ UNCHANGED updFailures
            \/ /\ updFailures < MaxUpdateFailures
               /\ updFailures' = updFailures + 1
               /\ UNCHANGED api
    /\ UNCHANGED <<watchVars, desired, cache, otherWrites>>

\* The informer's watch delivers the API server's current copy and its
\* handler signals eventCh (a send that is dropped when the channel is
\* full).
CacheSync ==
    /\ wPc = "ok"
    /\ cache # api
    /\ cache' = api
    /\ event' = TRUE
    /\ UNCHANGED <<watchVars, desired, api, otherWrites, updFailures>>

\* Fault variant: the factories are made with a resync period of 0, which
\* turns the periodic resync off.
ResyncOff == FALSE

\* Every resyncPeriod (10 minutes, given to the factories at lines 165,
\* 174 and 185) the informers re-deliver every cached object to the event
\* handler, which signals eventCh.
Resync ==
    /\ wPc = "ok"
    /\ ~event
    /\ event' = TRUE
    /\ UNCHANGED <<watchVars, desired, api, cache, otherWrites, updFailures>>

\* Another writer (another controller, or an older replica) sets the
\* status in the API server.
OtherWrite ==
    /\ otherWrites < MaxOtherWrites
    /\ \E s \in OtherStatuses : api' = [status |-> s, rv |-> api.rv + 1]
    /\ otherWrites' = otherWrites + 1
    /\ UNCHANGED <<watchVars, desired, cache, event, updFailures>>

Next ==
    \/ WatchAllBegin \/ RegisterNamespace \/ StartAndSync \/ WatchCluster
    \/ RetryWatch
    \/ UpdateIngressStatus \/ CacheSync \/ Resync \/ OtherWrite

\* The provider's goroutine and the informers run without waiting on
\* anything outside the model, and the resync timer keeps firing; another
\* writer need not act.
Fairness ==
    /\ WF_vars(WatchAllBegin) /\ WF_vars(RegisterNamespace)
    /\ WF_vars(StartAndSync) /\ WF_vars(WatchCluster) /\ WF_vars(RetryWatch)
    /\ WF_vars(UpdateIngressStatus) /\ WF_vars(CacheSync) /\ WF_vars(Resync)

Spec == Init /\ [][Next]_vars /\ Fairness

-----------------------------------------------------------------------------
(* Properties.                                                             *)

Status == Seq([hostname : {"", "x", "y"}, ip : {"", "x", "y"}])

TypeOK ==
    /\ wPc \in {"call", "register", "start", "cluster", "ok", "err", "stopped"}
    /\ wPc = "register" => idx \in 1..Len(nsList)
    /\ Range(watched) \cup factIngress \cup factKube \cup factSecret
          \subseteq Namespaces \cup {NamespaceAll}
    /\ disableIngressClassInformer \in BOOLEAN /\ clusterFactory \in {"nil", "started"}
    /\ failures \in 0..MaxFailures /\ otherWrites \in 0..MaxOtherWrites
    /\ updFailures \in 0..MaxUpdateFailures
    /\ api.rv \in Nat /\ cache.rv \in 1..api.rv
    /\ event \in BOOLEAN

\* Once WatchAll has returned without error, no getter dereferences a
\* nil factory: for every namespace the client says it watches
\* (isWatchedNamespace), the key lookupNamespace gives has its Ingress,
\* Kubernetes and Secret factories; and GetIngressClasses reports "cluster
\* factory not loaded" exactly when the IngressClass informer is disabled.
NoNilFactory ==
    wPc = "ok" =>
        /\ \A ns \in Namespaces :
              /\ Get(factIngress, ns) # "panic"
              /\ Get(factKube, ns) # "panic"
              /\ Get(factSecret, ns) # "panic"
        /\ (GetIngressClasses = "read" <=> ~disableIngressClassInformer)

\* The namespaces a WatchAll argument asks for: an empty list, or one that
\* names the all-namespaces identifier (a factory made WithNamespace("")
\* watches every namespace), asks for all of them.
RequestedNamespaces(arg) ==
    IF arg = <<>> \/ NamespaceAll \in Range(arg) THEN Namespaces
    ELSE Range(arg) \cap Namespaces

\* The getters and UpdateIngressStatus read ns from its Ingress,
\* Kubernetes and Secret factories.
Served(ns) == \A f \in {factIngress, factKube, factSecret} : Get(f, ns) = "read"

\* WatchAll, step by step with its failures and retries, implements
\* NamespaceWatch: it eventually returns, and once it has returned its
\* event channel the getters serve exactly the requested namespaces (the
\* lookupNamespace comment: informers are indexed on the all-namespaces
\* identifier iff all namespaces are requested), for good.
NsWatch == INSTANCE NamespaceWatch
             WITH requested <- RequestedNamespaces(nsArg),
                  phase <- CASE wPc = "ok" -> "watching"
                             [] wPc = "stopped" -> "stopped"
                             [] OTHER -> "starting",
                  served <- IF wPc = "ok" THEN {ns \in Namespaces : Served(ns)} ELSE {}

WatchRefinement == NsWatch!Spec

\* The Ingress's status in the API server eventually is, and stays, the
\* status the provider publishes for it, as a multiset of load-balancer
\* entries, when WatchAll has returned its event channel, the provider
\* lists the Ingress, and other writers stop (a provider that stops
\* while WatchAll waits for a sync never updates anything).  An update
\* that fails is retried only when the next event, at the latest the
\* informers' resync, makes the provider call UpdateIngressStatus again.
StatusConverges ==
    <>[](wPc = "ok" /\ Listed => ToBag(api.status) = ToBag(desired))

=============================================================================
