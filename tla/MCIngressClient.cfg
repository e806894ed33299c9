\* WatchAll on all namespaces, one, or both, failing at most twice; one
\* Ingress in namespace a; two writes by another controller and two failed
\* status updates.
CONSTANTS
    a = a
    b = b
    Namespaces <- MCNamespaces
    NamespaceArgs <- MCNamespaceArgs
    IngNamespace = a
    DesiredStatuses <- MCDesired
    OtherStatuses <- MCOther
    MaxFailures = 2
    MaxOtherWrites = 2
    MaxUpdateFailures = 2

SPECIFICATION Spec

\* A provider that stops while WatchAll waits for a cache sync ends there.
CHECK_DEADLOCK FALSE

INVARIANT TypeOK
INVARIANT NoNilFactory
PROPERTY WatchRefinement
PROPERTY StatusConverges
