\* A desired status with a repeated entry, or a hostname spelled like an IP
\* another writer put in the status.
CONSTANTS
    a = a
    b = b
    Namespaces <- MCNamespaces
    NamespaceArgs <- MCNamespaceArgs
    IngNamespace = a
    DesiredStatuses <- MCDesiredAmbiguous
    OtherStatuses <- MCOtherAmbiguous
    MaxFailures = 2
    MaxOtherWrites = 1
    MaxUpdateFailures = 1

SPECIFICATION Spec

\* A provider that stops while WatchAll waits for a cache sync ends there.
CHECK_DEADLOCK FALSE

PROPERTY StatusConverges
