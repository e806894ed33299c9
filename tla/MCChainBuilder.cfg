\* Every configuration of the builder; two entry points; three reload
\* builds, so one entry point is rebuilt.
CONSTANTS
    web = web
    websecure = websecure
    EntryPoints <- MCEntryPoints
    MaxBuilds = 3

SPECIFICATION Spec

\* The builds are bounded; after them and Close the process exits.
CHECK_DEADLOCK FALSE

INVARIANT TypeOK
INVARIANT CaptureEnclosesObservers
