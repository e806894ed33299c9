\* RegisterOpenTelemetry called once, at start-up, as the server does;
\* two reloads, each with any subset of two servers, and health probes.
CONSTANTS
    c1 = c1
    c2 = c2
    web = web
    websecure = websecure
    s1 = s1
    s2 = s2
    Conns <- MCConns
    Labels <- MCLabels
    Servers <- MCServers
    AddServicesLabels = TRUE
    MaxRegisters = 1
    MaxReloads = 2
    MaxFlips = 2

SPECIFICATION Spec

INVARIANT TypeOK
INVARIANT NoMapRace
INVARIANT GaugeMatchesOpenConnections

PROPERTY ServerUpConverges
