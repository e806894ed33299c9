\* RegisterOpenTelemetry called a second time (after StopOpenTelemetry, or to reuse the provider) while connections are served.
CONSTANTS
    c1 = c1
    c2 = c2
    web = web
    websecure = websecure
    s1 = s1
    s2 = s2
    Conns <- MCConns
    Labels <- MCLabels
    Servers <- MCServers
    AddServicesLabels = TRUE
    MaxRegisters = 2
    MaxReloads = 2
    MaxFlips = 2

SPECIFICATION Spec

INVARIANT NoMapRace
