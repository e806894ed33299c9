\* Serial reloads: the reload path is correct when builds do not overlap.
CONSTANTS
    web = web
    websecure = websecure
    dns = dns
    s1 = s1
    s2 = s2
    t1 = t1
    t2 = t2
    EntryPoints <- MCEntryPoints
    Protocol <- MCProtocol
    Servers <- MCServers
    Tasks <- MCSerialTasks
    MaxConfigs = 3
    MaxFlips = 2

SPECIFICATION Spec

INVARIANT TypeOK
INVARIANT SingleLiveGeneration
INVARIANT ServingIsLive

PROPERTY HealthConverges
PROPERTY ReloadRefinement
