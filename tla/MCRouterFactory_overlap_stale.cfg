\* Overlapping builds: a superseded build still returns and is switched in.
CONSTANTS
    web = web
    websecure = websecure
    dns = dns
    s1 = s1
    s2 = s2
    t1 = t1
    t2 = t2
    EntryPoints <- MCEntryPoints
    Protocol <- MCProtocol
    Servers <- MCServers
    Tasks <- MCConcurrentTasks
    MaxConfigs = 3
    MaxFlips = 2

SPECIFICATION Spec


PROPERTY ReloadRefinement
