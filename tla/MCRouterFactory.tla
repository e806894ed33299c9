--------------------------- MODULE MCRouterFactory ---------------------------
(***************************************************************************)
(* Instantiates RouterFactory for TLC: two TCP entry points and one UDP    *)
(* entry point (so that a switch can leave them on different generations), *)
(* two upstream servers, three provider messages and two server flips.    *)
(***************************************************************************)
EXTENDS RouterFactory

CONSTANTS web, websecure, dns, s1, s2, t1, t2

MCEntryPoints == {web, websecure, dns}
MCProtocol == [ep \in MCEntryPoints |-> IF ep = dns THEN "udp" ELSE "tcp"]
MCServers == {s1, s2}
\* One build task: the aggregator calls CreateRouters and the switch
\* serially, one configuration at a time.
MCSerialTasks == {t1}
\* Two build tasks: a new build starts while the previous one is still in
\* flight (spec 4.7 and 5, "one task per in-flight configuration build").
MCConcurrentTasks == {t1, t2}

=============================================================================
