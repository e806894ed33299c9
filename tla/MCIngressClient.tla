--------------------------- MODULE MCIngressClient ---------------------------
EXTENDS IngressClient

CONSTANTS a, b

MCNamespaces == {a, b}

\* Load-balancer entries: an IP, a hostname, and a hostname spelled like
\* the first entry's IP.
eIP == [hostname |-> "", ip |-> "x"]
eHost == [hostname |-> "y", ip |-> ""]
eHostX == [hostname |-> "x", ip |-> ""]

\* All namespaces (empty list), one namespace, both.
MCNamespaceArgs == {<<>>, <<a>>, <<a, b>>}
\* The all-namespaces identifier given explicitly.
MCNamespaceArgsExplicitAll == {<<"">>}

MCDesired == {<<eIP, eHost>>}
\* The same entries in the other order, a strict subset, and a list with
\* a repeated entry.
MCOther == {<<eHost, eIP>>, <<eHost>>, <<eIP, eHost, eHost>>}

\* A desired status with a repeated entry, and one with a hostname where
\* another writer put the same string as an IP.
MCDesiredAmbiguous == {<<eIP, eIP>>, <<eHostX>>}
MCOtherAmbiguous == {<<eIP, eHost>>, <<eIP>>}

=============================================================================
