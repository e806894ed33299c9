---------------------------- MODULE MCOtelLabels ----------------------------
EXTENDS OtelLabels

CONSTANTS v1, v2

MCValues == {v1, v2}

\* A pair, a lone value (padded with "unknown"), and three values.
MCArgLists == {<<v1, v2>>, <<v2>>, <<v1, v2, v1>>}

=============================================================================
