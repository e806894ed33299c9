----------------------------- MODULE MCOtelGauge -----------------------------
(***************************************************************************)
(* Instantiates OtelGauge: two connection goroutines and two label sets   *)
(* (two entry points), so that two connections can share a series or not; *)
(* two servers, so that a reload can drop one and keep the other.         *)
(***************************************************************************)
EXTENDS OtelGauge

CONSTANTS c1, c2, web, websecure, s1, s2

MCConns == {c1, c2}
MCLabels == {web, websecure}
MCServers == {s1, s2}

=============================================================================
