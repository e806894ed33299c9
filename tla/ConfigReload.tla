---------------------------- MODULE ConfigReload ----------------------------
(***************************************************************************)
(* What the reload pipeline promises (spec 4.8 and 4.9), stated without    *)
(* any of its machinery: providers publish configuration versions, and     *)
(* each entry point serves some published version.  A step of an entry    *)
(* point only ever moves it to a newer version ("no stale builds           *)
(* installed"), and an entry point that is behind the latest version       *)
(* eventually catches up ("the most recent input eventually dominates").   *)
(***************************************************************************)
EXTENDS Naturals

CONSTANTS
    EntryPoints,   \* every entry point of the static configuration
    MaxConfigs     \* bound on the number of provider messages

VARIABLES
    latest,        \* version of the most recent provider configuration
    served         \* served[ep]: version whose handlers ep dispatches to

vars == <<latest, served>>

Init ==
    /\ latest = 0
    /\ served = [ep \in EntryPoints |-> 0]

Publish ==
    /\ latest < MaxConfigs
    /\ latest' = latest + 1
    /\ UNCHANGED served

\* An entry point switches to a strictly newer published version.
Switch(ep) ==
    /\ \E v \in (served[ep] + 1)..latest : served' = [served EXCEPT ![ep] = v]
    /\ UNCHANGED latest

Next == Publish \/ \E ep \in EntryPoints : Switch(ep)

Spec == Init /\ [][Next]_vars /\ \A ep \in EntryPoints : WF_vars(Switch(ep))

=============================================================================
