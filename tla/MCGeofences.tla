---------------------------- MODULE MCGeofences ----------------------------
(* Instances of Geofences for TLC, shared by its runs. *)
EXTENDS Geofences, TLC

CONSTANTS c1, c2

EnterOnly == {{"enter"}}
Both      == {{"enter", "exit"}}

\* A breach crosses a restart, a client leaves while the modem refuses things,
\* and hardware ids are handed out again while fences are breached and a
\* client leaves.
Mishaps == {{"reset", "breach"}, {"refusal", "leave"}, {"reuse", "breach", "leave"}}

ClientSymmetry == Permutations(Clients)
=============================================================================
