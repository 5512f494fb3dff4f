----------------------------- MODULE MCTracking -----------------------------
(* Instances of GnssTracking for TLC, shared by its runs. *)
EXTENDS GnssTracking, TLC

CONSTANTS c1, c2

TimeRequest(i, p) == [interval |-> i, power |-> p, distance |-> FALSE]
DistRequest(i, p) == [interval |-> i, power |-> p, distance |-> TRUE]

\* Two sessions, each leading in one of interval and power mode.
CrossingRequests == {TimeRequest(1, 2), TimeRequest(2, 1)}

\* Three sessions: the middle one is the fastest until the third arrives,
\* and the slowest needs the highest power mode.
PowerRequests == {TimeRequest(1, 2), TimeRequest(2, 2), TimeRequest(3, 1)}

\* The crossing requests, and a distance based one, which waits for the engine's capabilities.
AllRequests == CrossingRequests \cup {DistRequest(1, 1)}

MixedRequests == {TimeRequest(1, 1), DistRequest(1, 1)}

NoBudget == [commands |-> 0, resets |-> 0, configs |-> 0, nhz |-> 0, observers |-> 0,
             callbacks |-> 0]

CommandBudget(n) == [NoBudget EXCEPT !.commands = n]
ThreeCommands    == CommandBudget(3)
FailureBudget    == [CommandBudget(3) EXCEPT !.observers = 1, !.callbacks = 1]
ResetBudget      == [CommandBudget(3) EXCEPT !.resets = 1, !.callbacks = 1]
SwitchingBudget  == [CommandBudget(4) EXCEPT !.configs = 1, !.nhz = 1]

Symmetry == Permutations(Clients)
=============================================================================
