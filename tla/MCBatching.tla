----------------------------- MODULE MCBatching -----------------------------
(***************************************************************************)
(* The batching adapter for TLC: with clients that give any command at any *)
(* time, and under the batching HAL.  A behaviour follows one of them.     *)
(***************************************************************************)
EXTENDS BatchingClient

CONSTANT c1

PlainModes == {Routine, [Routine EXCEPT !.mode = "noReport"]}
OneMode    == {Routine}
TwoTrips   == {[mode |-> "trip", distance |-> 1, tbf |-> 2], [mode |-> "trip", distance |-> 2, tbf |-> 1]}

VARIABLE concern

UnderHal == Init /\ HalInit /\ concern = "hal"

\* No answer reaches anybody.
WithoutHal == Init /\ ClientIdle /\ lost = Ids /\ concern = "adapter"

\* Free clients make do with fewer commands and sessions than the HAL, and post
\* only to an idle adapter.
Bounded ==
  /\ commands' <= 3
  /\ DOMAIN owner' \subseteq 1 .. 2
  /\ commands' > commands => msgQ = << >>

EitherNext ==
  /\ \/ concern = "adapter" /\ Next /\ Bounded /\ UNCHANGED halVars
     \/ concern = "hal" /\ HalNext
  /\ UNCHANGED concern

EitherSpec   == (UnderHal \/ WithoutHal) /\ [][EitherNext]_<<vars, halVars, concern>>
UnderHalSpec == UnderHal /\ [][EitherNext]_<<vars, halVars, concern>>
=============================================================================
