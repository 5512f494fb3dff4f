-------------------------------- MODULE Boost --------------------------------
(***************************************************************************)
(* What the interaction boost promises its callers: every request extends  *)
(* the boost to the length it asks for, unless what is left is longer      *)
(* anyway, and the boost ends no sooner, unless the display is seen idle   *)
(* (or watching it fails).                                                 *)
(***************************************************************************)
EXTENDS Integers

CONSTANTS
  Lengths,     \* how long a boost may last, positive numbers
  Requests     \* bound: how many are asked for

VARIABLES
  held,        \* is the boost on
  due,         \* how long it still has to stay on
  excused,     \* the display was seen idle since the boost was extended
  asked,       \* the length of the last request
  requests     \* how many may still come

vars == <<held, due, excused, asked, requests>>

Init ==
  /\ held = FALSE
  /\ due = 0
  /\ excused = FALSE
  /\ asked = 0
  /\ requests = Requests

Ask(d) ==
  /\ requests > 0
  /\ requests' = requests - 1
  /\ asked' = d
  /\ IF held /\ d <= due
     THEN UNCHANGED <<held, due, excused>>
     ELSE held' = TRUE /\ due' = d /\ excused' = FALSE

SeeIdle ==
  /\ held
  /\ excused' = TRUE
  /\ UNCHANGED <<held, due, asked, requests>>

End ==
  /\ held
  /\ due = 0 \/ excused
  /\ held' = FALSE
  /\ due' = 0
  /\ excused' = FALSE
  /\ UNCHANGED <<asked, requests>>

\* whoever runs the boost is shut down: it stays as it is
ShutDown ==
  /\ excused' = FALSE
  /\ requests' = 0
  /\ UNCHANGED <<held, due, asked>>

Tick ==
  /\ due > 0
  /\ due' = due - 1
  /\ UNCHANGED <<held, excused, asked, requests>>

Next == SeeIdle \/ End \/ ShutDown \/ Tick \/ \E d \in Lengths : Ask(d)

Spec == Init /\ [][Next]_vars
=============================================================================
