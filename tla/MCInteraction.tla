---------------------------- MODULE MCInteraction ----------------------------
(* An instance of InteractionHandler for TLC. *)
EXTENDS InteractionHandler

\* with a slack of 1: below the least duration, between, and above the largest
MCDurations == {-1, 2, 5}
=============================================================================
