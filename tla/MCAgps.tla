------------------------------- MODULE MCAgps -------------------------------
(* Instances of Agps for TLC. *)
EXTENDS Agps, TLC

\* The framework registers both machines, or, on a target that has neither MSA
\* nor MSB, gets nothing.
MCOffers == {{}, Nifs}

MCBudget == ("asks" :> 3) @@ ("losses" :> 1) @@ ("refusals" :> 1)
            @@ ("badApns" :> 1) @@ ("resets" :> 1) @@ ("inits" :> 1)
=============================================================================
