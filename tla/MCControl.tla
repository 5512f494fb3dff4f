------------------------------ MODULE MCControl ------------------------------
(***************************************************************************)
(* The control of the GNSS HAL for TLC: the location switch with the GPS   *)
(* lock, and the XTRA observer with what it watches and the corrections it *)
(* controls.  They run on the adapter's thread and share no state, so a    *)
(* behaviour follows one of them.  Nor do the calls of the observer's      *)
(* other clients, the restarts of the daemon and the corrections disturb   *)
(* each other, so these three are followed apart as well.  The run checks  *)
(* them all.                                                               *)
(***************************************************************************)
EXTENDS GpsLock, Xtra

CONSTANTS plugin, network, tac, v1, v2

BothWatchers == {xtra, plugin}
OnlyPlugin   == {plugin}
TwoItems     == {network, tac}
Subscribed   == {network}
OnceAsked    == {tac}
TwoValues    == {v1, v2}
AnyValue     == Permutations(TwoValues)

NoLockOrBoth == {{}, Bits}
DefaultLock  == {Bits}   \* the default of ContextBase

TwoSources == {[conn |-> 1, nmea |-> TRUE], [conn |-> 2, nmea |-> FALSE]}
Cleared    == [conn |-> 0, nmea |-> FALSE]

VARIABLE concern

Init ==
  /\ LockInit /\ XtraInit
  /\ concern \in {"lock", "items", "daemon", "corrections"}
  /\ concern # "lock" => modemLock = {}           \* which does not matter then
  /\ concern \in {"lock", "corrections"} => world \in [Items -> {v1}]
  /\ concern # "corrections" => ~ consent

Next ==
  /\ \/ concern = "lock" /\ LockNext /\ UNCHANGED xtraVars
     \/ concern = "items" /\ Observing /\ UNCHANGED lockVars
     \/ concern = "daemon" /\ (Reporting \/ Daemon) /\ UNCHANGED lockVars
     \/ concern = "corrections" /\ UNCHANGED lockVars
        /\ (Corrections \/ Daemon \/ Reporting) /\ ~ offered'   \* no framework
  /\ UNCHANGED concern

Spec == Init /\ [][Next]_<<lockVars, xtraVars, concern>>
=============================================================================
