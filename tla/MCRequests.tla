----------------------------- MODULE MCRequests -----------------------------
(***************************************************************************)
(* The modem's requests to the adapter for TLC: ODCPI with its timer, and  *)
(* NI requests.  The two share the adapter's thread and no state, so a     *)
(* behaviour follows one of them, and the run checks both.                 *)
(***************************************************************************)
EXTENDS Odcpi, NiRequests, LocHeap

CONSTANTS odcpi, other

BothTimers == {odcpi, other}

\* Modem events and starts of the other timer.
ThreeOrTwoAndOne == {<<3, 0>>, <<2, 1>>}

\* Every tree with these delegates.
TreesOf[S \in SUBSET Delegates] ==
  IF S = {} THEN {NoTree}
  ELSE UNION {UNION {{[data |-> d, left |-> l, right |-> r, size |-> Cardinality(S)] :
                        l \in TreesOf[L], r \in TreesOf[(S \ {d}) \ L]} : L \in SUBSET (S \ {d})} : d \in S}

Trees == UNION {TreesOf[S] : S \in SUBSET Delegates}

WithAndWithoutLock == [denyLocked : BOOLEAN, suplEsNo : {FALSE}, cpMtlrEs : {TRUE}]
SomeKinds == [type : {"supl", "es", "controlPlane"}, inEmergency : BOOLEAN, override : {FALSE}]

VARIABLE concern

Init ==
  /\ OdcpiInit /\ NiInit
  /\ concern \in {"odcpi", "ni"}
  /\ concern = "odcpi" => ~ niConfig.denyLocked   \* which does not matter then

Next ==
  /\ \/ concern = "odcpi" /\ OdcpiNext /\ UNCHANGED niVars
     \/ concern = "ni" /\ NiNext /\ UNCHANGED odcpiVars
  /\ UNCHANGED concern

\* Of the one that is not followed nothing is ever enabled.
Spec == Init /\ [][Next]_<<odcpiVars, niVars, concern>> /\ OdcpiFairness /\ NiFairness

\* Type correctness of both modules.
TypeOK == OdcpiTypeOK /\ NiTypeOK

\* The heap against its purpose, for every order of up to five ranks, ties
\* included: the tree stays sound, its top ranks highest, and pop and remove
\* take out what they should and nothing else.
Sorted(tree, rank) ==
  /\ CheckTree(tree, rank)
  /\ tree # NoTree => \A d \in Data(tree) : rank[tree.data] <= rank[d]

ASSUME HeapKeepsOrder ==
  \A n \in 1 .. 5 : \A rank \in [1 .. n -> 1 .. 3] :
    LET tree[i \in 0 .. n] == IF i = 0 THEN NoTree ELSE Push(tree[i - 1], i, rank)
        full == tree[n]
    IN /\ Sorted(full, rank) /\ Data(full) = 1 .. n
       /\ Sorted(Pop(full, rank), rank)
       /\ Data(Pop(full, rank)) = 1 .. n \ {full.data}
       /\ \A d \in 1 .. n :
            /\ Sorted(Remove(full, d, rank), rank)
            /\ Data(Remove(full, d, rank)) = 1 .. n \ {d}
=============================================================================
