----------------------------- MODULE Agps_proof -----------------------------
(***************************************************************************)
(* What holds of the AGPS state machines for every set of handles, every   *)
(* set of offers and every bound.                                          *)
(***************************************************************************)
EXTENDS Agps, SequenceTheorems, TLAPS

-----------------------------------------------------------------------------
(* Type correctness *)

\* The messages that are posted are messages.
LEMMA MessageTypes ==
  /\ \A h \in Handles, n \in Nifs : [k |-> "request", h |-> h, n |-> n] \in Messages
  /\ \A h \in Handles : [k |-> "release", h |-> h] \in Messages
  /\ \A n \in Nifs, k \in {"open", "failed", "closed"} : [k |-> k, n |-> n] \in Messages
  /\ \A offer \in Offers : [k |-> "init", offer |-> offer] \in Messages
BY DEF Messages

\* What a received message carries.
LEMMA MessageParts ==
  ASSUME NEW m \in Messages
  PROVE  /\ m.k = "request" => m.h \in Handles /\ m.n \in Nifs
         /\ m.k = "release" => m.h \in Handles
         /\ m.k \in {"open", "failed", "closed"} => m.n \in Nifs
         /\ m.k = "init" => m.offer \in Offers
BY DEF Messages

\* Receiving leaves a queue of messages, and says which message it was.
LEMMA ReceiveType ==
  ASSUME TypeOK, NEW k, Receive(k)
  PROVE  msgQ' \in Seq(Messages) /\ msg \in Messages /\ msg.k = k
BY HeadTailProperties DEF Receive, TypeOK, msg

\* The answers keep the modem's view of the handles well-typed.
LEMMA ToldTypes ==
  ASSUME TypeOK, NEW S
  PROVE  /\ ToldOpen(S) \in [Handles -> {"idle", "asked", "open", "closing"}]
         /\ ToldFailed(S) \in [Handles -> {"idle", "asked", "open", "closing"}]
         /\ ToldClosed(S) \in [Handles -> {"idle", "asked", "open", "closing"}]
BY DEF TypeOK, ToldOpen, ToldFailed, ToldClosed

\* An order joins a sequence of orders.
LEMMA OrderType ==
  ASSUME TypeOK, NEW n \in Nifs, NEW what \in {"request", "release"}, Order(n, what)
  PROVE  orders' \in [Nifs -> Seq({"request", "release"})]
<1>1. Append(orders[n], what) \in Seq({"request", "release"})
  BY AppendProperties DEF TypeOK
<1> QED  BY <1>1 DEF Order, TypeOK

\* A lost connection leaves well-typed machines.
LEMMA ClosedType ==
  ASSUME TypeOK, NEW n \in Nifs, Closed(n)
  PROVE  /\ mState' \in [Nifs -> {"RELEASED", "PENDING", "ACQUIRED"}]
         /\ mSubscriberList' \in [Nifs -> SUBSET Handles]
         /\ modem' \in [Handles -> {"idle", "asked", "open", "closing"}]
<1>1. ToldClosed(mSubscriberList[n]) \in [Handles -> {"idle", "asked", "open", "closing"}]
  BY ToldTypes
<1>2. CASE mState[n] = "ACQUIRED"
  BY <1>1, <1>2 DEF Closed, Transition, DropAll, TypeOK
<1>3. CASE mState[n] # "ACQUIRED"
  BY <1>3 DEF Closed, TypeOK
<1> QED  BY <1>2, <1>3

\* Spending a bound leaves bounds.
LEMMA SpendType ==
  ASSUME TypeOK, NEW what \in Limits, Spend(what)
  PROVE  budget' \in [Limits -> Nat]
BY DEF Spend, TypeOK

\* What the framework says is queued.
LEMMA HearsType ==
  ASSUME TypeOK, NEW n \in Nifs, NEW k \in {"open", "failed", "closed"}, Hears(n, k)
  PROVE  msgQ' \in Seq(Messages)
<1>1. [k |-> k, n |-> n] \in Messages
  BY MessageTypes
<1> QED  BY <1>1, AppendProperties DEF Hears, TypeOK

\* The handlers of the adapter thread keep the types.
LEMMA AdapterTypes ==
  ASSUME ConstantsAssumption, TypeOK, AdapterStep
  PROVE  TypeOK'
<1> USE DEF AdapterKeeps, machineVars
<1>1. CASE Create
  <2>1. msgQ' \in Seq(Messages) /\ msg \in Messages /\ msg.k = "init"
    BY <1>1, ReceiveType DEF Create
  <2>2. msg.offer \in SUBSET Nifs
    BY <2>1, MessageParts DEF ConstantsAssumption
  <2> QED  BY <1>1, <2>1, <2>2 DEF Create, TypeOK
<1>2. CASE RequestRefused
  <2>1. msgQ' \in Seq(Messages)
    BY <1>2, ReceiveType DEF RequestRefused
  <2> QED  BY <1>2, <2>1, ToldTypes DEF RequestRefused, TypeOK
<1>3. CASE RequestFirst
  <2>1. msgQ' \in Seq(Messages) /\ msg \in Messages /\ msg.k = "request"
    BY <1>3, ReceiveType DEF RequestFirst
  <2>2. msg.h \in Handles /\ msg.n \in Nifs
    BY <2>1, MessageParts
  <2>3. orders' \in [Nifs -> Seq({"request", "release"})]
    BY <1>3, <2>2, OrderType DEF RequestFirst
  <2> QED  BY <1>3, <2>1, <2>2, <2>3 DEF RequestFirst, Subscribe, Transition, TypeOK
<1>4. CASE RequestWaiting
  <2>1. msgQ' \in Seq(Messages) /\ msg \in Messages /\ msg.k = "request"
    BY <1>4, ReceiveType DEF RequestWaiting
  <2>2. msg.h \in Handles /\ msg.n \in Nifs
    BY <2>1, MessageParts
  <2> QED  BY <1>4, <2>1, <2>2 DEF RequestWaiting, Subscribe, TypeOK
<1>5. CASE RequestGranted
  <2>1. msgQ' \in Seq(Messages) /\ msg \in Messages /\ msg.k = "request"
    BY <1>5, ReceiveType DEF RequestGranted
  <2>2. msg.h \in Handles /\ msg.n \in Nifs
    BY <2>1, MessageParts
  <2> QED  BY <1>5, <2>1, <2>2, ToldTypes DEF RequestGranted, Subscribe, TypeOK
<1>6. CASE ReleaseUnknown
  <2>1. msgQ' \in Seq(Messages)
    BY <1>6, ReceiveType DEF ReleaseUnknown
  <2> QED  BY <1>6, <2>1 DEF ReleaseUnknown, TypeOK
<1>7. CASE ReleaseLast
  <2>1. msgQ' \in Seq(Messages)
    BY <1>7, ReceiveType DEF ReleaseLast
  <2>2. PICK n \in Nifs : DropAll(n) /\ Transition(n, "RELEASED") /\ Order(n, "release")
    BY <1>7 DEF ReleaseLast
  <2>3. orders' \in [Nifs -> Seq({"request", "release"})]
    BY <2>2, OrderType
  <2> QED  BY <1>7, <2>1, <2>2, <2>3, ToldTypes DEF ReleaseLast, DropAll, Transition, TypeOK
<1>8. CASE ReleaseOne
  <2>1. msgQ' \in Seq(Messages)
    BY <1>8, ReceiveType DEF ReleaseOne
  <2> QED  BY <1>8, <2>1, ToldTypes DEF ReleaseOne, TypeOK
<1>9. CASE Granted
  <2>1. msgQ' \in Seq(Messages) /\ msg \in Messages /\ msg.k = "open"
    BY <1>9, ReceiveType DEF Granted
  <2>2. msg.n \in Nifs
    BY <2>1, MessageParts
  <2> QED  BY <1>9, <2>1, <2>2, ToldTypes DEF Granted, Transition, TypeOK
<1>10. CASE Denied
  <2>1. msgQ' \in Seq(Messages) /\ msg \in Messages /\ msg.k = "failed"
    BY <1>10, ReceiveType DEF Denied
  <2>2. msg.n \in Nifs
    BY <2>1, MessageParts
  <2> QED  BY <1>10, <2>1, <2>2, ToldTypes DEF Denied, Transition, DropAll, TypeOK
<1>11. CASE ReportIgnored
  <2>1. msgQ' \in Seq(Messages)
    BY <1>11, ReceiveType DEF ReportIgnored
  <2> QED  BY <1>11, <2>1 DEF ReportIgnored, TypeOK
<1>12. CASE ReportClosed
  <2>1. msgQ' \in Seq(Messages) /\ msg \in Messages /\ msg.k = "closed"
    BY <1>12, ReceiveType DEF ReportClosed
  <2>2. msg.n \in Nifs /\ Closed(msg.n)
    BY <1>12, <2>1, MessageParts DEF ReportClosed
  <2> QED  BY <1>12, <2>1, <2>2, ClosedType DEF ReportClosed, TypeOK
<1> QED
  BY <1>1, <1>2, <1>3, <1>4, <1>5, <1>6, <1>7, <1>8, <1>9, <1>10, <1>11, <1>12
     DEF AdapterStep

\* So does whatever the modem does ...
LEMMA ModemTypes ==
  ASSUME TypeOK,
         \/ \E h \in Handles : GiveBack(h) \/ \E n \in Nifs : Ask(h, n)
         \/ ModemReset
  PROVE  TypeOK'
<1> USE DEF ModemKeeps, machineVars
<1>1. ASSUME NEW h \in Handles, GiveBack(h)
      PROVE  TypeOK'
  <2>1. msgQ' \in Seq(Messages)
    BY <1>1, MessageTypes, AppendProperties DEF GiveBack, TypeOK
  <2> QED  BY <1>1, <2>1 DEF GiveBack, TypeOK
<1>2. ASSUME NEW h \in Handles, NEW n \in Nifs, Ask(h, n)
      PROVE  TypeOK'
  <2>1. msgQ' \in Seq(Messages)
    BY <1>2, MessageTypes, AppendProperties DEF Ask, TypeOK
  <2>2. budget' \in [Limits -> Nat]
    BY <1>2, SpendType DEF Ask, Limits
  <2> QED  BY <1>2, <2>1, <2>2 DEF Ask, TypeOK
<1>3. ASSUME ModemReset
      PROVE  TypeOK'
  <2>1. budget' \in [Limits -> Nat]
    BY <1>3, SpendType DEF ModemReset, Limits
  <2> QED  BY <1>3, <2>1 DEF ModemReset, TypeOK
<1> QED  BY <1>1, <1>2, <1>3

\* An order that is carried out leaves the rest of the orders.
LEMMA ObeyType ==
  ASSUME TypeOK, NEW n \in Nifs, NEW what, Obey(n, what)
  PROVE  /\ orders' \in [Nifs -> Seq({"request", "release"})]
         /\ rejected' \in SUBSET Nifs
         /\ UNCHANGED <<mState, mSubscriberList, modem>>
<1>1. Tail(orders[n]) \in Seq({"request", "release"})
  BY HeadTailProperties DEF Obey, TypeOK
<1> QED  BY <1>1 DEF Obey, TypeOK

\* ... and the framework.
LEMMA FrameworkTypes ==
  ASSUME TypeOK,
         \/ \E offer \in Offers : Register(offer)
         \/ \E n \in Nifs : FrameworkStep(n) \/ RefuseRelease(n) \/ BadApn(n) \/ Lose(n)
         \/ EmptyApn
  PROVE  TypeOK'
<1> USE DEF FrameworkKeeps, machineVars
<1>1. ASSUME NEW offer \in Offers, Register(offer)
      PROVE  TypeOK'
  <2>1. msgQ' \in Seq(Messages)
    BY <1>1, MessageTypes, AppendProperties DEF Register, TypeOK
  <2>2. budget' \in [Limits -> Nat]
    BY <1>1, SpendType DEF Register, Limits
  <2> QED  BY <1>1, <2>1, <2>2 DEF Register, TypeOK
<1>2. ASSUME NEW n \in Nifs, ObeyRequest(n)
      PROVE  TypeOK'
  <2>1. /\ orders' \in [Nifs -> Seq({"request", "release"})]
        /\ rejected' \in SUBSET Nifs
        /\ UNCHANGED <<mState, mSubscriberList, modem>>
    BY <1>2, ObeyType DEF ObeyRequest
  <2>2. CASE network[n] = "open"
    <3>1. msgQ' \in Seq(Messages)
      BY <1>2, <2>2, HearsType DEF ObeyRequest
    <3> QED  BY <1>2, <2>1, <2>2, <3>1 DEF ObeyRequest, TypeOK
  <2>3. CASE network[n] # "open"
    BY <1>2, <2>1, <2>3 DEF ObeyRequest, TypeOK
  <2> QED  BY <2>2, <2>3
<1>3. ASSUME NEW n \in Nifs, ObeyRelease(n)
      PROVE  TypeOK'
  <2>1. /\ orders' \in [Nifs -> Seq({"request", "release"})]
        /\ rejected' \in SUBSET Nifs
        /\ UNCHANGED <<mState, mSubscriberList, modem>>
    BY <1>3, ObeyType DEF ObeyRelease
  <2>2. msgQ' \in Seq(Messages)
    BY <1>3, HearsType DEF ObeyRelease, TypeOK
  <2> QED  BY <1>3, <2>1, <2>2 DEF ObeyRelease, TypeOK
<1>4. ASSUME NEW n \in Nifs, RefuseRelease(n)
      PROVE  TypeOK'
  <2>1. /\ orders' \in [Nifs -> Seq({"request", "release"})]
        /\ rejected' \in SUBSET Nifs
        /\ UNCHANGED <<mState, mSubscriberList, modem>>
    BY <1>4, ObeyType DEF RefuseRelease
  <2>2. msgQ' \in Seq(Messages)
    BY <1>4, HearsType DEF RefuseRelease
  <2>3. budget' \in [Limits -> Nat]
    BY <1>4, SpendType DEF RefuseRelease, Limits
  <2> QED  BY <1>4, <2>1, <2>2, <2>3 DEF RefuseRelease, TypeOK
<1>5. ASSUME NEW n \in Nifs, Connect(n)
      PROVE  TypeOK'
  <2>1. msgQ' \in Seq(Messages)
    BY <1>5, HearsType DEF Connect
  <2> QED  BY <1>5, <2>1 DEF Connect, TypeOK
<1>6. ASSUME NEW n \in Nifs, BadApn(n)
      PROVE  TypeOK'
  <2>1. budget' \in [Limits -> Nat]
    BY <1>6, SpendType DEF BadApn, Limits
  <2> QED  BY <1>6, <2>1, ClosedType DEF BadApn, TypeOK
<1>7. ASSUME NEW n \in Nifs, Lose(n)
      PROVE  TypeOK'
  <2>1. msgQ' \in Seq(Messages)
    BY <1>7, HearsType DEF Lose
  <2>2. budget' \in [Limits -> Nat]
    BY <1>7, SpendType DEF Lose, Limits
  <2> QED  BY <1>7, <2>1, <2>2 DEF Lose, TypeOK
<1>8. ASSUME EmptyApn
      PROVE  TypeOK'
  <2>1. budget' \in [Limits -> Nat]
    BY <1>8, SpendType DEF EmptyApn, Limits
  <2> QED  BY <1>8, <2>1 DEF EmptyApn, TypeOK, Nifs
<1> QED
  BY <1>1, <1>2, <1>3, <1>4, <1>5, <1>6, <1>7, <1>8 DEF FrameworkStep

\* The types hold at the start.
LEMMA InitialTypes == ConstantsAssumption /\ Init => TypeOK
<1>1. << >> \in Seq(Messages) /\ << >> \in Seq({"request", "release"})
  BY EmptySeq
<1> QED  BY <1>1 DEF ConstantsAssumption, Init, TypeOK

\* Every variable keeps its type; in particular no machine is ever RELEASING.
THEOREM TypeCorrect == Spec => []TypeOK
<1>1. Init => TypeOK
  BY InitialTypes, ConstantsAssumption
<1>2. TypeOK /\ [Next]_vars => TypeOK'
  <2> SUFFICES ASSUME TypeOK, [Next]_vars
               PROVE  TypeOK'
    OBVIOUS
  <2>1. CASE AdapterStep
    BY <2>1, AdapterTypes, ConstantsAssumption
  <2>2. CASE \/ \E h \in Handles : GiveBack(h) \/ \E n \in Nifs : Ask(h, n)
             \/ ModemReset
    BY <2>2, ModemTypes
  <2>3. CASE \/ \E offer \in Offers : Register(offer)
             \/ \E n \in Nifs : FrameworkStep(n) \/ RefuseRelease(n) \/ BadApn(n) \/ Lose(n)
             \/ EmptyApn
    BY <2>3, FrameworkTypes
  <2>4. CASE UNCHANGED vars
    BY <2>4 DEF vars, machineVars, TypeOK
  <2> QED  BY <2>1, <2>2, <2>3, <2>4 DEF Next
<1> QED  BY <1>1, <1>2, PTL DEF Spec

-----------------------------------------------------------------------------
(* Machines, subscribers and grants *)

\* Only these steps touch a machine, its subscribers or what the modem knows;
\* all others leave the three alone, except that the modem may use an idle
\* handle, give one back or forget them all.
Harmless ==
  /\ UNCHANGED <<mState, mSubscriberList>>
  /\ \A h \in Handles : modem'[h] = "open" => modem[h] = "open"

\* A refusal, a release and a loss grant nothing.
LEMMA ToldGrantsNothing ==
  ASSUME NEW S, NEW h \in Handles
  PROVE  /\ ToldFailed(S)[h] = "open" => modem[h] = "open"
         /\ ToldClosed(S)[h] = "open" => modem[h] = "open" /\ h \notin S
BY DEF ToldFailed, ToldClosed

\* The steps that are harmless.
LEMMA HarmlessSteps ==
  ASSUME TypeOK, [Next]_vars
  PROVE  \/ Harmless
         \/ RequestFirst \/ RequestWaiting \/ RequestGranted \/ ReleaseLast \/ ReleaseOne
         \/ Granted \/ Denied
         \/ \E n \in Nifs : Closed(n)
<1>1. CASE AdapterStep
  <2>1. CASE Create \/ ReleaseUnknown \/ ReportIgnored
    BY <2>1 DEF Create, ReleaseUnknown, ReportIgnored, Harmless, machineVars
  <2>2. CASE RequestRefused
    BY <2>2, ToldGrantsNothing DEF RequestRefused, Harmless, machineVars
  <2>3. CASE ReportClosed
    <3>1. msg \in Messages /\ msg.k = "closed"
      BY <2>3, ReceiveType DEF ReportClosed
    <3>2. msg.n \in Nifs /\ Closed(msg.n)
      BY <2>3, <3>1, MessageParts DEF ReportClosed
    <3> QED  BY <3>2
  <2> QED  BY <1>1, <2>1, <2>2, <2>3 DEF AdapterStep
<1>2. CASE \/ \E h \in Handles : GiveBack(h) \/ \E n \in Nifs : Ask(h, n)
           \/ ModemReset
  BY <1>2 DEF GiveBack, Ask, ModemReset, ModemKeeps, machineVars, Harmless, TypeOK
<1>3. CASE \/ \E offer \in Offers : Register(offer)
           \/ \E n \in Nifs : FrameworkStep(n) \/ RefuseRelease(n) \/ Lose(n)
           \/ EmptyApn
  BY <1>3 DEF Register, FrameworkStep, ObeyRequest, ObeyRelease, Connect, RefuseRelease, Lose,
              EmptyApn, Obey, machineVars, Harmless
<1>4. ASSUME NEW n \in Nifs, BadApn(n)
      PROVE  Closed(n)
  BY <1>4 DEF BadApn
<1>5. CASE UNCHANGED vars
  BY <1>5 DEF vars, machineVars, Harmless
<1> QED  BY <1>1, <1>2, <1>3, <1>4, <1>5 DEF Next

\* What is received names a handle and a machine.
LEMMA ReceivedParts ==
  ASSUME TypeOK, NEW k, Receive(k)
  PROVE  /\ k = "request" => msg.h \in Handles /\ msg.n \in Nifs
         /\ k = "release" => msg.h \in Handles
         /\ k \in {"open", "failed", "closed"} => msg.n \in Nifs
BY ReceiveType, MessageParts

\* A machine has subscribers exactly while it is not RELEASED, for every step
\* that moves a machine moves its list along (processAgpsEvent).
THEOREM MachinesHaveSubscribers == Spec => []SubscribersMatchState
<1>1. Init => SubscribersMatchState
  BY DEF Init, SubscribersMatchState
<1>2. TypeOK /\ SubscribersMatchState /\ [Next]_vars => SubscribersMatchState'
  <2> SUFFICES ASSUME TypeOK, SubscribersMatchState, [Next]_vars
               PROVE  SubscribersMatchState'
    OBVIOUS
  <2> USE DEF SubscribersMatchState
  <2>1. CASE Harmless
    BY <2>1 DEF Harmless
  <2>2. CASE RequestFirst
    BY <2>2, ReceivedParts DEF RequestFirst, Subscribe, Transition, TypeOK
  <2>3. CASE RequestWaiting
    BY <2>3, ReceivedParts DEF RequestWaiting, Subscribe, TypeOK
  <2>4. CASE RequestGranted
    BY <2>4, ReceivedParts DEF RequestGranted, Subscribe, TypeOK
  <2>5. CASE ReleaseLast
    BY <2>5 DEF ReleaseLast, DropAll, Transition, TypeOK
  <2>6. CASE ReleaseOne
    BY <2>6 DEF ReleaseOne, Serves, TypeOK
  <2>7. CASE Granted
    BY <2>7, ReceivedParts DEF Granted, Transition, TypeOK
  <2>8. CASE Denied
    BY <2>8, ReceivedParts DEF Denied, Transition, DropAll, TypeOK
  <2>9. ASSUME NEW n \in Nifs, Closed(n)
        PROVE  SubscribersMatchState'
    BY <2>9 DEF Closed, Transition, DropAll, TypeOK
  <2> QED  BY <2>1, <2>2, <2>3, <2>4, <2>5, <2>6, <2>7, <2>8, <2>9, HarmlessSteps
<1> QED  BY <1>1, <1>2, TypeCorrect, PTL DEF Spec

\* A handle whose request was granted hears of the end of its connection: it
\* is a subscriber of an acquired machine until the modem is told otherwise.
THEOREM GrantedAreSubscribed == Spec => []GrantsMatchState
<1>1. Init => GrantsMatchState
  BY DEF Init, GrantsMatchState
<1>2. TypeOK /\ GrantsMatchState /\ [Next]_vars => GrantsMatchState'
  <2> SUFFICES ASSUME TypeOK, GrantsMatchState, [Next]_vars,
                      NEW h \in Handles, modem'[h] = "open"
               PROVE  \E n \in Nifs : mState'[n] = "ACQUIRED" /\ h \in mSubscriberList'[n]
    BY DEF GrantsMatchState
  <2> USE DEF GrantsMatchState
  <2>1. CASE Harmless
    BY <2>1 DEF Harmless
  <2>2. CASE RequestFirst
    BY <2>2, ReceivedParts DEF RequestFirst, Subscribe, Transition, TypeOK
  <2>3. CASE RequestWaiting
    BY <2>3, ReceivedParts DEF RequestWaiting, Subscribe, TypeOK
  <2>4. CASE RequestGranted
    BY <2>4, ReceivedParts DEF RequestGranted, Subscribe, ToldOpen, TypeOK
  <2>5. CASE ReleaseLast
    <3>1. modem[h] = "open" /\ h # msg.h
      BY <2>5, ToldGrantsNothing DEF ReleaseLast
    <3> QED  BY <2>5, <3>1 DEF ReleaseLast, DropAll, Transition, TypeOK
  <2>6. CASE ReleaseOne
    <3>1. modem[h] = "open" /\ h # msg.h
      BY <2>6, ToldGrantsNothing DEF ReleaseOne
    <3> QED  BY <2>6, <3>1 DEF ReleaseOne, TypeOK
  <2>7. CASE Granted
    BY <2>7, ReceivedParts DEF Granted, Transition, ToldOpen, TypeOK
  <2>8. CASE Denied
    <3>1. modem[h] = "open"
      BY <2>8, ToldGrantsNothing DEF Denied
    <3> QED  BY <2>8, <3>1, ReceivedParts DEF Denied, Transition, DropAll, TypeOK
  <2>9. ASSUME NEW n \in Nifs, Closed(n)
        PROVE  \E m \in Nifs : mState'[m] = "ACQUIRED" /\ h \in mSubscriberList'[m]
    <3>1. CASE mState[n] = "ACQUIRED"
      <4>1. modem[h] = "open" /\ h \notin mSubscriberList[n]
        BY <2>9, <3>1, ToldGrantsNothing DEF Closed
      <4> QED  BY <2>9, <3>1, <4>1 DEF Closed, Transition, DropAll, TypeOK
    <3>2. CASE mState[n] # "ACQUIRED"
      BY <2>9, <3>2 DEF Closed
    <3> QED  BY <3>1, <3>2
  <2> QED  BY <2>1, <2>2, <2>3, <2>4, <2>5, <2>6, <2>7, <2>8, <2>9, HarmlessSteps
<1> QED  BY <1>1, <1>2, TypeCorrect, PTL DEF Spec
-----------------------------------------------------------------------------
(* What a machine believes of its connection *)

\* A report on connection n, at place i of the queue.
Report(i, k, n) == msgQ[i].k = k /\ msgQ[i].n = n

\* No loss of the connection is reported behind place i.
LastsFrom(i, n) == \A j \in DOMAIN msgQ : j > i => ~ Report(j, "closed", n)

\* Good news that no loss follows is true, whether it is on its way or has
\* been taken in.
NewsIsTrue(n) ==
  /\ \A i \in DOMAIN msgQ : Report(i, "open", n) /\ LastsFrom(i, n) => network[n] = "open"
  /\ mState[n] = "ACQUIRED" /\ LastsFrom(0, n) => network[n] = "open"

\* A machine that waits has asked last, and its order, the attempt to connect
\* or the outcome is on its way, unless the APN was thrown away.
WaitsForNews(n) ==
  mState[n] = "PENDING" =>
    /\ orders[n] # << >> => orders[n][Len(orders[n])] = "request"
    /\ \/ orders[n] # << >> \/ network[n] = "opening" \/ n \in rejected
       \/ \E i \in DOMAIN msgQ : Report(i, "open", n) \/ Report(i, "failed", n)

Believes == \A n \in Nifs : NewsIsTrue(n) /\ WaitsForNews(n)

\* The queue after a message was taken, and after one was posted.
LEMMA QueueTail ==
  ASSUME TypeOK, msgQ # << >>, msgQ' = Tail(msgQ)
  PROVE  /\ Len(msgQ) \in Nat \ {0} /\ DOMAIN msgQ = 1 .. Len(msgQ)
         /\ DOMAIN msgQ' = 1 .. (Len(msgQ) - 1)
         /\ \A i \in DOMAIN msgQ' : msgQ'[i] = msgQ[i + 1]
         /\ msg = msgQ[1]
<1>1. msgQ \in Seq(Messages)
  BY DEF TypeOK
<1> QED  BY <1>1, HeadTailProperties, EmptySeq, LenProperties DEF msg

LEMMA QueueAppend ==
  ASSUME TypeOK, NEW m \in Messages, msgQ' = Append(msgQ, m)
  PROVE  /\ Len(msgQ) \in Nat /\ DOMAIN msgQ = 1 .. Len(msgQ)
         /\ DOMAIN msgQ' = 1 .. (Len(msgQ) + 1)
         /\ \A i \in DOMAIN msgQ : msgQ'[i] = msgQ[i]
         /\ msgQ'[Len(msgQ) + 1] = m
<1>1. msgQ \in Seq(Messages)
  BY DEF TypeOK
<1> QED  BY <1>1, AppendProperties, LenProperties

\* A message that is taken takes no truth away from the news behind it, and an
\* acquired machine that it leaves acquired hears of the same losses, unless
\* the message is the loss of its connection.
LEMMA TakenNews ==
  ASSUME TypeOK, NEW k, Receive(k), NEW n \in Nifs, NewsIsTrue(n),
         network'[n] = network[n],
         mState'[n] = "ACQUIRED" => \/ mState[n] = "ACQUIRED" /\ ~ Report(1, "closed", n)
                                    \/ Report(1, "open", n)
  PROVE  NewsIsTrue(n)'
<1>1. /\ Len(msgQ) \in Nat \ {0} /\ DOMAIN msgQ = 1 .. Len(msgQ)
      /\ DOMAIN msgQ' = 1 .. (Len(msgQ) - 1)
      /\ \A i \in DOMAIN msgQ' : msgQ'[i] = msgQ[i + 1]
  BY QueueTail DEF Receive
<1>2. ASSUME NEW i \in 0 .. (Len(msgQ) - 1), LastsFrom(i, n)'
      PROVE  LastsFrom(i + 1, n)
  <2> SUFFICES ASSUME NEW j \in DOMAIN msgQ, j > i + 1
               PROVE  ~ Report(j, "closed", n)
    BY DEF LastsFrom
  <2>1. j - 1 \in DOMAIN msgQ' /\ j - 1 > i /\ msgQ'[j - 1] = msgQ[j]
    BY <1>1
  <2> QED  BY <1>2, <2>1 DEF LastsFrom, Report
<1>3. ASSUME NEW i \in DOMAIN msgQ', Report(i, "open", n)', LastsFrom(i, n)'
      PROVE  network'[n] = "open"
  <2>1. Report(i + 1, "open", n) /\ i + 1 \in DOMAIN msgQ
    BY <1>1, <1>3 DEF Report
  <2>2. LastsFrom(i + 1, n)
    BY <1>1, <1>2, <1>3
  <2> QED  BY <2>1, <2>2 DEF NewsIsTrue
<1>4. ASSUME mState'[n] = "ACQUIRED", LastsFrom(0, n)'
      PROVE  network'[n] = "open"
  <2>1. LastsFrom(1, n) /\ 1 \in DOMAIN msgQ
    BY <1>1, <1>2, <1>4
  <2>2. CASE mState[n] = "ACQUIRED" /\ ~ Report(1, "closed", n)
    <3>1. LastsFrom(0, n)
      BY <1>1, <2>1, <2>2 DEF LastsFrom
    <3> QED  BY <2>2, <3>1 DEF NewsIsTrue
  <2>3. CASE Report(1, "open", n)
    BY <2>1, <2>3 DEF NewsIsTrue
  <2> QED  BY <1>4, <2>2, <2>3
<1> QED  BY <1>3, <1>4 DEF NewsIsTrue

\* A report that is posted leaves the news true, if a connection that is given
\* up is reported lost and one that is reported open is there.
LEMMA PostedNews ==
  ASSUME TypeOK, NEW m \in Messages, msgQ' = Append(msgQ, m), NEW n \in Nifs, NewsIsTrue(n),
         mState'[n] = mState[n],
         \/ network'[n] = network[n] \/ network[n] # "open" \/ m = [k |-> "closed", n |-> n],
         m = [k |-> "open", n |-> n] => network'[n] = "open"
  PROVE  NewsIsTrue(n)'
<1>1. /\ Len(msgQ) \in Nat /\ DOMAIN msgQ = 1 .. Len(msgQ)
      /\ DOMAIN msgQ' = 1 .. (Len(msgQ) + 1)
      /\ \A i \in DOMAIN msgQ : msgQ'[i] = msgQ[i]
      /\ msgQ'[Len(msgQ) + 1] = m
  BY QueueAppend
<1>2. ASSUME NEW i \in 0 .. Len(msgQ), LastsFrom(i, n)'
      PROVE  LastsFrom(i, n) /\ m # [k |-> "closed", n |-> n]
  BY <1>1, <1>2 DEF LastsFrom, Report
<1>3. ASSUME NEW i \in DOMAIN msgQ', Report(i, "open", n)', LastsFrom(i, n)'
      PROVE  network'[n] = "open"
  <2>1. CASE i = Len(msgQ) + 1
    <3>1. m = [k |-> "open", n |-> n]
      BY <1>1, <1>3, <2>1 DEF Report, Messages
    <3> QED  BY <3>1
  <2>2. CASE i \in DOMAIN msgQ
    <3>1. Report(i, "open", n) /\ LastsFrom(i, n) /\ m # [k |-> "closed", n |-> n]
      BY <1>1, <1>2, <1>3, <2>2 DEF Report
    <3> QED  BY <2>2, <3>1 DEF NewsIsTrue
  <2> QED  BY <1>1, <2>1, <2>2
<1>4. ASSUME mState'[n] = "ACQUIRED", LastsFrom(0, n)'
      PROVE  network'[n] = "open"
  <2>1. LastsFrom(0, n) /\ m # [k |-> "closed", n |-> n]
    BY <1>1, <1>2, <1>4
  <2> QED  BY <1>4, <2>1 DEF NewsIsTrue
<1> QED  BY <1>3, <1>4 DEF NewsIsTrue

\* A connection that comes up while nothing is said makes no news false, nor
\* does a machine that is given up.
LEMMA SilentNews ==
  ASSUME NEW n \in Nifs, NewsIsTrue(n), msgQ' = msgQ,
         network'[n] = network[n] \/ network[n] # "open",
         mState'[n] = "ACQUIRED" => mState[n] = "ACQUIRED"
  PROVE  NewsIsTrue(n)'
BY DEF NewsIsTrue, LastsFrom, Report

\* A message that is taken is no news to a machine that still waits after it.
LEMMA TakenAwaited ==
  ASSUME TypeOK, NEW k, Receive(k), NEW n \in Nifs, WaitsForNews(n),
         mState[n] = "PENDING", ~ Report(1, "open", n), ~ Report(1, "failed", n),
         orders'[n] = orders[n], network'[n] = network[n], rejected' = rejected
  PROVE  WaitsForNews(n)'
<1>1. /\ Len(msgQ) \in Nat \ {0} /\ DOMAIN msgQ = 1 .. Len(msgQ)
      /\ DOMAIN msgQ' = 1 .. (Len(msgQ) - 1)
      /\ \A i \in DOMAIN msgQ' : msgQ'[i] = msgQ[i + 1]
  BY QueueTail DEF Receive
<1>2. ASSUME NEW i \in DOMAIN msgQ, Report(i, "open", n) \/ Report(i, "failed", n)
      PROVE  /\ i - 1 \in DOMAIN msgQ'
             /\ Report(i - 1, "open", n)' \/ Report(i - 1, "failed", n)'
  <2>1. i # 1
    BY <1>2
  <2>2. i - 1 \in DOMAIN msgQ' /\ msgQ'[i - 1] = msgQ[i]
    BY <1>1, <2>1
  <2> QED  BY <1>2, <2>2 DEF Report
<1>3. orders'[n] # << >> => orders'[n][Len(orders'[n])] = "request"
  BY DEF WaitsForNews
<1> QED  BY <1>2, <1>3 DEF WaitsForNews

\* Reports on their way stay there when others are posted.
LEMMA PostedAwaited ==
  ASSUME TypeOK, NEW m \in Messages, msgQ' = Append(msgQ, m), NEW n \in Nifs,
         NEW i \in DOMAIN msgQ, Report(i, "open", n) \/ Report(i, "failed", n)
  PROVE  i \in DOMAIN msgQ' /\ (Report(i, "open", n)' \/ Report(i, "failed", n)')
BY QueueAppend DEF Report

\* A posted outcome is on its way.
LEMMA PostedOutcome ==
  ASSUME TypeOK, NEW n \in Nifs, NEW k \in {"open", "failed"}, Hears(n, k)
  PROVE  \E i \in DOMAIN msgQ' : Report(i, "open", n)' \/ Report(i, "failed", n)'
<1>1. [k |-> k, n |-> n] \in Messages
  BY MessageTypes
<1>2. Len(msgQ) + 1 \in DOMAIN msgQ' /\ msgQ'[Len(msgQ) + 1] = [k |-> k, n |-> n]
  BY <1>1, QueueAppend DEF Hears
<1> QED  BY <1>2 DEF Report

\* An order that is carried out was the first of the orders.
LEMMA OrderTaken ==
  ASSUME TypeOK, NEW n \in Nifs, NEW what, Obey(n, what)
  PROVE  /\ \A m \in Nifs \ {n} : orders'[m] = orders[m] /\ (m \in rejected' <=> m \in rejected)
         /\ orders'[n] # << >> => orders'[n][Len(orders'[n])] = orders[n][Len(orders[n])]
         /\ orders'[n] = << >> => orders[n][Len(orders[n])] = what
         /\ mState' = mState
<1>1. /\ orders[n] \in Seq({"request", "release"}) /\ orders[n] # << >>
      /\ orders'[n] = Tail(orders[n]) /\ Head(orders[n]) = what
  BY DEF TypeOK, Obey
<1>2. /\ Len(orders[n]) \in Nat \ {0} /\ orders'[n] \in Seq({"request", "release"})
      /\ Len(orders'[n]) = Len(orders[n]) - 1
      /\ \A i \in 1 .. Len(orders'[n]) : orders'[n][i] = orders[n][i + 1]
      /\ orders[n][1] = what
  BY <1>1, HeadTailProperties, EmptySeq
<1>3. orders'[n] # << >> => Len(orders'[n]) \in Nat \ {0}
  BY <1>2, EmptySeq
<1>4. orders'[n] = << >> => Len(orders[n]) = 1
  BY <1>2
<1> QED  BY <1>2, <1>3, <1>4 DEF Obey, TypeOK

\* What a machine believes is true after each step of the adapter ...
LEMMA AdapterBelieves ==
  ASSUME TypeOK, Believes, AdapterStep, NEW n \in Nifs
  PROVE  NewsIsTrue(n)' /\ WaitsForNews(n)'
<1> USE DEF AdapterKeeps, machineVars
<1>0. NewsIsTrue(n) /\ WaitsForNews(n)
  BY DEF Believes
<1>q. ASSUME NEW k, Receive(k)
      PROVE  msg = msgQ[1] /\ msg.k = k /\ msg \in Messages
  BY <1>q, QueueTail, ReceiveType DEF Receive
<1>1. CASE Create \/ RequestRefused \/ ReleaseUnknown
  <2>1. PICK k \in {"init", "request", "release"} : Receive(k)
    BY <1>1 DEF Create, RequestRefused, ReleaseUnknown
  <2>2. /\ mState' = mState /\ orders' = orders /\ network' = network /\ rejected' = rejected
        /\ ~ Report(1, "open", n) /\ ~ Report(1, "failed", n) /\ ~ Report(1, "closed", n)
    BY <1>1, <1>q, <2>1 DEF Create, RequestRefused, ReleaseUnknown, Report
  <2>3. NewsIsTrue(n)'
    BY <1>0, <2>1, <2>2, TakenNews
  <2>4. WaitsForNews(n)'
    <3>1. CASE mState[n] = "PENDING"
      BY <1>0, <2>1, <2>2, <3>1, TakenAwaited
    <3> QED  BY <2>2, <3>1 DEF WaitsForNews
  <2> QED  BY <2>3, <2>4
<1>2. CASE RequestFirst
  <2>1. /\ Receive("request") /\ msg.n \in Nifs /\ ~ Report(1, "closed", n)
        /\ ~ Report(1, "open", n) /\ ~ Report(1, "failed", n)
    BY <1>2, <1>q, ReceivedParts DEF RequestFirst, Report
  <2>2. NewsIsTrue(n)'
    <3>1. mState'[n] = "ACQUIRED" => mState[n] = "ACQUIRED"
      BY <1>2, <2>1 DEF RequestFirst, Transition, TypeOK
    <3> QED  BY <1>0, <1>2, <2>1, <3>1, TakenNews DEF RequestFirst
  <2>3. CASE n = msg.n
    <3>1. orders[n] \in Seq({"request", "release"})
      BY DEF TypeOK
    <3>2. orders'[n] = Append(orders[n], "request")
      BY <1>2, <2>3 DEF RequestFirst, Order, TypeOK
    <3>3. orders'[n] # << >> /\ orders'[n][Len(orders'[n])] = "request"
      BY <3>1, <3>2, AppendProperties, EmptySeq
    <3> QED  BY <2>2, <3>3 DEF WaitsForNews
  <2>4. CASE n # msg.n
    <3>1. mState'[n] = mState[n] /\ orders'[n] = orders[n] /\ network' = network /\ rejected' = rejected
      BY <1>2, <2>4 DEF RequestFirst, Order, Transition, TypeOK
    <3>2. CASE mState[n] = "PENDING"
      BY <1>0, <2>1, <2>2, <3>1, <3>2, TakenAwaited
    <3> QED  BY <2>2, <3>1, <3>2 DEF WaitsForNews
  <2> QED  BY <2>2, <2>3, <2>4
<1>3. CASE RequestWaiting \/ RequestGranted \/ ReleaseOne
  <2>1. PICK k \in {"request", "release"} : Receive(k)
    BY <1>3 DEF RequestWaiting, RequestGranted, ReleaseOne
  <2>2. /\ mState' = mState /\ orders' = orders /\ network' = network /\ rejected' = rejected
        /\ ~ Report(1, "open", n) /\ ~ Report(1, "failed", n) /\ ~ Report(1, "closed", n)
    BY <1>3, <1>q, <2>1 DEF RequestWaiting, RequestGranted, ReleaseOne, Report
  <2>3. NewsIsTrue(n)'
    BY <1>0, <2>1, <2>2, TakenNews
  <2>4. WaitsForNews(n)'
    <3>1. CASE mState[n] = "PENDING"
      BY <1>0, <2>1, <2>2, <3>1, TakenAwaited
    <3> QED  BY <2>2, <3>1 DEF WaitsForNews
  <2> QED  BY <2>3, <2>4
<1>4. CASE ReleaseLast
  <2>1. PICK m \in Nifs : Transition(m, "RELEASED") /\ Order(m, "release")
    BY <1>4 DEF ReleaseLast
  <2>2. /\ Receive("release") /\ network' = network /\ rejected' = rejected
        /\ ~ Report(1, "open", n) /\ ~ Report(1, "failed", n) /\ ~ Report(1, "closed", n)
        /\ mState'[n] = IF n = m THEN "RELEASED" ELSE mState[n]
        /\ n # m => orders'[n] = orders[n]
    BY <1>4, <1>q, <2>1 DEF ReleaseLast, Transition, Order, Report, TypeOK
  <2>3. NewsIsTrue(n)'
    BY <1>0, <2>2, TakenNews
  <2>4. WaitsForNews(n)'
    <3>1. CASE n # m /\ mState[n] = "PENDING"
      BY <1>0, <2>2, <3>1, TakenAwaited
    <3> QED  BY <2>2, <3>1 DEF WaitsForNews
  <2> QED  BY <2>3, <2>4
<1>5. CASE Granted
  <2>1. /\ Receive("open") /\ network' = network /\ rejected' = rejected /\ orders' = orders
        /\ msg.n \in Nifs /\ ~ Report(1, "closed", n)
        /\ mState'[n] = IF n = msg.n THEN "ACQUIRED" ELSE mState[n]
        /\ Report(1, "open", n) <=> n = msg.n
        /\ ~ Report(1, "failed", n)
    BY <1>5, <1>q, ReceivedParts DEF Granted, Transition, Report, TypeOK
  <2>2. NewsIsTrue(n)'
    BY <1>0, <2>1, TakenNews
  <2>3. WaitsForNews(n)'
    <3>1. CASE n # msg.n /\ mState[n] = "PENDING"
      BY <1>0, <2>1, <3>1, TakenAwaited
    <3> QED  BY <2>1, <3>1 DEF WaitsForNews
  <2> QED  BY <2>2, <2>3
<1>6. CASE Denied
  <2>1. /\ Receive("failed") /\ network' = network /\ rejected' = rejected /\ orders' = orders
        /\ msg.n \in Nifs /\ ~ Report(1, "closed", n)
        /\ mState'[n] = IF n = msg.n THEN "RELEASED" ELSE mState[n]
        /\ Report(1, "failed", n) <=> n = msg.n
        /\ ~ Report(1, "open", n)
    BY <1>6, <1>q, ReceivedParts DEF Denied, Transition, Report, TypeOK
  <2>2. NewsIsTrue(n)'
    BY <1>0, <2>1, TakenNews
  <2>3. WaitsForNews(n)'
    <3>1. CASE n # msg.n /\ mState[n] = "PENDING"
      BY <1>0, <2>1, <3>1, TakenAwaited
    <3> QED  BY <2>1, <3>1 DEF WaitsForNews
  <2> QED  BY <2>2, <2>3
<1>7. CASE ReportIgnored
  <2>1. PICK k \in {"open", "failed"} : Receive(k)
    BY <1>7 DEF ReportIgnored
  <2>2. /\ network' = network /\ rejected' = rejected /\ orders' = orders /\ mState' = mState
        /\ mState[n] = "PENDING" => ~ Report(1, "open", n) /\ ~ Report(1, "failed", n)
        /\ ~ Report(1, "closed", n)
    BY <1>7, <1>q, <2>1 DEF ReportIgnored, Report
  <2>3. NewsIsTrue(n)'
    BY <1>0, <2>1, <2>2, TakenNews
  <2>4. WaitsForNews(n)'
    <3>1. CASE mState[n] = "PENDING"
      BY <1>0, <2>1, <2>2, <3>1, TakenAwaited
    <3> QED  BY <2>2, <3>1 DEF WaitsForNews
  <2> QED  BY <2>3, <2>4
<1>8. CASE ReportClosed
  <2>1. /\ Receive("closed") /\ network' = network /\ rejected' = rejected /\ orders' = orders
        /\ msg.n \in Nifs /\ ~ Report(1, "open", n) /\ ~ Report(1, "failed", n)
        /\ Report(1, "closed", n) <=> n = msg.n
        /\ mState'[n] = IF n = msg.n /\ mState[n] = "ACQUIRED" THEN "RELEASED" ELSE mState[n]
    BY <1>8, <1>q, ReceivedParts DEF ReportClosed, Closed, Transition, Report, TypeOK
  <2>2. NewsIsTrue(n)'
    BY <1>0, <2>1, TakenNews
  <2>3. WaitsForNews(n)'
    <3>1. CASE mState[n] = "PENDING"
      BY <1>0, <2>1, <3>1, TakenAwaited
    <3> QED  BY <2>1, <3>1 DEF WaitsForNews
  <2> QED  BY <2>2, <2>3
<1> QED
  BY <1>1, <1>2, <1>3, <1>4, <1>5, <1>6, <1>7, <1>8 DEF AdapterStep

\* ... of the modem, which posts requests and releases only ...
LEMMA ModemBelieves ==
  ASSUME TypeOK, Believes, NEW n \in Nifs,
         \/ \E h \in Handles : GiveBack(h) \/ \E m \in Nifs : Ask(h, m)
         \/ ModemReset
  PROVE  NewsIsTrue(n)' /\ WaitsForNews(n)'
<1>0. NewsIsTrue(n) /\ WaitsForNews(n)
  BY DEF Believes
<1>1. mState' = mState /\ orders' = orders /\ network' = network /\ rejected' = rejected
  BY DEF GiveBack, Ask, ModemReset, ModemKeeps, machineVars
<1>2. CASE ModemReset
  BY <1>0, <1>1, <1>2 DEF ModemReset, NewsIsTrue, WaitsForNews, LastsFrom, Report
<1>3. ASSUME NEW m \in Messages, m.k \in {"request", "release"}, msgQ' = Append(msgQ, m)
      PROVE  NewsIsTrue(n)' /\ WaitsForNews(n)'
  <2>1. NewsIsTrue(n)'
    BY <1>0, <1>1, <1>3, PostedNews
  <2> QED  BY <1>0, <1>1, <1>3, <2>1, PostedAwaited DEF WaitsForNews
<1>4. \A h \in Handles : GiveBack(h) \/ (\E m \in Nifs : Ask(h, m)) =>
        \E m \in Messages : m.k \in {"request", "release"} /\ msgQ' = Append(msgQ, m)
  BY MessageTypes DEF GiveBack, Ask
<1> QED  BY <1>2, <1>3, <1>4

\* ... and of the framework.
LEMMA FrameworkBelieves ==
  ASSUME TypeOK, Believes, NEW n \in Nifs, 
         \/ \E offer \in Offers : Register(offer)
         \/ \E m \in Nifs : FrameworkStep(m) \/ RefuseRelease(m) \/ BadApn(m) \/ Lose(m)
         \/ EmptyApn
  PROVE  NewsIsTrue(n)' /\ WaitsForNews(n)'
<1> USE DEF FrameworkKeeps, machineVars
<1>0. NewsIsTrue(n) /\ WaitsForNews(n)
  BY DEF Believes
<1>m. \A m \in Nifs, k \in {"open", "failed", "closed"} : [k |-> k, n |-> m] \in Messages
  BY MessageTypes
<1>1. ASSUME NEW offer \in Offers, Register(offer)
      PROVE  NewsIsTrue(n)' /\ WaitsForNews(n)'
  <2>1. /\ [k |-> "init", offer |-> offer] \in Messages
        /\ msgQ' = Append(msgQ, [k |-> "init", offer |-> offer])
        /\ mState' = mState /\ orders' = orders /\ network' = network /\ rejected' = rejected
    BY <1>1, MessageTypes DEF Register
  <2>2. NewsIsTrue(n)'
    BY <1>0, <2>1, PostedNews
  <2> QED  BY <1>0, <2>1, <2>2, PostedAwaited DEF WaitsForNews
<1>2. ASSUME NEW m \in Nifs, ObeyRequest(m)
      PROVE  NewsIsTrue(n)' /\ WaitsForNews(n)'
  <2>1. /\ mState' = mState
        /\ n # m => orders'[n] = orders[n] /\ (n \in rejected' <=> n \in rejected)
        /\ orders'[m] # << >> => orders'[m][Len(orders'[m])] = orders[m][Len(orders[m])]
        /\ orders[m] # << >>
    BY <1>2, OrderTaken DEF ObeyRequest, Obey
  <2>2. CASE network[m] = "open"
    <3>1. Hears(m, "open") /\ network' = network
      BY <1>2, <2>2 DEF ObeyRequest
    <3>2. NewsIsTrue(n)'
      BY <1>0, <1>m, <2>1, <2>2, <3>1, PostedNews DEF Hears
    <3>3. n = m => \E i \in DOMAIN msgQ' : Report(i, "open", n)' \/ Report(i, "failed", n)'
      BY <3>1, PostedOutcome
    <3>4. n # m => WaitsForNews(n)'
      BY <1>0, <1>m, <2>1, <3>1, PostedAwaited DEF WaitsForNews, Hears
    <3> QED  BY <1>0, <2>1, <3>2, <3>3, <3>4 DEF WaitsForNews
  <2>3. CASE network[m] # "open"
    <3>1. msgQ' = msgQ /\ network'[m] = "opening" /\ (n # m => network'[n] = network[n])
      BY <1>2, <2>3 DEF ObeyRequest, TypeOK
    <3>2. NewsIsTrue(n)'
      BY <1>0, <2>1, <2>3, <3>1, SilentNews
    <3> QED  BY <1>0, <2>1, <3>1, <3>2 DEF WaitsForNews, Report
  <2> QED  BY <2>2, <2>3
<1>3. ASSUME NEW m \in Nifs, ObeyRelease(m)
      PROVE  NewsIsTrue(n)' /\ WaitsForNews(n)'
  <2>1. /\ mState' = mState
        /\ n # m => orders'[n] = orders[n] /\ (n \in rejected' <=> n \in rejected)
        /\ orders'[m] # << >> => orders'[m][Len(orders'[m])] = orders[m][Len(orders[m])]
        /\ orders'[m] = << >> => orders[m][Len(orders[m])] = "release"
        /\ orders[m] # << >>
        /\ network'[m] = "closed" /\ (n # m => network'[n] = network[n])
    BY <1>3, OrderTaken DEF ObeyRelease, Obey, TypeOK
  <2>2. msgQ' = msgQ \/ Hears(m, "closed")
    BY <1>3 DEF ObeyRelease
  <2>3. NewsIsTrue(n)'
    <3>1. CASE network[m] = "closed"
      BY <1>0, <1>3, <2>1, <3>1, SilentNews DEF ObeyRelease
    <3>2. CASE network[m] # "closed"
      BY <1>0, <1>m, <1>3, <2>1, <3>2, PostedNews DEF ObeyRelease, Hears
    <3> QED  BY <3>1, <3>2
  <2>4. CASE n = m
    BY <1>0, <2>1, <2>3, <2>4 DEF WaitsForNews
  <2>5. CASE n # m
    BY <1>0, <1>m, <2>1, <2>2, <2>3, <2>5, PostedAwaited DEF WaitsForNews, Hears, Report
  <2> QED  BY <2>4, <2>5
<1>4. ASSUME NEW m \in Nifs, RefuseRelease(m)
      PROVE  NewsIsTrue(n)' /\ WaitsForNews(n)'
  <2>1. /\ mState' = mState /\ network' = network /\ Hears(m, "failed")
        /\ n # m => orders'[n] = orders[n] /\ (n \in rejected' <=> n \in rejected)
        /\ orders'[m] # << >> => orders'[m][Len(orders'[m])] = orders[m][Len(orders[m])]
        /\ orders[m] # << >>
    BY <1>4, OrderTaken DEF RefuseRelease, Obey
  <2>2. NewsIsTrue(n)'
    BY <1>0, <1>m, <2>1, PostedNews DEF Hears
  <2>3. n = m => \E i \in DOMAIN msgQ' : Report(i, "open", n)' \/ Report(i, "failed", n)'
    BY <2>1, PostedOutcome
  <2>4. n # m => WaitsForNews(n)'
    BY <1>0, <1>m, <2>1, PostedAwaited DEF WaitsForNews, Hears
  <2> QED  BY <1>0, <2>1, <2>2, <2>3, <2>4 DEF WaitsForNews
<1>5. ASSUME NEW m \in Nifs, Connect(m)
      PROVE  NewsIsTrue(n)' /\ WaitsForNews(n)'
  <2>1. PICK k \in {"open", "failed"} :
          /\ Hears(m, k) /\ network'[m] = IF k = "open" THEN "open" ELSE "closed"
          /\ n # m => network'[n] = network[n]
    BY <1>5 DEF Connect, TypeOK
  <2>2. /\ mState' = mState /\ orders' = orders /\ rejected' = rejected
        /\ network[m] = "opening"
    BY <1>5 DEF Connect
  <2>3. NewsIsTrue(n)'
    BY <1>0, <1>m, <2>1, <2>2, PostedNews DEF Hears
  <2>4. n = m => \E i \in DOMAIN msgQ' : Report(i, "open", n)' \/ Report(i, "failed", n)'
    BY <2>1, PostedOutcome
  <2>5. n # m => WaitsForNews(n)'
    BY <1>0, <1>m, <2>1, <2>2, PostedAwaited DEF WaitsForNews, Hears
  <2> QED  BY <1>0, <2>2, <2>3, <2>4, <2>5 DEF WaitsForNews
<1>6. ASSUME NEW m \in Nifs, BadApn(m)
      PROVE  NewsIsTrue(n)' /\ WaitsForNews(n)'
  <2>1. /\ msgQ' = msgQ /\ orders' = orders /\ rejected' = rejected \cup {m}
        /\ network'[m] = "open" /\ (n # m => network'[n] = network[n])
        /\ network[m] = "opening"
        /\ mState'[n] = IF n = m /\ mState[n] = "ACQUIRED" THEN "RELEASED" ELSE mState[n]
    BY <1>6 DEF BadApn, Closed, Transition, TypeOK
  <2>2. NewsIsTrue(n)'
    BY <1>0, <2>1, SilentNews
  <2> QED  BY <1>0, <2>1, <2>2 DEF WaitsForNews, Report
<1>7. ASSUME NEW m \in Nifs, Lose(m)
      PROVE  NewsIsTrue(n)' /\ WaitsForNews(n)'
  <2>1. /\ mState' = mState /\ orders' = orders /\ rejected' = rejected /\ Hears(m, "closed")
        /\ network[m] = "open" /\ (n # m => network'[n] = network[n])
    BY <1>7 DEF Lose, TypeOK
  <2>2. NewsIsTrue(n)'
    BY <1>0, <1>m, <2>1, PostedNews DEF Hears
  <2> QED  BY <1>0, <1>m, <2>1, <2>2, PostedAwaited DEF WaitsForNews, Hears
<1>8. ASSUME EmptyApn
      PROVE  NewsIsTrue(n)' /\ WaitsForNews(n)'
  <2>1. /\ msgQ' = msgQ /\ orders' = orders /\ mState' = mState
        /\ rejected' = rejected \cup {"agnss"} /\ network["agnss"] = "opening"
        /\ network' = [network EXCEPT !["agnss"] = "open"]
    BY <1>8 DEF EmptyApn
  <2>2. network'[n] = IF n = "agnss" THEN "open" ELSE network[n]
    BY <2>1 DEF TypeOK
  <2>3. NewsIsTrue(n)'
    BY <1>0, <2>1, <2>2, SilentNews
  <2> QED  BY <1>0, <2>1, <2>2, <2>3 DEF WaitsForNews, Report
<1> QED
  BY <1>1, <1>2, <1>3, <1>4, <1>5, <1>6, <1>7, <1>8 DEF FrameworkStep

\* What a machine takes for a connection is one, once everything on its way
\* has come in: losses, grants, denials and releases may cross as they like.
\* Orders are carried out in order, and each loss is reported behind the good
\* news it makes stale (Believes), so the last word is right.
THEOREM AcquiredIsConnected == Spec => []AcquiredMeansConnected
<1>1. Init => Believes
  BY DEF Init, Believes, NewsIsTrue, WaitsForNews
<1>2. TypeOK /\ Believes /\ [Next]_vars => Believes'
  <2> SUFFICES ASSUME TypeOK, Believes, [Next]_vars, NEW n \in Nifs
               PROVE  NewsIsTrue(n)' /\ WaitsForNews(n)'
    BY DEF Believes
  <2>1. CASE AdapterStep
    BY <2>1, AdapterBelieves
  <2>2. CASE \/ \E h \in Handles : GiveBack(h) \/ \E m \in Nifs : Ask(h, m)
             \/ ModemReset
    BY <2>2, ModemBelieves
  <2>3. CASE \/ \E offer \in Offers : Register(offer)
             \/ \E m \in Nifs : FrameworkStep(m) \/ RefuseRelease(m) \/ BadApn(m) \/ Lose(m)
             \/ EmptyApn
    BY <2>3, FrameworkBelieves
  <2>4. CASE UNCHANGED vars
    BY <2>4 DEF vars, machineVars, Believes, NewsIsTrue, WaitsForNews, LastsFrom, Report
  <2> QED  BY <2>1, <2>2, <2>3, <2>4 DEF Next
<1>3. Believes => AcquiredMeansConnected
  <2> SUFFICES ASSUME Believes, AtRest, NEW n \in Nifs
               PROVE  /\ mState[n] = "ACQUIRED" => network[n] = "open"
                      /\ mState[n] = "PENDING" => n \in rejected
    BY DEF AcquiredMeansConnected
  <2>1. DOMAIN msgQ = {} /\ orders[n] = << >> /\ network[n] # "opening"
    BY DEF AtRest
  <2> QED  BY <2>1 DEF Believes, NewsIsTrue, WaitsForNews, LastsFrom
<1> QED  BY <1>1, <1>2, <1>3, TypeCorrect, PTL DEF Spec

=============================================================================
