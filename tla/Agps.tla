-------------------------------- MODULE Agps --------------------------------
(***************************************************************************)
(* Assisted GPS data connections: gps/gnss/Agps.cpp and the commands of    *)
(* GnssAdapter.cpp around it.                                              *)
(*                                                                         *)
(* The modem asks for a connection under a handle (ATL request) and gives  *)
(* it back (ATL release).  The adapter thread takes these requests from    *)
(* msgQ and shares one connection per state machine among all handles that *)
(* want it: the first subscriber has the framework open it, the last one   *)
(* has it closed.  The framework carries the orders out in its own time    *)
(* and reports on msgQ; a connection may also go away by itself.           *)
(*                                                                         *)
(* Left out: APN, bearer and type of a connection (data the machine passes *)
(* on), inactive subscribers and with them the state RELEASING (releaseATL *)
(* cannot get there: every subscriber is made with mWaitForCloseComplete   *)
(* false), and handleModemSSR, which nothing calls.                        *)
(***************************************************************************)
EXTENDS Integers, Sequences, FiniteSets

CONSTANTS
  Handles,    \* connection handles the modem uses
  Offers,     \* what initAgps may be asked to create: sets of machines
  Budget,     \* bounds on what the environment does, see Limits
  MaxQueue    \* bound: the modem posts only while msgQ is shorter than this

Nifs   == {"agnss", "internet"}   \* mAgnssNif, mInternetNif
Limits == {"asks", "losses", "refusals", "badApns", "resets", "inits"}

ASSUME ConstantsAssumption ==
  /\ Offers \subseteq SUBSET Nifs
  /\ Budget \in [Limits -> Nat]
  /\ MaxQueue \in Nat

VARIABLES
  nifs,             \* the machines that exist
  mState,           \* their states
  mSubscriberList,  \* their subscribers
  msgQ,             \* the adapter's MsgTask queue
  modem,            \* what the modem knows of each handle
  orders,           \* calls to mFrameworkStatusV4Cb not yet carried out
  network,          \* the connections, as the framework sees them
  budget,           \* bounds
  rejected          \* history: machines whose last good news was thrown away

machineVars == <<nifs, mState, mSubscriberList>>
vars == <<machineVars, msgQ, modem, orders, network, budget, rejected>>

Messages ==
  [k : {"request"}, h : Handles, n : Nifs]     \* AgpsMsgRequestATL
  \cup [k : {"release"}, h : Handles]          \* AgpsMsgReleaseATL
  \cup [k : {"open", "failed", "closed"}, n : Nifs]
      \* AgpsMsgAtlOpenSuccess, AgpsMsgAtlOpenFailed, AgpsMsgAtlClosed
  \cup [k : {"init"}, offer : Offers]          \* AgpsMsgInit

Spend(what) ==
  /\ budget[what] > 0
  /\ budget' = [budget EXCEPT ![what] = @ - 1]

-----------------------------------------------------------------------------
(* What the modem makes of atlOpenStatus and atlCloseStatus: an answer     *)
(* that fits no request of the handle changes nothing.                     *)

ToldOpen(S)   == [h \in Handles |-> IF h \in S /\ modem[h] = "asked"
                                    THEN "open" ELSE modem[h]]
ToldFailed(S) == [h \in Handles |-> IF h \in S /\ modem[h] \in {"asked", "closing"}
                                    THEN "idle" ELSE modem[h]]
ToldClosed(S) == [h \in Handles |-> IF h \in S /\ modem[h] \in {"open", "closing"}
                                    THEN "idle" ELSE modem[h]]

-----------------------------------------------------------------------------
(* Building blocks: the state machine *)

Receive(k) ==
  /\ msgQ # << >>
  /\ Head(msgQ).k = k
  /\ msgQ' = Tail(msgQ)

msg == Head(msgQ)

Transition(n, state) == mState' = [mState EXCEPT ![n] = state]
Subscribe(n, h)      == mSubscriberList' = [mSubscriberList EXCEPT ![n] = @ \cup {h}]
DropAll(n)           == mSubscriberList' = [mSubscriberList EXCEPT ![n] = {}]

\* requestOrReleaseDataConn
Order(n, what) == orders' = [orders EXCEPT ![n] = Append(@, what)]

\* Mutant: a lost connection only moves the machine.
Closed_keepList(n) ==
  IF mState[n] = "ACQUIRED"
  THEN /\ Transition(n, "RELEASED")
       /\ modem' = ToldClosed(mSubscriberList[n])
       /\ UNCHANGED mSubscriberList
  ELSE UNCHANGED <<mState, mSubscriberList, modem>>

\* Mutant: a lost connection goes unnoticed.
Closed_ignored(n) == UNCHANGED <<mState, mSubscriberList, modem>>

\* reportAtlClosed: only a granted connection can be lost.
Closed(n) ==
  IF mState[n] = "ACQUIRED"
  THEN /\ Transition(n, "RELEASED")
       /\ modem' = ToldClosed(mSubscriberList[n])
       /\ DropAll(n)
  ELSE UNCHANGED <<mState, mSubscriberList, modem>>

-----------------------------------------------------------------------------
(* The adapter thread *)

AdapterKeeps == UNCHANGED <<network, budget, rejected>>

\* createAgpsStateMachines adds the machines that are missing.
Create ==
  /\ Receive("init")
  /\ nifs' = nifs \cup msg.offer
  /\ UNCHANGED <<mState, mSubscriberList, modem, orders>>
  /\ AdapterKeeps

\* requestATL of a type that has no machine
RequestRefused ==
  /\ Receive("request")
  /\ msg.n \notin nifs
  /\ modem' = ToldFailed({msg.h})
  /\ UNCHANGED <<machineVars, orders>>
  /\ AdapterKeeps

\* processAgpsEventSubscribe, by state
RequestFirst ==
  /\ Receive("request")
  /\ msg.n \in nifs
  /\ mState[msg.n] = "RELEASED"
  /\ Subscribe(msg.n, msg.h)
  /\ Order(msg.n, "request")
  /\ Transition(msg.n, "PENDING")
  /\ UNCHANGED <<nifs, modem>>
  /\ AdapterKeeps

RequestWaiting ==
  /\ Receive("request")
  /\ msg.n \in nifs
  /\ mState[msg.n] = "PENDING"
  /\ Subscribe(msg.n, msg.h)
  /\ UNCHANGED <<nifs, mState, modem, orders>>
  /\ AdapterKeeps

\* Mutant: the handle is told, but not remembered.
RequestGranted_forgotten ==
  /\ Receive("request")
  /\ msg.n \in nifs
  /\ mState[msg.n] = "ACQUIRED"
  /\ modem' = ToldOpen({msg.h})
  /\ UNCHANGED <<machineVars, orders>>
  /\ AdapterKeeps

RequestGranted ==
  /\ Receive("request")
  /\ msg.n \in nifs
  /\ mState[msg.n] = "ACQUIRED"
  /\ modem' = ToldOpen({msg.h})
  /\ Subscribe(msg.n, msg.h)
  /\ UNCHANGED <<nifs, mState, orders>>
  /\ AdapterKeeps

\* the machine releaseATL finds a subscriber in
Serves(n, h) ==
  /\ h \in mSubscriberList[n]
  /\ n = "internet" => h \notin mSubscriberList["agnss"]

\* releaseATL of a handle that no machine knows is only logged.
ReleaseUnknown ==
  /\ Receive("release")
  /\ \A n \in Nifs : msg.h \notin mSubscriberList[n]
  /\ UNCHANGED <<machineVars, modem, orders>>
  /\ AdapterKeeps

\* processAgpsEventUnsubscribe.  deleteSubscriber goes on to compare the rest
\* of the list with the subscriber it has just freed; the adapter thread
\* allocates nothing in between, so the freed block still reads as before.
ReleaseLast ==
  /\ Receive("release")
  /\ \E n \in Nifs :
       /\ Serves(n, msg.h)
       /\ mSubscriberList[n] = {msg.h}
       /\ DropAll(n)
       /\ Transition(n, "RELEASED")
       /\ Order(n, "release")
  /\ modem' = ToldClosed({msg.h})
  /\ UNCHANGED nifs
  /\ AdapterKeeps

\* Mutant: the modem is told only when the connection is closed.
ReleaseOne_mute ==
  /\ Receive("release")
  /\ \E n \in Nifs :
       /\ Serves(n, msg.h)
       /\ mSubscriberList[n] # {msg.h}
       /\ mSubscriberList' = [mSubscriberList EXCEPT ![n] = @ \ {msg.h}]
  /\ UNCHANGED <<nifs, mState, modem, orders>>
  /\ AdapterKeeps

ReleaseOne ==
  /\ Receive("release")
  /\ \E n \in Nifs :
       /\ Serves(n, msg.h)
       /\ mSubscriberList[n] # {msg.h}
       /\ mSubscriberList' = [mSubscriberList EXCEPT ![n] = @ \ {msg.h}]
  /\ modem' = ToldClosed({msg.h})
  /\ UNCHANGED <<nifs, mState, orders>>
  /\ AdapterKeeps

\* reportAtlOpenSuccess
Granted ==
  /\ Receive("open")
  /\ mState[msg.n] = "PENDING"
  /\ Transition(msg.n, "ACQUIRED")
  /\ modem' = ToldOpen(mSubscriberList[msg.n])
  /\ UNCHANGED <<nifs, mSubscriberList, orders>>
  /\ AdapterKeeps

\* Mutant: the subscribers are dropped without a word.
Denied_mute ==
  /\ Receive("failed")
  /\ mState[msg.n] = "PENDING"
  /\ Transition(msg.n, "RELEASED")
  /\ DropAll(msg.n)
  /\ UNCHANGED <<nifs, modem, orders>>
  /\ AdapterKeeps

\* reportAtlOpenFailed
Denied ==
  /\ Receive("failed")
  /\ mState[msg.n] = "PENDING"
  /\ Transition(msg.n, "RELEASED")
  /\ modem' = ToldFailed(mSubscriberList[msg.n])
  /\ DropAll(msg.n)
  /\ UNCHANGED <<nifs, orders>>
  /\ AdapterKeeps

\* either of them in any other state is logged at most
ReportIgnored ==
  /\ Receive("open") \/ Receive("failed")
  /\ mState[msg.n] # "PENDING"
  /\ UNCHANGED <<machineVars, modem, orders>>
  /\ AdapterKeeps

ReportClosed ==
  /\ Receive("closed")
  /\ Closed(msg.n)
  /\ UNCHANGED <<nifs, orders>>
  /\ AdapterKeeps

AdapterStep ==
  \/ Create \/ RequestRefused \/ RequestFirst \/ RequestWaiting \/ RequestGranted
  \/ ReleaseUnknown \/ ReleaseLast \/ ReleaseOne
  \/ Granted \/ Denied \/ ReportIgnored \/ ReportClosed

-----------------------------------------------------------------------------
(* The modem, through LocApi on its own thread.  It uses a handle for one  *)
(* request at a time and may give up on a request that is still unanswered.*)

ModemKeeps == UNCHANGED <<machineVars, orders, network, rejected>>

Ask(h, n) ==
  /\ modem[h] = "idle"
  /\ Len(msgQ) < MaxQueue
  /\ Spend("asks")
  /\ modem' = [modem EXCEPT ![h] = "asked"]
  /\ msgQ' = Append(msgQ, [k |-> "request", h |-> h, n |-> n])
  /\ ModemKeeps

GiveBack(h) ==
  /\ modem[h] \in {"asked", "open"}
  /\ Len(msgQ) < MaxQueue
  /\ modem' = [modem EXCEPT ![h] = "closing"]
  /\ msgQ' = Append(msgQ, [k |-> "release", h |-> h])
  /\ UNCHANGED budget
  /\ ModemKeeps

\* A modem restart is not reported to the AgpsManager.
ModemReset ==
  /\ Spend("resets")
  /\ modem' = [h \in Handles |-> "idle"]
  /\ UNCHANGED msgQ
  /\ ModemKeeps

-----------------------------------------------------------------------------
(* The framework: the IAGnss service (android/2.0/AGnss.cpp) or the        *)
(* loc_net_iface library, both driven by GNSS_A connection code outside    *)
(* this tree.                                                              *)

FrameworkKeeps == UNCHANGED <<nifs, budget>>
Hears(n, k)    == msgQ' = Append(msgQ, [k |-> k, n |-> n])

\* agpsInit, initDefaultAgps
Register(offer) ==
  /\ Spend("inits")
  /\ msgQ' = Append(msgQ, [k |-> "init", offer |-> offer])
  /\ UNCHANGED <<machineVars, modem, orders, network, rejected>>

Obey(n, what) ==
  /\ orders[n] # << >>
  /\ Head(orders[n]) = what
  /\ orders' = [orders EXCEPT ![n] = Tail(@)]
  /\ rejected' = rejected \ {n}
  /\ UNCHANGED <<mState, mSubscriberList, modem>>

\* a connection that is there already is reported again
ObeyRequest(n) ==
  /\ Obey(n, "request")
  /\ IF network[n] = "open"
     THEN Hears(n, "open") /\ UNCHANGED network
     ELSE network' = [network EXCEPT ![n] = "opening"] /\ UNCHANGED msgQ
  /\ FrameworkKeeps

ObeyRelease(n) ==
  /\ Obey(n, "release")
  /\ network' = [network EXCEPT ![n] = "closed"]
  /\ IF network[n] = "closed" THEN UNCHANGED msgQ ELSE Hears(n, "closed")
  /\ FrameworkKeeps

\* agpsCloseResultCb(false) is reported like a failed open.
RefuseRelease(n) ==
  /\ Obey(n, "release")
  /\ network[n] = "open"
  /\ Spend("refusals")
  /\ Hears(n, "failed")
  /\ UNCHANGED <<nifs, network>>

\* dataConnOpenCommand, dataConnFailedCommand
Connect(n) ==
  /\ network[n] = "opening"
  /\ \/ network' = [network EXCEPT ![n] = "open"] /\ Hears(n, "open")
     \/ network' = [network EXCEPT ![n] = "closed"] /\ Hears(n, "failed")
  /\ UNCHANGED <<mState, mSubscriberList, modem, orders, rejected>>
  /\ FrameworkKeeps

\* dataConnOpenCommand with an APN it does not like: reportAtlClosed at once,
\* on the caller's thread and ahead of everything in msgQ.
BadApn(n) ==
  /\ network[n] = "opening"
  /\ Spend("badApns")
  /\ network' = [network EXCEPT ![n] = "open"]
  /\ rejected' = rejected \cup {n}
  /\ Closed(n)
  /\ UNCHANGED <<nifs, msgQ, orders>>

\* AGnss::dataConnOpen with an empty APN: the adapter hears nothing.
EmptyApn ==
  /\ network["agnss"] = "opening"
  /\ Spend("badApns")
  /\ network' = [network EXCEPT !["agnss"] = "open"]
  /\ rejected' = rejected \cup {"agnss"}
  /\ UNCHANGED <<machineVars, msgQ, modem, orders>>

\* The connection goes away by itself: dataConnClosedCommand.
Lose(n) ==
  /\ network[n] = "open"
  /\ Spend("losses")
  /\ network' = [network EXCEPT ![n] = "closed"]
  /\ Hears(n, "closed")
  /\ UNCHANGED <<machineVars, modem, orders, rejected>>

FrameworkStep(n) == ObeyRequest(n) \/ ObeyRelease(n) \/ Connect(n)

-----------------------------------------------------------------------------
Init ==
  /\ nifs = {}
  /\ mState = [n \in Nifs |-> "RELEASED"]
  /\ mSubscriberList = [n \in Nifs |-> {}]
  /\ msgQ = << >>
  /\ modem = [h \in Handles |-> "idle"]
  /\ orders = [n \in Nifs |-> << >>]
  /\ network = [n \in Nifs |-> "closed"]
  /\ budget = Budget
  /\ rejected = {}

Next ==
  \/ AdapterStep
  \/ \E h \in Handles : GiveBack(h) \/ \E n \in Nifs : Ask(h, n)
  \/ ModemReset
  \/ \E offer \in Offers : Register(offer)
  \/ \E n \in Nifs : FrameworkStep(n) \/ RefuseRelease(n) \/ BadApn(n) \/ Lose(n)
  \/ EmptyApn

\* The adapter thread serves its queue and the framework its orders; nobody
\* has to ask, give back, or lose a connection.
Fairness == WF_vars(AdapterStep) /\ \A n \in Nifs : WF_vars(FrameworkStep(n))

Spec == Init /\ [][Next]_vars /\ Fairness

-----------------------------------------------------------------------------
(* Properties *)

\* Type correctness; with it, the state RELEASING is never entered.
TypeOK ==
  /\ nifs \in SUBSET Nifs
  /\ mState \in [Nifs -> {"RELEASED", "PENDING", "ACQUIRED"}]
  /\ mSubscriberList \in [Nifs -> SUBSET Handles]
  /\ msgQ \in Seq(Messages)
  /\ modem \in [Handles -> {"idle", "asked", "open", "closing"}]
  /\ orders \in [Nifs -> Seq({"request", "release"})]
  /\ network \in [Nifs -> {"closed", "opening", "open"}]
  /\ budget \in [Limits -> Nat]
  /\ rejected \in SUBSET Nifs

\* A machine is RELEASED exactly when it has no subscriber: nobody is left
\* waiting on a machine that asked for nothing, and no connection is kept
\* waiting or open for nobody.
SubscribersMatchState ==
  \A n \in Nifs : mState[n] = "RELEASED" <=> mSubscriberList[n] = {}

\* A handle the modem was granted is a subscriber of an acquired machine, so
\* that it will hear when the connection is lost.
GrantsMatchState ==
  \A h \in Handles : modem[h] = "open" =>
    \E n \in Nifs : mState[n] = "ACQUIRED" /\ h \in mSubscriberList[n]

\* The system at rest: nothing queued on either side.
AtRest == msgQ = << >> /\ \A n \in Nifs : orders[n] = << >> /\ network[n] # "opening"

\* At rest, a machine holds only a connection that is there, and waits only
\* for one whose APN was thrown away, whatever crossed on the way.
AcquiredMeansConnected ==
  AtRest => \A n \in Nifs : /\ mState[n] = "ACQUIRED" => network[n] = "open"
                            /\ mState[n] = "PENDING" => n \in rejected

\* Every request of the modem is answered in the end, unless the APN of the
\* connection it waits for was thrown away.
RequestsAnswered ==
  \A h \in Handles :
    modem[h] = "asked" ~>
      \/ modem[h] # "asked"
      \/ \E n \in rejected : h \in mSubscriberList[n]

\* Every handle the modem gives back is closed in the end.
ReleasesAnswered == \A h \in Handles : modem[h] = "closing" ~> modem[h] # "closing"

=============================================================================
