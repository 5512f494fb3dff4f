------------------------------ MODULE GpsLock ------------------------------
(***************************************************************************)
(* The location switch and the GPS lock: which requests the modem refuses, *)
(* those of the device (MO) or those of the network (NI).  Three parties   *)
(* set it, and each knows something the others do not: the control client  *)
(* of location/LocationAPIClientBase.cpp (the switch in the settings), the *)
(* configuration of the SIM card (setGpsLock) and the control of network   *)
(* initiated access (nfwControlCommand).  gnss/GnssAdapter.cpp makes one   *)
(* lock of them and repeats it when the modem has been restarted.          *)
(*                                                                         *)
(* Two schemes share the code.  As long as mSupportNfwControl is TRUE the  *)
(* lock is a state, the one the modem has.  The first setGpsLock makes it  *)
(* a configuration: what the modem has while location is off; while it is  *)
(* on, nothing is locked.                                                  *)
(*                                                                         *)
(* Left out: technologies other than GNSS, which are refused, the power    *)
(* vote of the modem, and the rest of the configuration, of which only     *)
(* matters that it makes the client forget the lock it sent (mConfig).     *)
(***************************************************************************)
EXTENDS Integers, Sequences, FiniteSets

CONSTANTS
  SimLocks,     \* locks that setGpsLock may ask for
  BootLocks,    \* locks of gps.conf
  MaxCalls,     \* bound: calls of the framework
  LockResets,   \* bound: restarts of the modem
  MaxLockQueue  \* bound: the framework calls only while lockQ is shorter than this

Bits  == {"MO", "NI"}
Locks == SUBSET Bits

NoLock  == {"none"}     \* a configuration without a lock
Unknown == {"unknown"}  \* XTRA has not been told of the lock

ASSUME GpsLockAssumption ==
  /\ SimLocks \subseteq Locks /\ BootLocks \subseteq {l \in Locks : "MO" \in l}
  /\ MaxCalls \in Nat /\ LockResets \in Nat /\ MaxLockQueue \in Nat

VARIABLES
  enabled,    \* mEnabled of the control client
  session,    \* the session of its queue of requests, 0 before the first
  requests,   \* that queue
  config,     \* mConfig: the lock in the last configuration sent
  lockQ,      \* the adapter's queue
  waiting,    \* mPendingMsgs: configurations that wait for the modem's capabilities
  known,      \* mIsEngineCapabilitiesKnown
  afw,        \* mAfwControlId: the session that has location on, or 0
  supportNfw, \* mSupportNfwControl
  lock,       \* ContextBase::mGps_conf.GPS_LOCK
  xtraLock,   \* mGpsLock of the XTRA observer
  locApiQ,    \* the queue of the LocApi's thread
  up,         \* is there a connection to the modem?
  modemLock,  \* the lock in the modem's memory, which a restart keeps
  overtaken,  \* history: is the lock last sent that of a control that a setGpsLock overtook?
  calls, lockResets                 \* bounds

clientVars   == <<enabled, session, requests, config>>
decisionVars == <<afw, supportNfw, lock, xtraLock, overtaken>>
modemVars    == <<locApiQ, up, modemLock>>
lockVars == <<clientVars, lockQ, waiting, known, decisionVars, modemVars, calls, lockResets>>

-----------------------------------------------------------------------------
Switch(k, id) == [k |-> k, id |-> id]
SetGpsLock(l) == [k |-> "config", lock |-> l]
Nfw(on)       == [k |-> "nfw", on |-> on]
EngineIsUp    == [k |-> "engineUp"]

Set(l) == [op |-> "set", lock |-> l]
Open   == [op |-> "open", lock |-> {}]

Switches == [k : {"enable", "disable"}, id : 1 .. MaxCalls]
Configs  == [k : {"config"}, lock : Locks]
LockMsgs == Switches \cup Configs \cup [k : {"nfw"}, on : BOOLEAN] \cup {EngineIsUp}

\* The lock that the modem is meant to have.
Promised(nfw, on, l) == IF nfw \/ on = 0 THEN l ELSE {}

LockTypeOK ==
  /\ enabled \in BOOLEAN /\ session \in 0 .. MaxCalls
  /\ requests \in Seq({"enable", "disable"})
  /\ config \in Locks \cup {NoLock}
  /\ lockQ \in Seq(LockMsgs) /\ waiting \in Seq(Configs)
  /\ known \in BOOLEAN /\ supportNfw \in BOOLEAN /\ up \in BOOLEAN
  /\ afw \in 0 .. MaxCalls /\ lock \in Locks
  /\ xtraLock \in {{}, {"MO"}, Unknown}
  /\ locApiQ \in Seq([op : {"set", "open"}, lock : Locks])
  /\ modemLock \in Locks /\ overtaken \in BOOLEAN
  /\ calls \in 0 .. MaxCalls /\ lockResets \in 0 .. LockResets

LockInit ==
  /\ enabled = FALSE /\ session = 0 /\ requests = <<>> /\ config = NoLock
  /\ lockQ = <<>> /\ waiting = <<>> /\ known = FALSE
  /\ afw = 0 /\ supportNfw = TRUE /\ lock \in BootLocks /\ xtraLock = Unknown
  /\ locApiQ = <<Open>> /\ up = FALSE /\ modemLock \in Locks
  /\ overtaken = FALSE /\ calls = 0 /\ lockResets = 0

-----------------------------------------------------------------------------
(* The framework's threads *)

Calls ==
  /\ calls < MaxCalls /\ Len(lockQ) < MaxLockQueue
  /\ calls' = calls + 1
  /\ UNCHANGED <<waiting, known, decisionVars, modemVars, lockResets>>

Post(m) == lockQ' = Append(lockQ, m)

\* Mutant: the requests of the last session are kept.
LocAPIEnable_noReset ==
  /\ Calls /\ ~ enabled
  /\ enabled' = TRUE /\ session' = calls + 1
  /\ requests' = Append(requests, "enable")
  /\ Post(Switch("enable", calls + 1))
  /\ UNCHANGED config

\* Session ids are taken from the adapter, one per call here.
LocAPIEnable ==
  /\ Calls /\ ~ enabled
  /\ enabled' = TRUE /\ session' = calls + 1
  /\ requests' = <<"enable">>          \* RequestQueue::reset and push
  /\ Post(Switch("enable", calls + 1))
  /\ UNCHANGED config

LocAPIDisable ==
  /\ Calls /\ enabled /\ session > 0
  /\ requests' = Append(requests, "disable")
  /\ Post(Switch("disable", session))
  /\ enabled' = FALSE
  /\ UNCHANGED <<session, config>>

\* Nothing is sent when the configuration is that of the last call.
LocAPIGnssUpdateConfig ==
  \E l \in (SimLocks \cup {NoLock}) \ {config} :
    /\ Calls
    /\ config' = l
    /\ IF l = NoLock THEN UNCHANGED lockQ ELSE Post(SetGpsLock(l))
    /\ UNCHANGED <<enabled, session, requests>>

\* mSupportNfwControl is read on the caller's thread: a setGpsLock that is
\* queued or waits makes it FALSE before this message is handled.
NfwControlCommand ==
  \E on \in BOOLEAN :
    /\ Calls /\ supportNfw
    /\ Post(Nfw(on))
    /\ UNCHANGED clientVars

-----------------------------------------------------------------------------
(* The adapter's thread *)

Receives(k) == lockQ # <<>> /\ Head(lockQ).k = k
Received     == lockQ' = Tail(lockQ)
Send(l)  == locApiQ' = Append(locApiQ, Set(l)) /\ UNCHANGED <<up, modemLock>>
Tell(l)  == xtraLock' = l \ {"NI"}   \* XtraSystemStatusObserver::updateLockStatus

\* onCtrlResponseCb: the oldest request of the session is dealt with.
Respond(id) ==
  /\ requests' = IF id = session /\ requests # <<>> THEN Tail(requests) ELSE requests
  /\ UNCHANGED <<enabled, session, config>>

KeepsWaiting == UNCHANGED <<waiting, known, calls, lockResets>>

MsgEnableGnss ==
  LET id == Head(lockQ).id
      l  == IF supportNfw THEN lock \ {"MO"} ELSE {}
  IN /\ Receives("enable") /\ Received /\ Respond(id) /\ KeepsWaiting
     /\ IF afw > 0
          THEN UNCHANGED <<decisionVars, modemVars>>      \* ALREADY_STARTED
          ELSE /\ afw' = id
               /\ lock' = IF supportNfw THEN l ELSE lock
               /\ Send(l) /\ Tell(l)
               /\ overtaken' = FALSE
               /\ UNCHANGED supportNfw

MsgDisableGnss ==
  LET id == Head(lockQ).id
      l  == IF supportNfw THEN lock \cup {"MO"} ELSE lock
  IN /\ Receives("disable") /\ Received /\ Respond(id) /\ KeepsWaiting
     /\ IF afw # id
          THEN UNCHANGED <<decisionVars, modemVars>>      \* ID_UNKNOWN
          ELSE /\ afw' = 0
               /\ lock' = l
               /\ Send(l) /\ Tell(l)
               /\ overtaken' = FALSE
               /\ UNCHANGED supportNfw

MsgGnssUpdateConfig ==
  LET l == Head(lockQ).lock \cup {"MO"}
  IN /\ Receives("config") /\ known /\ Received /\ KeepsWaiting
     /\ lock' = l
     /\ supportNfw' = FALSE
     /\ IF afw # 0 /\ ~ supportNfw
          THEN UNCHANGED <<modemVars, overtaken>>
          ELSE Send(IF afw # 0 THEN {} ELSE l) /\ overtaken' = FALSE
     /\ UNCHANGED <<clientVars, afw, xtraLock>>

\* Before the capabilities are known.
KeepConfig ==
  /\ Receives("config") /\ ~ known /\ Received
  /\ waiting' = Append(waiting, Head(lockQ))
  /\ UNCHANGED <<clientVars, known, decisionVars, modemVars, calls, lockResets>>

\* The lock is sent as it is, under the second scheme too: of the two, the
\* handler knows only the first.
MsgControlNfwLocationAccess ==
  LET l == IF Head(lockQ).on THEN lock \ {"NI"} ELSE lock \cup {"NI"}
  IN /\ Receives("nfw") /\ Received /\ KeepsWaiting
     /\ lock' = l
     /\ Send(l)
     /\ overtaken' = (~ supportNfw /\ afw # 0)
     /\ UNCHANGED <<clientVars, afw, supportNfw, xtraLock>>

\* Mutant: the restarted modem gets the lock of the configuration, location on or not.
MsgHandleEngineUpEvent_lockAsIs ==
  /\ Receives("engineUp")
  /\ known' = TRUE
  /\ Send(lock)
  /\ lockQ' = Tail(lockQ) \o waiting
  /\ waiting' = <<>>
  /\ overtaken' = FALSE
  /\ UNCHANGED <<clientVars, afw, supportNfw, lock, xtraLock, calls, lockResets>>

\* setConfig sends the lock, and mPendingMsgs are posted again.
MsgHandleEngineUpEvent ==
  /\ Receives("engineUp")
  /\ known' = TRUE
  /\ Send(Promised(supportNfw, afw, lock))
  /\ lockQ' = Tail(lockQ) \o waiting
  /\ waiting' = <<>>
  /\ overtaken' = FALSE
  /\ UNCHANGED <<clientVars, afw, supportNfw, lock, xtraLock, calls, lockResets>>

-----------------------------------------------------------------------------
(* The LocApi's thread and the modem *)

\* A call fails while there is no connection.
SetGpsLockSync ==
  /\ locApiQ # <<>> /\ Head(locApiQ).op = "set"
  /\ locApiQ' = Tail(locApiQ)
  /\ modemLock' = IF up THEN Head(locApiQ).lock ELSE modemLock
  /\ UNCHANGED <<clientVars, lockQ, waiting, known, decisionVars, up, calls, lockResets>>

\* LocOpenMsg and LocSsrMsg: open, and tell the adapter.
OpenModem ==
  /\ locApiQ # <<>> /\ Head(locApiQ).op = "open"
  /\ locApiQ' = Tail(locApiQ)
  /\ up' = TRUE
  /\ Post(EngineIsUp)
  /\ UNCHANGED <<clientVars, waiting, known, decisionVars, modemLock, calls, lockResets>>

HandleEngineDownEvent ==
  /\ up /\ lockResets < LockResets
  /\ lockResets' = lockResets + 1
  /\ up' = FALSE
  /\ locApiQ' = Append(locApiQ, Open)
  /\ UNCHANGED <<clientVars, lockQ, waiting, known, decisionVars, modemLock, calls>>

-----------------------------------------------------------------------------
LockClient  == LocAPIEnable \/ LocAPIDisable \/ LocAPIGnssUpdateConfig \/ NfwControlCommand
LockAdapter ==
  \/ MsgEnableGnss \/ MsgDisableGnss \/ MsgGnssUpdateConfig \/ KeepConfig
  \/ MsgControlNfwLocationAccess \/ MsgHandleEngineUpEvent
LockLocApi  == SetGpsLockSync \/ OpenModem

LockNext == LockClient \/ LockAdapter \/ LockLocApi \/ HandleEngineDownEvent

LockSpec == LockInit /\ [][LockNext]_lockVars

-----------------------------------------------------------------------------
AtRest == lockQ = <<>> /\ locApiQ = <<>> /\ up

\* When all queues are empty the modem has the lock that the switch, the SIM
\* card and the control of network access make together, and XTRA is told of
\* its MO half: enableCommand, disableCommand, gnssUpdateConfigCommand,
\* nfwControlCommand and setConfig.  The one exception is what overtaken says: a
\* control of network access was posted, a setGpsLock was handled before it,
\* and location is on.  Then the modem keeps the lock of the control, until
\* the next disable, restart or control of network access.
LockFollows ==
  AtRest => /\ overtaken \/ modemLock = Promised(supportNfw, afw, lock)
            /\ xtraLock = Unknown \/ ("MO" \in xtraLock <=> afw = 0)

\* When all queues are empty the adapter and the modem agree with the switch:
\* location is on in the client's session, or off, no request waits for an
\* answer, and the device's own requests are locked exactly when it is off.
\* The modem's part has the same exception, since the message of the control
\* of network access carries the MO half too.
SwitchSettles ==
  AtRest => /\ afw = IF enabled THEN session ELSE 0
            /\ requests = <<>>
            /\ overtaken \/ ("MO" \in modemLock <=> ~ enabled)
=============================================================================
