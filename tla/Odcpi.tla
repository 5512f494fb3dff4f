-------------------------------- MODULE Odcpi --------------------------------
(***************************************************************************)
(* On demand coarse position injection (ODCPI) of gps/gnss/GnssAdapter.cpp:*)
(* the modem asks for a position and withdraws its request; the adapter    *)
(* passes a request on to the framework, and again each time its timer     *)
(* (OdcpiTimer, a LocTimer of module Timers) expires while the request is  *)
(* still active.  Requests, the timer's expiry and the modem's restart     *)
(* reach the adapter through its message queue.                            *)
(*                                                                         *)
(* Left out: the answer, injectOdcpi, which only passes a position to the  *)
(* modem, and the fields of a request other than its type and emergency.   *)
(***************************************************************************)
EXTENDS Timers

CONSTANTS
  OdcpiTimer,     \* mOdcpiTimer
  Delay,          \* ODCPI_EXPECTED_INJECTION_TIME_MS, in ticks
  OtherDelays,    \* what the other users of timers start theirs with
  Budgets,        \* bound: pairs of modem events and starts of other timers
  MaxQueue        \* bound: the modem is heard while the queue is shorter

ASSUME OdcpiAssumption ==
  /\ OdcpiTimer \in LocTimers
  /\ Delay \in 1 .. MaxDelay
  /\ OtherDelays \subseteq 1 .. MaxDelay
  /\ Budgets \subseteq Nat \X Nat
  /\ MaxQueue \in Nat

OtherTimers == LocTimers \ {OdcpiTimer}

VARIABLES
  callback,     \* is there an mOdcpiRequestCb
  active,       \* mOdcpiRequestActive
  emergency,    \* mOdcpiRequest.isEmergencyMode
  timerActive,  \* mOdcpiTimer.mActive
  restarting,   \* the adapter is between stop() and start() of restart()
  queue,        \* the adapter's messages that concern ODCPI
  asked,        \* history: the last request the framework was given
  others, events   \* bounds: starts of other timers and modem events so far

adapterVars == <<callback, active, emergency, timerActive, restarting, asked>>
odcpiVars   == <<timerVars, adapterVars, queue, others, events>>

Requests == [k : {"start"}, emergency : BOOLEAN] \cup [k : {"stop"}]
OdcpiMsgs == Requests \cup [k : {"init", "expire", "engineUp"}]

OdcpiTypeOK ==
  /\ TimersTypeOK
  /\ callback \in BOOLEAN
  /\ active \in BOOLEAN /\ emergency \in BOOLEAN
  /\ timerActive \in BOOLEAN /\ restarting \in BOOLEAN
  /\ queue \in Seq(OdcpiMsgs)
  /\ asked \in {"nothing", "start", "emergency", "stop"}
  /\ others \in Nat /\ events \in Nat

OdcpiInit ==
  /\ TimersInit
  /\ callback = FALSE
  /\ active = FALSE /\ emergency = FALSE
  /\ timerActive = FALSE /\ restarting = FALSE
  /\ queue = <<>>
  /\ asked = "nothing"
  /\ others = 0 /\ events = 0

-----------------------------------------------------------------------------
(* What arrives *)

Posts(msg) ==
  /\ Len(queue) < MaxQueue
  /\ queue' = Append(queue, msg)

WithinBudget(e, o) == \E b \in Budgets : e <= b[1] /\ o <= b[2]

Modem ==
  /\ events' = events + 1
  /\ WithinBudget(events', others)
  /\ \E msg \in Requests \cup {[k |-> "engineUp"]} : Posts(msg)
  /\ UNCHANGED <<timerVars, adapterVars, others>>

\* The HIDL services all register with ODCPI_HANDLER_PRIORITY_LOW; to do so
\* again changes nothing here.
InitOdcpiCommand ==
  /\ ~ callback /\ ~ \E i \in DOMAIN queue : queue[i].k = "init"
  /\ Posts([k |-> "init"])
  /\ UNCHANGED <<timerVars, adapterVars, others, events>>

\* Another user starts a timer or stops it.
OtherStarts(t) ==
  /\ others' = others + 1
  /\ WithinBudget(events, others')
  /\ CanStart(t)
  /\ \E delay \in OtherDelays : StartTimer(t, delay)
  /\ UNCHANGED <<heap, fd, polled, polling, expiring, adapterVars, queue, events>>

OtherStops(t) ==
  /\ timer[t] # NoDelegate
  /\ StopTimer(t)
  /\ UNCHANGED <<heap, fd, polled, polling, expiring, adapterVars, queue, others, events>>

\* timeOutCallback of OdcpiTimer posts MsgOdcpiTimerExpire.
OdcpiTimerExpireEvent ==
  /\ CallsBack(OdcpiTimer)
  /\ queue' = Append(queue, [k |-> "expire"])
  /\ UNCHANGED <<adapterVars, others, events>>

OtherCallsBack(t) ==
  /\ CallsBack(t)
  /\ UNCHANGED <<adapterVars, queue, others, events>>

-----------------------------------------------------------------------------
(* The adapter's thread *)

Handles(k) ==
  /\ ~ restarting
  /\ queue # <<>> /\ Head(queue).k = k
  /\ queue' = Tail(queue)
  /\ UNCHANGED <<others, events>>

\* mOdcpiRequestCb(request).
Asks(isEmergency) == asked' = IF isEmergency THEN "emergency" ELSE "start"

\* OdcpiTimer::start, stop, and restart, whose start comes as a later step:
\* the timer's lock is free in between.
StartOdcpiTimer ==
  /\ CanStart(OdcpiTimer)
  /\ timerActive' = TRUE
  /\ StartTimer(OdcpiTimer, Delay)
  /\ restarting' = FALSE
StopOdcpiTimer ==
  /\ timerActive' = FALSE
  /\ StopTimer(OdcpiTimer)
  /\ UNCHANGED restarting
RestartOdcpiTimer ==
  /\ timerActive' = FALSE
  /\ StopTimer(OdcpiTimer)
  /\ restarting' = TRUE

LeavesTimer == UNCHANGED <<timer, delegate, msgs, timerActive, restarting>>
LeavesService == UNCHANGED <<heap, fd, polled, polling, expiring>>

InitOdcpi ==
  /\ Handles("init")
  /\ callback' = TRUE
  /\ LeavesTimer /\ LeavesService
  /\ UNCHANGED <<active, emergency, asked>>

\* requestOdcpi, ODCPI_REQUEST_TYPE_START.
RequestStart ==
  /\ Handles("start")
  /\ callback
  /\ LET new == Head(queue).emergency
     IN /\ active' = TRUE
        /\ emergency' = new
        /\ CASE ~ active /\ ~ timerActive ->
                  Asks(new) /\ StartOdcpiTimer
             [] (active \/ timerActive) /\ ~ emergency /\ new ->
                  /\ Asks(new)
                  /\ IF timerActive THEN RestartOdcpiTimer ELSE StartOdcpiTimer
             [] OTHER ->
                  UNCHANGED asked /\ LeavesTimer
  /\ LeavesService
  /\ UNCHANGED callback

\* ... ODCPI_REQUEST_TYPE_STOP: the timer runs on.
RequestStop ==
  /\ Handles("stop")
  /\ callback
  /\ asked' = "stop"
  /\ active' = FALSE
  /\ LeavesTimer /\ LeavesService
  /\ UNCHANGED <<callback, emergency>>

RequestUnsupported ==
  /\ Handles("start") \/ Handles("stop")
  /\ ~ callback
  /\ UNCHANGED <<timerVars, adapterVars>>

\* restartSessions(true).
EngineUp ==
  /\ Handles("engineUp")
  /\ active' = FALSE
  /\ LeavesTimer /\ LeavesService
  /\ UNCHANGED <<callback, emergency, asked>>

\* Mutant: the timer is not restarted.
OdcpiTimerExpire_once ==
  /\ Handles("expire")
  /\ IF active
     THEN Asks(emergency) /\ LeavesTimer
     ELSE StopOdcpiTimer /\ UNCHANGED asked
  /\ LeavesService
  /\ UNCHANGED <<callback, active, emergency>>

\* Mutant: the timer is restarted and the framework not asked.
OdcpiTimerExpire_mute ==
  /\ Handles("expire")
  /\ IF active THEN RestartOdcpiTimer ELSE StopOdcpiTimer
  /\ LeavesService
  /\ UNCHANGED <<callback, active, emergency, asked>>

OdcpiTimerExpire ==
  /\ Handles("expire")
  /\ IF active
     THEN Asks(emergency) /\ RestartOdcpiTimer
     ELSE StopOdcpiTimer /\ UNCHANGED asked
  /\ LeavesService
  /\ UNCHANGED <<callback, active, emergency>>

\* The second half of OdcpiTimer::restart.
RestartStarts ==
  /\ restarting
  /\ StartOdcpiTimer
  /\ LeavesService
  /\ UNCHANGED <<callback, active, emergency, asked, queue, others, events>>

Adapter ==
  InitOdcpi \/ RequestStart \/ RequestStop \/ RequestUnsupported \/ EngineUp
  \/ OdcpiTimerExpire \/ RestartStarts

ServiceTurn == (MsgTask \/ PollTask \/ Tick) /\ UNCHANGED <<adapterVars, queue, others, events>>

OdcpiNext ==
  \/ Modem \/ InitOdcpiCommand
  \/ \E t \in OtherTimers : OtherStarts(t) \/ OtherStops(t) \/ OtherCallsBack(t)
  \/ OdcpiTimerExpireEvent
  \/ Adapter
  \/ ServiceTurn

\* The threads run: the adapter's, MsgTask with the callbacks it makes, the
\* poll thread; and the clock goes on.
OdcpiFairness ==
  /\ WF_odcpiVars(Adapter)
  /\ WF_odcpiVars(MsgTask /\ UNCHANGED <<adapterVars, queue, others, events>>)
  /\ WF_odcpiVars(OdcpiTimerExpireEvent)
  /\ \A t \in OtherTimers : WF_odcpiVars(OtherCallsBack(t))
  /\ WF_odcpiVars(PollTask /\ UNCHANGED <<adapterVars, queue, others, events>>)
  /\ WF_odcpiVars(Tick /\ UNCHANGED <<adapterVars, queue, others, events>>)

OdcpiSpec == OdcpiInit /\ [][OdcpiNext]_odcpiVars /\ OdcpiFairness

-----------------------------------------------------------------------------
(* Properties *)

\* An active request has a timer that will renew it, or the expiry that does
\* is on its way: none of the orders of start, stop, emergency, expiry and
\* modem restart leaves it without (requestOdcpi, odcpiTimerExpire).
ActiveIsTimed ==
  active => \/ restarting
            \/ /\ timerActive
               /\ \/ timer[OdcpiTimer] # NoDelegate
                  \/ expiring.at = "calling" /\ expiring.client = OdcpiTimer
                  \/ \E i \in DOMAIN queue : queue[i].k = "expire"

\* As long as a request is active the framework is asked again, and the timer
\* restarted, over and over ("if ODCPI request is still active after timer
\* expires, request again and restart timer"); also for a request that came
\* while the timer of a stopped one was still running.
ActiveRenewed ==
  []<>(~ active \/ restarting)

\* The framework hears of an emergency: at once, or when the timer of an
\* earlier request expires.
EmergencyHeard ==
  active /\ emergency ~> ~ active \/ ~ emergency \/ asked = "emergency"
=============================================================================
