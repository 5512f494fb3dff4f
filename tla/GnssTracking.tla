---------------------------- MODULE GnssTracking ----------------------------
(***************************************************************************)
(* The tracking core of the GNSS HAL: gps/gnss/GnssAdapter.cpp on top of   *)
(* gps/core/LocAdapterBase.cpp and LocApiBase.cpp.                         *)
(*                                                                         *)
(* Three kinds of threads meet here.                                       *)
(*   - Client threads call LocationAPI.  A call only posts a LocMsg on the *)
(*     adapter's queue, msgQ.                                              *)
(*   - The adapter thread takes the messages of msgQ in order.  It owns    *)
(*     the session maps and posts requests on the LocApi queue, apiQ.      *)
(*   - The LocApi thread takes the requests of apiQ in order, drives the   *)
(*     engine and posts each answer back on msgQ as a LocApiResponse,      *)
(*     whose body (a lambda of the adapter) runs on the adapter thread.    *)
(*                                                                         *)
(* A message is the lambda or LocMsg subclass it stands for (k) and what   *)
(* it captured: client, session id, options, and, of a response, the       *)
(* LocationError as a Boolean (ok).  cmd names the client command on whose *)
(* behalf a request was made; only the history variables read it.          *)
(*                                                                         *)
(* Left out: what does not steer sessions (engine hub notifications, NMEA, *)
(* DGNSS, position mode, the tbm value and its M4 -> M2 fallback, which    *)
(* only rewrites the options on entry) and options of size 0.              *)
(***************************************************************************)
EXTENDS Integers, Sequences, FiniteSets

CONSTANTS
  Clients,            \* LocationAPI objects
  NoClient,
  MaxSessions,        \* session ids are handed out from 1 up to MaxSessions
  Requests,           \* TrackingOptions a client may ask for
  NoOptions,          \* "not in the map"
  MinInterval,        \* MIN_TRACKING_INTERVAL
  DistanceSupported,  \* isMessageSupported(..._DISTANCE_BASE_TRACKING)
  TrackingCbs,        \* may a client register with / without tracking callbacks
  MayFail,            \* may the engine refuse a request while it is up
  Patient,            \* do clients wait for an answer before the next command
  Budget,             \* bounds on what the environment does, see Budgets
  MaxQueue            \* bound: clients post only while msgQ is shorter than this

INVALID == 0          \* GNSS_POWER_MODE_INVALID; M1 = 1 is the highest power

Ids     == 1 .. MaxSessions
Options == [interval : Nat, power : Nat, distance : BOOLEAN]
Limits  == {"commands", "resets", "configs", "nhz", "observers", "callbacks"}
Budgets == [Limits -> Nat]

ASSUME ConstantsAssumption ==
  /\ NoClient \notin Clients
  /\ MaxSessions \in Nat
  /\ Requests \subseteq Options
  /\ NoOptions \notin Options
  /\ MinInterval \in Nat
  /\ DistanceSupported \in BOOLEAN
  /\ TrackingCbs \subseteq BOOLEAN
  /\ MayFail \in BOOLEAN
  /\ Patient \in BOOLEAN
  /\ Budget \in Budgets
  /\ MaxQueue \in Nat

VARIABLES
  \* client side
  api,          \* [Clients -> "new" | "live" | "gone"]: gData.clientData
  owner,        \* [Ids -> client that was handed the id]
  nextId,       \* mSessionIdCounter
  \* adapter
  msgQ,         \* the adapter's MsgTask queue
  pending,      \* mPendingMsgs
  clientData,   \* mClientData: "absent", or are tracking callbacks set
  sessions,     \* mTimeBasedTrackingSessions, mDistanceBasedTrackingSessions
  powerOn,      \* mPowerOn
  observer,     \* mPowerStateCb and the last value it was given
  capsKnown,    \* mIsEngineCapabilitiesKnown
  nhz,          \* mNHzNeeded
  spe,          \* mSPEAlreadyRunningAtHighestInterval
  sweep,        \* a handler in the middle of a loop over sessions
  \* LocApi thread and engine
  apiQ,
  link,         \* is the engine reachable
  engine,       \* the one time based session of the engine
  engineDist,   \* distance based sessions running on the engine
  \* bounds and history
  budget,
  owed,         \* [Ids -> commands posted and not answered]
  unheard,      \* [Ids -> commands among them that ended without an answer]
  stopAnswered  \* ids whose stop was answered: done, or no such session

clientVars  == <<api, owner, nextId>>
sessionVars == <<sessions, powerOn, observer>>
modeVars    == <<capsKnown, nhz, spe>>
engineVars  == <<link, engine, engineDist>>
historyVars == <<owed, unheard, stopAnswered>>
vars == <<clientVars, msgQ, pending, clientData, sessionVars, modeVars, sweep,
          apiQ, engineVars, budget, historyVars>>

-----------------------------------------------------------------------------
(* Messages and requests *)

\* The LocMsg subclasses posted by commands ...
CommandKinds == {"add", "remove", "start", "update", "stop", "observe", "config", "engineUp"}

\* ... and the lambdas handed to LocApiResponse, named by what they do.
ReplyKinds == {"started",      \* startTimeBasedTracking, startDistanceBasedTracking
               "restore",      \* updateTracking
               "report",       \* stopTracking
               "distStopped",  \* stopTrackingCommand, distance branch
               "distSwept",    \* stopClientSessions, distance branch
               "switchToTime", \* updateTrackingOptionsCommand, distance to time
               "distRestart",  \* updateTrackingOptionsCommand, distance update
               "distSave",     \* its inner lambda
               "ignore"}       \* [] (LocationError) {} or nullptr

Cmds     == {"none", "start", "update", "stop", "remove"}

SessionKinds == {"start", "update", "stop"} \cup (ReplyKinds \ {"ignore"})
OptionsKinds == {"start", "update", "restore", "switchToTime", "distRestart", "distSave"}
ClientKinds  == {"add", "remove"} \cup SessionKinds

Messages ==
  {m \in [k : CommandKinds \cup ReplyKinds, client : Clients \cup {NoClient},
          id : Ids \cup {0}, opts : Options \cup {NoOptions}, cmd : Cmds, ok : BOOLEAN] :
     /\ m.k \in ClientKinds => m.client \in Clients
     /\ m.k \in SessionKinds => m.id \in Ids
     /\ m.k \in OptionsKinds => m.opts \in Options}

Ops      == {"open", "startTime", "stopFix", "startDist", "stopDist"}
ApiCalls ==
  {c \in [op : Ops, opts : Options \cup {NoOptions}, reply : Messages] :
     /\ c.reply.k \in ReplyKinds
     /\ c.op = "startTime" => c.opts \in Options
     /\ c.op \in {"startDist", "stopDist"} => c.reply.id \in Ids}

Msg(k, c, id, o, cmd) ==
  [k |-> k, client |-> c, id |-> id, opts |-> o, cmd |-> cmd, ok |-> TRUE]

Ignore   == Msg("ignore", NoClient, 0, NoOptions, "none")
Plain(k) == Msg(k, NoClient, 0, NoOptions, "none")

Call(op, o, reply) == [op |-> op, opts |-> o, reply |-> reply]
Open               == Call("open", NoOptions, Ignore)
StartDist(id, reply) == Call("startDist", NoOptions, [reply EXCEPT !.id = id])
StopDist(id, reply)  == Call("stopDist", NoOptions, [reply EXCEPT !.id = id])

-----------------------------------------------------------------------------
(* The session maps *)

In(map)  == {i \in Ids : map[i] # NoOptions}
TimeIds  == In(sessions.time)
DistIds  == In(sessions.dist)
NoSessions == [time |-> [i \in Ids |-> NoOptions], dist |-> [i \in Ids |-> NoOptions]]

\* saveTrackingSession: the options choose the map.
Saved(s, id, o) ==
  IF o.distance /\ DistanceSupported
  THEN [s EXCEPT !.dist[id] = o]
  ELSE [s EXCEPT !.time[id] = o]

\* eraseTrackingSession: the time based map first, the other only if not found.
Erased(s, id) ==
  IF s.time[id] # NoOptions
  THEN [s EXCEPT !.time[id] = NoOptions]
  ELSE [s EXCEPT !.dist[id] = NoOptions]

\* reportPowerStateIfChanged: what mPowerOn becomes with the maps s.
PowerAfter(s) == In(s.time) # {} \/ In(s.dist) # {}

Told(on) == IF on THEN "on" ELSE "off"

\* Mutant: the callback is not told.
SetSessions_silent(s) ==
  /\ sessions' = s
  /\ powerOn' = PowerAfter(s)
  /\ UNCHANGED observer

SetSessions(s) ==
  /\ sessions' = s
  /\ powerOn' = PowerAfter(s)
  /\ observer' = IF PowerAfter(s) # powerOn /\ observer \in {"on", "off"}
                 THEN Told(PowerAfter(s))
                 ELSE observer

Clamped(o) == [o EXCEPT !.interval = IF o.interval < MinInterval THEN MinInterval ELSE @]

-----------------------------------------------------------------------------
(* Multiplexing every time based session onto the engine's single one.     *)
(* A plan is what a handler decided: the calls it makes, the new value of  *)
(* spe, and the answer: "now" (no call is made, the caller reports), "sent"*)
(* (already reported) or "later" (the engine's answer will be reported).   *)

\* checkAndSetSPEToRunforNHz, followed by the call unless it says to skip it.
Run(need, flag, o, reply) ==
  LET raise == need /\ ~flag /\ o.interval > MinInterval
  IN  [calls  |-> IF need /\ flag THEN << >>
                 ELSE << Call("startTime",
                              [o EXCEPT !.interval = IF raise THEN MinInterval ELSE @], reply) >>,
       spe    |-> flag \/ raise,
       answer |-> IF need /\ flag THEN "sent" ELSE "later"]

NoCall(flag) == [calls |-> << >>, spe |-> flag, answer |-> "now"]
Idle         == NoCall(spe)
NoRestart    == NoCall(FALSE)

\* The sessions of S that a scan for a smaller interval may end with.
Fastest(S) == {i \in S : \A j \in S : sessions.time[i].interval <= sessions.time[j].interval}

\* multiplexedPowerMode: the smallest power mode, except that INVALID (the
\* smallest number of all) is forgotten again when another session follows
\* it.  The map is ordered by client pointer, which nothing fixes.
MuxPowers(S) ==
  LET powers == {sessions.time[i].power : i \in S}
  IN  IF INVALID \in powers
      THEN powers
      ELSE {p \in powers : \A q \in powers : p <= q}

\* highestPowerTrackingOptions of checkAndRestartTimeBasedSession: INVALID
\* stays only when it comes first.
RestartPowers(S) ==
  LET powers == {sessions.time[i].power : i \in S}
      valid  == powers \ {INVALID}
  IN  {p \in valid : \A q \in valid : p <= q} \cup (powers \cap {INVALID})

\* the options of session i, in power mode p
WithPower(i, p) == [sessions.time[i] EXCEPT !.power = p]

\* startTimeBasedTrackingMultiplex and updateTrackingMultiplex against the
\* other sessions S.
Joined(o, i, p) ==
  [sessions.time[i] EXCEPT !.interval = IF o.interval < @ THEN o.interval ELSE @,
                           !.power    = IF o.power < p THEN o.power ELSE @]
JoinPlans(S, o, reply) ==
  { IF o.interval < sessions.time[i].interval \/ o.power < p
    THEN Run(nhz, spe, Joined(o, i, p), reply)
    ELSE Idle : i \in Fastest(S), p \in MuxPowers(S) }

StartPlans(o, reply) ==
  IF TimeIds = {} THEN {Run(nhz, spe, o, reply)} ELSE JoinPlans(TimeIds, o, reply)

UpdatePlans(id, o, reply) ==
  LET old == sessions.time[id]
  IN  CASE old.interval = o.interval /\ old.power = o.power -> {Idle}
        [] OTHER -> IF TimeIds = {id} THEN {Run(nhz, spe, o, reply)}
                    ELSE JoinPlans(TimeIds \ {id}, o, reply)

\* Mutant: counts the sessions after the erase, and never finds the last one.
StopPlans_lateCount(c, id, cmd) == {Idle}

\* stopTracking
StopEngine(c, id, cmd) ==
  [calls |-> <<Call("stopFix", NoOptions, Msg("report", c, id, NoOptions, cmd))>>,
   spe |-> FALSE, answer |-> "later"]

\* stopTimeBasedTrackingMultiplex: with session i the fastest of the others
\* and p their power mode ...
RunOthers(c, id, cmd, i, p) ==
  IF sessions.time[id].interval < sessions.time[i].interval \/ sessions.time[id].power < p
  THEN Run(nhz, spe, WithPower(i, p), Msg("started", c, id, NoOptions, cmd))
  ELSE Idle

\* ... or without others.
StopPlans(c, id, cmd) ==
  LET others == TimeIds \ {id}
  IN  IF others = {}
      THEN {StopEngine(c, id, cmd)}
      ELSE {RunOthers(c, id, cmd, i, p) : i \in Fastest(others), p \in MuxPowers(others)}

\* Mutant: forgets to start the engine again.
RestartPlans_forgotten(need) == {NoRestart}

\* nobody waits for the answer of a restart
RunAgain(need, i, p) == Run(need, FALSE, WithPower(i, p), Ignore)

\* checkAndRestartTimeBasedSession
RestartPlans(need) ==
  IF TimeIds = {}
  THEN {NoRestart}
  ELSE { RunAgain(need, i, p) : i \in Fastest(TimeIds), p \in RestartPowers(TimeIds) }

-----------------------------------------------------------------------------
(* Building blocks of the actions *)

Idling == [k |-> "none", client |-> NoClient, left |-> {}]
Sweeps == [k : {"none", "restart", "engineUp"}, client : {NoClient}, left : SUBSET Ids]
          \cup [k : {"remove"}, client : Clients, left : SUBSET Ids]

\* id is the first of the sessions S of one client (LocationSessionMap orders
\* them by client, then by id)
First(id, S) == id \in S /\ \A j \in S : id <= j

Spend(what) ==
  /\ budget[what] > 0
  /\ budget' = [budget EXCEPT ![what] = @ - 1]

Post(m)      == msgQ' = Append(msgQ, m)
Request(seq) == apiQ' = apiQ \o seq

\* reportResponse(client, err, id): silently dropped for an unknown client.
Report(m, ok) ==
  IF clientData[m.client] # "absent"
  THEN /\ owed' = [owed EXCEPT ![m.id] = @ - 1]
       /\ stopAnswered' = IF m.cmd = "stop" /\ (ok \/ m.k = "stop")
                          THEN stopAnswered \cup {m.id}
                          ELSE stopAnswered
       /\ UNCHANGED unheard
  ELSE UNCHANGED historyVars

\* The command of m ends here, and nothing is reported to its client.
Silence(m) ==
  /\ unheard' = [unheard EXCEPT ![m.id] = @ + 1]
  /\ UNCHANGED <<owed, stopAnswered>>

\* Mutant: answers at once, and again when the engine has answered.
Follow_twice(plan, m) ==
  /\ Request(plan.calls)
  /\ spe' = plan.spe
  /\ Report(m, TRUE)

\* Carry out a plan, answering the client unless the engine will.
Follow(plan, m) ==
  /\ Request(plan.calls)
  /\ spe' = plan.spe
  /\ IF plan.answer = "later" THEN UNCHANGED historyVars ELSE Report(m, TRUE)

\* MsgTask::run: the next message of the adapter thread.
Receive(k) ==
  /\ sweep = Idling
  /\ msgQ # << >>
  /\ Head(msgQ).k = k
  /\ msgQ' = Tail(msgQ)

-----------------------------------------------------------------------------
(* Client threads: LocationAPI.  gData serialises them. *)

PostCommand(m) ==
  /\ Len(msgQ) < MaxQueue
  /\ Post(m)
  /\ UNCHANGED <<pending, clientData, sessionVars, modeVars, sweep, apiQ, engineVars>>

\* createInstance ...
AddClient(c, cb) ==
  /\ api[c] = "new"
  /\ api' = [api EXCEPT ![c] = "live"]
  /\ PostCommand([Msg("add", c, 0, NoOptions, "none") EXCEPT !.ok = cb])
  /\ UNCHANGED <<owner, nextId, budget, historyVars>>

\* ... and updateCallbacks, which posts the same message.
UpdateCallbacks(c, cb) ==
  /\ api[c] = "live"
  /\ Spend("callbacks")
  /\ PostCommand([Msg("add", c, 0, NoOptions, "none") EXCEPT !.ok = cb])
  /\ UNCHANGED <<clientVars, historyVars>>

RemoveClient(c) ==
  /\ api[c] = "live"
  /\ api' = [api EXCEPT ![c] = "gone"]
  /\ PostCommand(Msg("remove", c, 0, NoOptions, "none"))
  /\ UNCHANGED <<owner, nextId, budget, historyVars>>

StartTracking(c, o) ==
  /\ api[c] = "live"
  /\ nextId \in Ids
  /\ Spend("commands")
  /\ nextId' = nextId + 1
  /\ owner' = [owner EXCEPT ![nextId] = c]
  /\ owed' = [owed EXCEPT ![nextId] = @ + 1]
  /\ PostCommand(Msg("start", c, nextId, o, "start"))
  /\ UNCHANGED <<api, unheard, stopAnswered>>

MayCommand(c, id) ==
  /\ api[c] = "live"
  /\ owner[id] = c
  /\ Patient => owed[id] = 0

UpdateTrackingOptions(c, id, o) ==
  /\ MayCommand(c, id)
  /\ Spend("commands")
  /\ owed' = [owed EXCEPT ![id] = @ + 1]
  /\ PostCommand(Msg("update", c, id, o, "update"))
  /\ UNCHANGED <<clientVars, unheard, stopAnswered>>

StopTracking(c, id) ==
  /\ MayCommand(c, id)
  /\ Spend("commands")
  /\ owed' = [owed EXCEPT ![id] = @ + 1]
  /\ PostCommand(Msg("stop", c, id, NoOptions, "stop"))
  /\ UNCHANGED <<clientVars, unheard, stopAnswered>>

\* getPowerStateChangesCommand
ObservePower ==
  /\ Spend("observers")
  /\ PostCommand(Plain("observe"))
  /\ UNCHANGED <<clientVars, historyVars>>

\* gnssUpdateConfigCommand, gnssUpdateSvConfigCommand, configMinGpsWeekCommand
ChangeConfig ==
  /\ Spend("configs")
  /\ PostCommand(Plain("config"))
  /\ UNCHANGED <<clientVars, historyVars>>

ClientStep ==
  \/ \E c \in Clients, cb \in TrackingCbs : AddClient(c, cb) \/ UpdateCallbacks(c, cb)
  \/ \E c \in Clients : RemoveClient(c)
  \/ \E c \in Clients, o \in Requests : StartTracking(c, o)
  \/ \E c \in Clients, id \in Ids, o \in Requests : UpdateTrackingOptions(c, id, o)
  \/ \E c \in Clients, id \in Ids : StopTracking(c, id)
  \/ ObservePower
  \/ ChangeConfig

-----------------------------------------------------------------------------
(* The adapter thread: LocMsg::proc of the commands *)

msg == Head(msgQ)     \* the message being handled

AdapterKeeps == UNCHANGED <<clientVars, engineVars, budget>>

SaveClient ==
  /\ Receive("add")
  /\ clientData' = [clientData EXCEPT ![msg.client] = IF msg.ok THEN "tracking" ELSE "other"]
  /\ UNCHANGED <<pending, sessionVars, modeVars, sweep, apiQ, historyVars>>
  /\ AdapterKeeps

SavePowerStateCallback ==
  /\ Receive("observe")
  /\ observer' = Told(powerOn)
  /\ UNCHANGED <<pending, clientData, sessions, powerOn, modeVars, sweep, apiQ, historyVars>>
  /\ AdapterKeeps

\* distance based tracking has to know the engine capabilities: try again later
Postpone ==
  /\ Receive("start") \/ Receive("update")
  /\ ~capsKnown /\ msg.opts.distance
  /\ pending' = Append(pending, msg)
  /\ UNCHANGED <<clientData, sessionVars, modeVars, sweep, apiQ, historyVars>>
  /\ AdapterKeeps

\* Mutant: does not wait for the engine's capabilities.
Begin_eager(k) == Receive(k)

Begin(k) ==
  /\ Receive(k)
  /\ capsKnown \/ ~msg.opts.distance

\* CALLBACK_MISSING is computed, but this handler reports nothing
StartWithoutCallbacks ==
  /\ Begin("start")
  /\ clientData[msg.client] # "tracking"
  /\ Silence(msg)
  /\ UNCHANGED <<pending, clientData, sessionVars, modeVars, sweep, apiQ>>
  /\ AdapterKeeps

StartDistanceBased ==
  /\ Begin("start")
  /\ clientData[msg.client] = "tracking"
  /\ msg.opts.distance /\ DistanceSupported
  /\ SetSessions(Saved(sessions, msg.id, Clamped(msg.opts)))
  /\ Request(<<StartDist(msg.id, Msg("started", msg.client, msg.id, NoOptions, msg.cmd))>>)
  /\ UNCHANGED <<pending, clientData, modeVars, sweep, historyVars>>
  /\ AdapterKeeps

StartTimeBased ==
  /\ Begin("start")
  /\ clientData[msg.client] = "tracking"
  /\ ~(msg.opts.distance /\ DistanceSupported)
  /\ \E plan \in StartPlans(Clamped(msg.opts), Msg("started", msg.client, msg.id, NoOptions, msg.cmd)) :
       Follow(plan, msg)
  /\ SetSessions(Saved(sessions, msg.id, Clamped(msg.opts)))
  /\ UNCHANGED <<pending, clientData, capsKnown, nhz, sweep>>
  /\ AdapterKeeps

UnknownId(k) ==
  /\ IF k = "update" THEN Begin(k) ELSE Receive(k)
  /\ msg.id \notin TimeIds \cup DistIds
  /\ Report(msg, FALSE)
  /\ UNCHANGED <<pending, clientData, sessionVars, modeVars, sweep, apiQ>>
  /\ AdapterKeeps

\* the reply of the new distance session is ignored
TimeToDistance ==
  /\ Begin("update")
  /\ msg.id \in TimeIds /\ msg.opts.distance
  /\ \E plan \in StopPlans(msg.client, msg.id, msg.cmd) :
       Follow([plan EXCEPT !.calls = Append(@, StartDist(msg.id, Ignore))], msg)
  /\ SetSessions(Saved(Erased(sessions, msg.id), msg.id, Clamped(msg.opts)))
  /\ UNCHANGED <<pending, clientData, capsKnown, nhz, sweep>>
  /\ AdapterKeeps

DistanceToTime ==
  /\ Begin("update")
  /\ msg.id \in DistIds \ TimeIds /\ ~msg.opts.distance
  /\ SetSessions(Erased(sessions, msg.id))
  /\ Request(<<StopDist(msg.id, Msg("switchToTime", msg.client, msg.id, Clamped(msg.opts), msg.cmd))>>)
  /\ UNCHANGED <<pending, clientData, modeVars, sweep, historyVars>>
  /\ AdapterKeeps

UpdateTimeBased ==
  /\ Begin("update")
  /\ msg.id \in TimeIds /\ ~msg.opts.distance
  /\ LET old   == sessions.time[msg.id]
         reply == Msg("restore", msg.client, msg.id, old, msg.cmd)
     IN  \E plan \in UpdatePlans(msg.id, Clamped(msg.opts), reply) : Follow(plan, msg)
  /\ SetSessions(Saved(sessions, msg.id, Clamped(msg.opts)))
  /\ UNCHANGED <<pending, clientData, capsKnown, nhz, sweep>>
  /\ AdapterKeeps

UpdateDistanceBased ==
  /\ Begin("update")
  /\ msg.id \in DistIds \ TimeIds /\ msg.opts.distance
  /\ Request(<<StopDist(msg.id, Msg("distRestart", msg.client, msg.id, Clamped(msg.opts), msg.cmd))>>)
  /\ UNCHANGED <<pending, clientData, sessionVars, modeVars, sweep, historyVars>>
  /\ AdapterKeeps

\* Mutant: the session is not erased.
StopTimeBased_keep ==
  /\ Receive("stop")
  /\ msg.id \in TimeIds
  /\ \E plan \in StopPlans(msg.client, msg.id, msg.cmd) : Follow(plan, msg)
  /\ UNCHANGED <<pending, clientData, sessionVars, capsKnown, nhz, sweep>>
  /\ AdapterKeeps

StopTimeBased ==
  /\ Receive("stop")
  /\ msg.id \in TimeIds
  /\ \E plan \in StopPlans(msg.client, msg.id, msg.cmd) : Follow(plan, msg)
  /\ SetSessions(Erased(sessions, msg.id))
  /\ UNCHANGED <<pending, clientData, capsKnown, nhz, sweep>>
  /\ AdapterKeeps

StopDistanceBased ==
  /\ Receive("stop")
  /\ msg.id \in DistIds \ TimeIds
  /\ Request(<<StopDist(msg.id, Msg("distStopped", msg.client, msg.id, NoOptions, msg.cmd))>>)
  /\ UNCHANGED <<pending, clientData, sessionVars, modeVars, sweep, historyVars>>
  /\ AdapterKeeps

-----------------------------------------------------------------------------
(* The adapter thread: handlers that loop over sessions.  Each iteration   *)
(* posts a request the LocApi thread may serve before the next iteration,  *)
(* so an iteration is a step and sweep holds what is left to visit.        *)

OwnedBy(c, S) == {i \in S : owner[i] = c}

\* removeClientCommand: stopClientSessions ...
BeginRemove ==
  /\ Receive("remove")
  /\ sweep' = [k |-> "remove", client |-> msg.client, left |-> OwnedBy(msg.client, DistIds)]
  /\ UNCHANGED <<pending, clientData, sessionVars, modeVars, apiQ, historyVars>>
  /\ AdapterKeeps

SweepTimeBased ==
  /\ sweep.k = "remove"
  /\ \E id \in Ids :
       /\ First(id, OwnedBy(sweep.client, TimeIds))
       /\ \E plan \in StopPlans(sweep.client, id, "remove") :
            /\ Request(plan.calls)
            /\ spe' = plan.spe
            /\ IF plan.answer = "sent"
               THEN Report(Msg("stop", sweep.client, id, NoOptions, "remove"), TRUE)
               ELSE UNCHANGED historyVars
       /\ SetSessions(Erased(sessions, id))
  /\ UNCHANGED <<msgQ, pending, clientData, capsKnown, nhz, sweep>>
  /\ AdapterKeeps

SweepDistanceBased ==
  /\ sweep.k = "remove"
  /\ OwnedBy(sweep.client, TimeIds) = {}
  /\ \E id \in Ids :
       /\ First(id, sweep.left)
       /\ Request(<<StopDist(id, Msg("distSwept", sweep.client, id, NoOptions, "remove"))>>)
       /\ sweep' = [sweep EXCEPT !.left = @ \ {id}]
  /\ UNCHANGED <<msgQ, pending, clientData, sessionVars, modeVars, historyVars>>
  /\ AdapterKeeps

\* Mutant: forgets the client before its time based sessions are stopped.
EraseClient_early ==
  /\ sweep.k = "remove"
  /\ sweep.left = {}
  /\ clientData' = [clientData EXCEPT ![sweep.client] = "absent"]
  /\ sweep' = Idling
  /\ UNCHANGED <<msgQ, pending, sessionVars, modeVars, apiQ, historyVars>>
  /\ AdapterKeeps

\* ... then eraseClient and the remove-complete callback
EraseClient ==
  /\ sweep.k = "remove"
  /\ OwnedBy(sweep.client, TimeIds) = {} /\ sweep.left = {}
  /\ clientData' = [clientData EXCEPT ![sweep.client] = "absent"]
  /\ sweep' = Idling
  /\ UNCHANGED <<msgQ, pending, sessionVars, modeVars, apiQ, historyVars>>
  /\ AdapterKeeps

\* restartSessions and checkAndRestartSPESession after the calls in first
Restart(k, need, first) ==
  /\ \E plan \in RestartPlans(need) :
       /\ Request(first \o plan.calls)
       /\ spe' = plan.spe
  /\ sweep' = [k |-> k, client |-> NoClient, left |-> DistIds]

\* handleEngineUpEvent
EngineUp ==
  /\ Receive("engineUp")
  /\ capsKnown' = TRUE
  /\ Restart("engineUp", nhz, << >>)
  /\ UNCHANGED <<pending, clientData, sessionVars, nhz, historyVars>>
  /\ AdapterKeeps

\* suspendSessions, the configuration call, restartSessions
ApplyConfig ==
  /\ Receive("config")
  /\ Restart("restart", nhz, IF TimeIds = {} THEN << >> ELSE <<Call("stopFix", NoOptions, Ignore)>>)
  /\ UNCHANGED <<pending, clientData, sessionVars, capsKnown, nhz, historyVars>>
  /\ AdapterKeeps

\* updateNHzRequirementCb, on the adapter thread that the engine hub shares:
\* the flag is set before the restart, which reads it
NHzRequirement ==
  /\ sweep = Idling
  /\ Spend("nhz")
  /\ nhz' = ~nhz
  /\ Restart("restart", ~nhz, << >>)
  /\ UNCHANGED <<clientVars, msgQ, pending, clientData, sessionVars, capsKnown, engineVars,
                 historyVars>>

RestartDistanceBased ==
  /\ sweep.k \in {"restart", "engineUp"}
  /\ \E id \in sweep.left :
       /\ Request(<<StartDist(id, Ignore)>>)
       /\ sweep' = [sweep EXCEPT !.left = @ \ {id}]
  /\ UNCHANGED <<msgQ, pending, clientData, sessionVars, modeVars, historyVars>>
  /\ AdapterKeeps

\* Mutant: the postponed messages are dropped.
EndRestart_forgets ==
  /\ sweep.k \in {"restart", "engineUp"}
  /\ sweep.left = {}
  /\ sweep' = Idling
  /\ pending' = IF sweep.k = "engineUp" THEN << >> ELSE pending
  /\ UNCHANGED <<msgQ, clientData, sessionVars, modeVars, apiQ, historyVars>>
  /\ AdapterKeeps

\* handleEngineUpEvent ends by posting the postponed messages again
EndRestart ==
  /\ sweep.k \in {"restart", "engineUp"}
  /\ sweep.left = {}
  /\ sweep' = Idling
  /\ IF sweep.k = "engineUp"
     THEN msgQ' = msgQ \o pending /\ pending' = << >>
     ELSE UNCHANGED <<msgQ, pending>>
  /\ UNCHANGED <<clientData, sessionVars, modeVars, apiQ, historyVars>>
  /\ AdapterKeeps

-----------------------------------------------------------------------------
(* The adapter thread: bodies of the LocApiResponse lambdas *)

ReplyReport ==
  /\ Receive("report")
  /\ Report(msg, msg.ok)
  /\ UNCHANGED <<pending, clientData, sessionVars, modeVars, sweep, apiQ>>
  /\ AdapterKeeps

\* a refused start takes its session out again
ReplyStarted ==
  /\ Receive("started")
  /\ SetSessions(IF msg.ok THEN sessions ELSE Erased(sessions, msg.id))
  /\ Report(msg, msg.ok)
  /\ UNCHANGED <<pending, clientData, modeVars, sweep, apiQ>>
  /\ AdapterKeeps

\* restore the old LocationOptions
ReplyRestore ==
  /\ Receive("restore")
  /\ SetSessions(IF msg.ok THEN sessions ELSE Saved(sessions, msg.id, msg.opts))
  /\ Report(msg, msg.ok)
  /\ UNCHANGED <<pending, clientData, modeVars, sweep, apiQ>>
  /\ AdapterKeeps

ReplyDistanceStopped ==
  /\ Receive("distStopped")
  /\ SetSessions(IF msg.ok THEN Erased(sessions, msg.id) ELSE sessions)
  /\ Report(msg, msg.ok)
  /\ UNCHANGED <<pending, clientData, modeVars, sweep, apiQ>>
  /\ AdapterKeeps

ReplyDistanceSwept ==
  /\ Receive("distSwept")
  /\ SetSessions(IF msg.ok THEN Erased(sessions, msg.id) ELSE sessions)
  /\ UNCHANGED <<pending, clientData, modeVars, sweep, apiQ, historyVars>>
  /\ AdapterKeeps

\* whatever the engine said, the session goes on as a time based one
ReplySwitchToTime ==
  /\ Receive("switchToTime")
  /\ \E plan \in StartPlans(msg.opts, Msg("started", msg.client, msg.id, NoOptions, msg.cmd)) :
       Follow(plan, msg)
  /\ SetSessions(Saved(sessions, msg.id, msg.opts))
  /\ UNCHANGED <<pending, clientData, capsKnown, nhz, sweep>>
  /\ AdapterKeeps

\* Mutant: the stop is taken for the whole update.
ReplyDistanceRestart_stopOnly ==
  /\ Receive("distRestart")
  /\ Report(msg, msg.ok)
  /\ UNCHANGED <<pending, clientData, sessionVars, modeVars, sweep, apiQ>>
  /\ AdapterKeeps

\* a refused stop ends the update here, unanswered
ReplyDistanceRestart ==
  /\ Receive("distRestart")
  /\ Request(IF msg.ok
             THEN <<StartDist(msg.id, Msg("distSave", msg.client, msg.id, msg.opts, msg.cmd))>>
             ELSE << >>)
  /\ IF msg.ok THEN UNCHANGED historyVars ELSE Silence(msg)
  /\ UNCHANGED <<pending, clientData, sessionVars, modeVars, sweep>>
  /\ AdapterKeeps

ReplyDistanceSave ==
  /\ Receive("distSave")
  /\ SetSessions(IF msg.ok THEN Saved(sessions, msg.id, msg.opts) ELSE sessions)
  /\ Report(msg, msg.ok)
  /\ UNCHANGED <<pending, clientData, modeVars, sweep, apiQ>>
  /\ AdapterKeeps

AdapterStep ==
  \/ SaveClient \/ SavePowerStateCallback \/ Postpone
  \/ StartWithoutCallbacks \/ StartDistanceBased \/ StartTimeBased
  \/ UnknownId("update") \/ TimeToDistance \/ DistanceToTime
  \/ UpdateTimeBased \/ UpdateDistanceBased
  \/ UnknownId("stop") \/ StopTimeBased \/ StopDistanceBased
  \/ BeginRemove \/ SweepTimeBased \/ SweepDistanceBased \/ EraseClient
  \/ EngineUp \/ ApplyConfig \/ RestartDistanceBased \/ EndRestart
  \/ ReplyReport \/ ReplyStarted \/ ReplyRestore \/ ReplyDistanceStopped
  \/ ReplyDistanceSwept \/ ReplySwitchToTime \/ ReplyDistanceRestart \/ ReplyDistanceSave

-----------------------------------------------------------------------------
(* The LocApi thread and the engine behind it.  The engine is a library    *)
(* outside the tree: LocApiBase only has empty defaults.  What is assumed: *)
(* a request that fails changes nothing, and none succeeds while the link  *)
(* to the modem is down.                                                   *)

EngineKeeps == UNCHANGED <<clientVars, pending, clientData, sessionVars, modeVars, sweep,
                           historyVars>>

\* LocOpenMsg at the start, LocSsrMsg after a reset: (close and) open, then
\* tell the adapters that the engine is up.
OpenLink ==
  /\ apiQ # << >> /\ Head(apiQ).op = "open"
  /\ apiQ' = Tail(apiQ)
  /\ link' = "up"
  /\ Post(Plain("engineUp"))
  /\ UNCHANGED <<engine, engineDist, budget>>
  /\ EngineKeeps

Off == [on |-> FALSE, interval |-> 0, power |-> 0]

Perform(call) ==
  /\ engine' = CASE call.op = "startTime" ->
                      [on |-> TRUE, interval |-> call.opts.interval, power |-> call.opts.power]
                 [] call.op = "stopFix" -> Off
                 [] OTHER -> engine
  /\ engineDist' = CASE call.op = "startDist" -> engineDist \cup {call.reply.id}
                     [] call.op = "stopDist" -> engineDist \ {call.reply.id}
                     [] OTHER -> engineDist

\* LocApiResponse::returnToSender
Serve(ok) ==
  /\ apiQ # << >> /\ Head(apiQ).op # "open"
  /\ ok => link = "up"
  /\ ~ok => MayFail \/ link = "down"
  /\ apiQ' = Tail(apiQ)
  /\ IF ok THEN Perform(Head(apiQ)) ELSE UNCHANGED <<engine, engineDist>>
  /\ IF Head(apiQ).reply.k = "ignore"
     THEN UNCHANGED msgQ
     ELSE Post([Head(apiQ).reply EXCEPT !.ok = ok])
  /\ UNCHANGED <<link, budget>>
  /\ EngineKeeps

\* handleEngineDownEvent: the modem restarts and forgets every session
ModemReset ==
  /\ link = "up"
  /\ Spend("resets")
  /\ link' = "down"
  /\ engine' = Off
  /\ engineDist' = {}
  /\ Request(<<Open>>)
  /\ UNCHANGED msgQ
  /\ EngineKeeps

LocApiStep == OpenLink \/ \E ok \in BOOLEAN : Serve(ok)

-----------------------------------------------------------------------------
Init ==
  /\ api = [c \in Clients |-> "new"]
  /\ owner = [i \in Ids |-> NoClient]
  /\ nextId = 1
  /\ msgQ = << >>
  /\ pending = << >>
  /\ clientData = [c \in Clients |-> "absent"]
  /\ sessions = NoSessions
  /\ powerOn = FALSE
  /\ observer = "unset"
  /\ capsKnown = FALSE
  /\ nhz = FALSE
  /\ spe = FALSE
  /\ sweep = Idling
  /\ apiQ = <<Open>>
  /\ link = "down"
  /\ engine = Off
  /\ engineDist = {}
  /\ budget = Budget
  /\ owed = [i \in Ids |-> 0]
  /\ unheard = [i \in Ids |-> 0]
  /\ stopAnswered = {}

Next == ClientStep \/ AdapterStep \/ NHzRequirement \/ LocApiStep \/ ModemReset

\* Both message threads keep serving their queues; clients, the engine hub
\* and the modem owe nothing.
Fairness == WF_vars(AdapterStep) /\ WF_vars(LocApiStep)

Spec == Init /\ [][Next]_vars /\ Fairness

-----------------------------------------------------------------------------
(* Properties *)

TypeOK ==
  /\ api \in [Clients -> {"new", "live", "gone"}]
  /\ owner \in [Ids -> Clients \cup {NoClient}]
  /\ nextId \in 1 .. MaxSessions + 1
  /\ msgQ \in Seq(Messages)
  /\ pending \in Seq(Messages)
  /\ clientData \in [Clients -> {"absent", "tracking", "other"}]
  /\ sessions \in [time : [Ids -> Options \cup {NoOptions}],
                   dist : [Ids -> Options \cup {NoOptions}]]
  /\ powerOn \in BOOLEAN
  /\ observer \in {"unset", "on", "off"}
  /\ capsKnown \in BOOLEAN
  /\ nhz \in BOOLEAN
  /\ spe \in BOOLEAN
  /\ sweep \in Sweeps
  /\ apiQ \in Seq(ApiCalls)
  /\ link \in {"up", "down"}
  /\ engine \in [on : BOOLEAN, interval : Nat, power : Nat]
  /\ engineDist \in SUBSET Ids
  /\ budget \in Budgets
  /\ owed \in [Ids -> Int]
  /\ unheard \in [Ids -> Nat]
  /\ stopAnswered \in SUBSET Ids

\* mPowerOn says whether any session exists, and whoever registered for power
\* state changes was last told exactly that, in whatever order answers,
\* removals and restarts come.
PowerMatchesSessions ==
  /\ powerOn = PowerAfter(sessions)
  /\ observer # "unset" => observer = Told(powerOn)

\* Nothing distance based is saved, or asked of the engine, before the
\* engine's capabilities are known (the reason for mPendingMsgs).
NoDistanceBeforeCapabilities ==
  ~capsKnown => /\ DistIds = {}
                /\ \A n \in DOMAIN apiQ : apiQ[n].op \notin {"startDist", "stopDist"}

\* A client that stays never gets more answers for a session than it gave
\* commands (one that leaves may: the sweep of its sessions can report too).
AnswersMatchCommands ==
  \A id \in Ids : owed[id] < 0 => \E c \in Clients : owner[id] = c /\ api[c] = "gone"

\* Every command of a client that stays is answered in the end, those set aside
\* until the engine's capabilities are known included, but for a start without
\* tracking callbacks and a distance based update whose stop the engine refuses,
\* which the code ends without an answer.
CommandsAnswered ==
  \A id \in Ids :
    owed[id] > unheard[id] ~>
      (owed[id] = unheard[id] \/ \E c \in Clients : owner[id] = c /\ api[c] = "gone")

\* The system at rest: nothing queued, no handler half way, engine reachable.
AtRest == msgQ = << >> /\ apiQ = << >> /\ sweep = Idling /\ link = "up"

\* At rest, when sessions exist, the engine runs and at least as often as the
\* most demanding session asked.
SessionsAreServed ==
  AtRest /\ TimeIds # {} =>
    /\ engine.on
    /\ \A i \in TimeIds : engine.interval <= sessions.time[i].interval

\* The modem has not been reset: a reset refuses what it finds in apiQ.
NeverReset == budget.resets = Budget.resets

\* restartSessions starts every saved distance session, those included whose
\* stop is still on its way.
NeverRestarted == budget.configs = Budget.configs /\ budget.nhz = Budget.nhz

\* At rest, when no time based session is left, the engine is off.
EngineOffWhenIdle == AtRest /\ NeverReset /\ TimeIds = {} => ~engine.on

\* A session is time based or distance based, never both.
OneKindPerSession == TimeIds \cap DistIds = {}

\* No session is of both kinds at any moment, also while it is switched, and at
\* rest the engine runs every distance session of the adapter, and, as long as
\* no restart overtook a stop, none besides.
EngineServesDistance ==
  /\ OneKindPerSession
  /\ AtRest /\ NeverReset => /\ DistIds \subseteq engineDist
                             /\ NeverRestarted => engineDist = DistIds

\* ... and in a power mode at least as high as every session asked.
EnginePowerServesSessions ==
  AtRest => \A i \in TimeIds : engine.power <= sessions.time[i].power

\* A session whose stop was answered, with success or because there is none of
\* that id, does not come (back).
StoppedStaysStopped ==
  NeverReset => \A id \in stopAnswered : id \notin TimeIds \cup DistIds

\* A client that was destroyed leaves no session behind once all is settled.
RemovedLeavesNothing ==
  AtRest /\ NeverReset =>
    \A id \in TimeIds \cup DistIds : clientData[owner[id]] # "absent"

=============================================================================
