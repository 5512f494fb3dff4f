------------------------ MODULE GnssTracking_proof ------------------------
(***************************************************************************)
(* Proofs about the tracking core, for any set of clients, any number of   *)
(* sessions and any bounds.                                                *)
(***************************************************************************)
EXTENDS GnssTracking, FiniteSetTheorems, SequenceTheorems, TLAPS

USE ConstantsAssumption

-----------------------------------------------------------------------------
(* Types of the building blocks *)

\* Plans whose calls are all in C.
PlansOf(C) == [calls : Seq(C), spe : BOOLEAN, answer : {"now", "sent", "later"}]
Plans      == PlansOf(ApiCalls)

\* C holds every start of the engine that answers with reply.
Starts(C, reply) == \A o \in Options : Call("startTime", o, reply) \in C

\* What Msg builds is a message when its kind has what it needs.
LEMMA MsgType ==
  ASSUME NEW k \in CommandKinds \cup ReplyKinds, NEW c \in Clients \cup {NoClient},
         NEW id \in Ids \cup {0}, NEW o \in Options \cup {NoOptions}, NEW cmd \in Cmds,
         k \in ClientKinds => c \in Clients,
         k \in SessionKinds => id \in Ids,
         k \in OptionsKinds => o \in Options
  PROVE  /\ Msg(k, c, id, o, cmd) \in Messages
         /\ Msg(k, c, id, o, cmd).k = k
         /\ Msg(k, c, id, o, cmd).id = id
BY DEF Msg, Messages

\* The reply nobody listens to is a message of no session.
LEMMA IgnoreType == Ignore \in Messages /\ Ignore.k = "ignore"
BY DEF Ignore, Msg, Messages, CommandKinds, ReplyKinds, ClientKinds, SessionKinds,
       OptionsKinds, Cmds

\* The replies of the session requests are messages.
LEMMA ReplyType ==
  ASSUME NEW c \in Clients, NEW id \in Ids, NEW cmd \in Cmds,
         NEW k \in ReplyKinds \ (OptionsKinds \cup {"ignore"})
  PROVE  Msg(k, c, id, NoOptions, cmd) \in Messages /\ Msg(k, c, id, NoOptions, cmd).k = k
BY DEF Msg, Messages, ReplyKinds, SessionKinds, ClientKinds

LEMMA ReplyWithOptionsType ==
  ASSUME NEW c \in Clients, NEW id \in Ids, NEW o \in Options, NEW cmd \in Cmds,
         NEW k \in ReplyKinds \ {"ignore"}
  PROVE  Msg(k, c, id, o, cmd) \in Messages /\ Msg(k, c, id, o, cmd).k = k
BY DEF Msg, Messages, ReplyKinds, SessionKinds, ClientKinds

LEMMA StartsType ==
  ASSUME NEW reply \in Messages, reply.k \in ReplyKinds
  PROVE  Starts(ApiCalls, reply)
BY DEF Starts, Call, ApiCalls, Ops

\* Run makes at most one call, a start of the engine.
LEMMA RunType ==
  ASSUME NEW need \in BOOLEAN, NEW flag \in BOOLEAN, NEW o \in Options,
         NEW reply, NEW C, Starts(C, reply)
  PROVE  Run(need, flag, o, reply) \in PlansOf(C)
<1> DEFINE raise == need /\ ~flag /\ o.interval > MinInterval
           o2    == [o EXCEPT !.interval = IF raise THEN MinInterval ELSE @]
           call  == Call("startTime", o2, reply)
<1>1. o2 \in Options
  BY DEF Options
<1>2. call \in C
  BY <1>1 DEF Starts
<1>3. << >> \in Seq(C) /\ <<call>> \in Seq(C)
  BY <1>2
<1> QED
  BY <1>3 DEF Run, PlansOf

\* Raising the interval to the minimum gives options again.
LEMMA ClampedType ==
  ASSUME NEW o \in Options
  PROVE  Clamped(o) \in Options /\ Clamped(o).distance = o.distance
BY DEF Clamped, Options

\* A saved session has options.
LEMMA SessionType ==
  ASSUME TypeOK
  PROVE  /\ TimeIds \subseteq Ids /\ DistIds \subseteq Ids
         /\ \A i \in TimeIds : sessions.time[i] \in Options
         /\ \A i \in DistIds : sessions.dist[i] \in Options
BY DEF TypeOK, TimeIds, DistIds, In

\* The multiplexed power mode is that of some session.
LEMMA PowersType ==
  ASSUME TypeOK, NEW S, S \subseteq TimeIds
  PROVE  MuxPowers(S) \subseteq Nat /\ RestartPowers(S) \subseteq Nat
BY SessionType DEF MuxPowers, RestartPowers, Options

\* The multiplexed options are options.
LEMMA JoinedType ==
  ASSUME TypeOK, NEW i \in TimeIds, NEW o \in Options, NEW p \in Nat
  PROVE  Joined(o, i, p) \in Options
BY SessionType DEF Joined, Options

LEMMA WithPowerType ==
  ASSUME TypeOK, NEW i \in TimeIds, NEW p \in Nat
  PROVE  WithPower(i, p) \in Options
BY SessionType DEF WithPower, Options

LEMMA IdleType ==
  ASSUME TypeOK, NEW C
  PROVE  Idle \in PlansOf(C)
BY DEF Idle, NoCall, PlansOf, TypeOK

LEMMA JoinPlansType ==
  ASSUME TypeOK, NEW S, S \subseteq TimeIds, NEW o \in Options,
         NEW reply, NEW C, Starts(C, reply)
  PROVE  JoinPlans(S, o, reply) \subseteq PlansOf(C)
<1> SUFFICES ASSUME NEW i \in Fastest(S), NEW p \in MuxPowers(S)
             PROVE  /\ Run(nhz, spe, Joined(o, i, p), reply) \in PlansOf(C)
                    /\ Idle \in PlansOf(C)
  BY DEF JoinPlans
<1>1. i \in TimeIds /\ p \in Nat
  BY PowersType DEF Fastest
<1>2. Joined(o, i, p) \in Options
  BY <1>1, JoinedType
<1> QED
  BY <1>2, RunType, IdleType DEF TypeOK

LEMMA StartPlansType ==
  ASSUME TypeOK, NEW o \in Options, NEW reply, NEW C, Starts(C, reply)
  PROVE  StartPlans(o, reply) \subseteq PlansOf(C)
BY JoinPlansType, RunType DEF StartPlans, TypeOK

LEMMA UpdatePlansType ==
  ASSUME TypeOK, NEW id \in TimeIds, NEW o \in Options,
         NEW reply, NEW C, Starts(C, reply)
  PROVE  UpdatePlans(id, o, reply) \subseteq PlansOf(C)
<1>1. JoinPlans(TimeIds \ {id}, o, reply) \subseteq PlansOf(C)
  BY JoinPlansType
<1>2. Run(nhz, spe, o, reply) \in PlansOf(C)
  BY RunType DEF TypeOK
<1> QED
  BY <1>1, <1>2, IdleType DEF UpdatePlans

LEMMA StopPlansType ==
  ASSUME TypeOK, NEW c \in Clients, NEW id \in TimeIds, NEW cmd \in Cmds, NEW C,
         Call("stopFix", NoOptions, Msg("report", c, id, NoOptions, cmd)) \in C,
         Starts(C, Msg("started", c, id, NoOptions, cmd))
  PROVE  StopPlans(c, id, cmd) \subseteq PlansOf(C)
<1> DEFINE others == TimeIds \ {id}
<1>1. StopEngine(c, id, cmd) \in PlansOf(C)
  BY DEF StopEngine, PlansOf
<1>2. ASSUME NEW i \in Fastest(others), NEW p \in MuxPowers(others)
      PROVE  RunOthers(c, id, cmd, i, p) \in PlansOf(C)
  <2>1. i \in TimeIds /\ p \in Nat
    BY PowersType DEF Fastest
  <2>2. WithPower(i, p) \in Options
    BY <2>1, WithPowerType
  <2> QED
    BY <2>2, RunType, IdleType DEF RunOthers, TypeOK
<1>3. CASE others = {}
  BY <1>1, <1>3 DEF StopPlans
<1>4. CASE others # {}
  BY <1>2, <1>4 DEF StopPlans
<1> QED
  BY <1>3, <1>4

LEMMA RestartPlansType ==
  ASSUME TypeOK, NEW need \in BOOLEAN, NEW C, Starts(C, Ignore)
  PROVE  RestartPlans(need) \subseteq PlansOf(C)
<1>1. NoRestart \in PlansOf(C)
  BY DEF NoRestart, NoCall, PlansOf
<1>2. ASSUME NEW i \in Fastest(TimeIds), NEW p \in RestartPowers(TimeIds)
      PROVE  RunAgain(need, i, p) \in PlansOf(C)
  <2>1. i \in TimeIds /\ p \in Nat
    BY PowersType DEF Fastest
  <2>2. WithPower(i, p) \in Options
    BY <2>1, WithPowerType
  <2> QED
    BY <2>2, RunType DEF RunAgain
<1>3. CASE TimeIds = {}
  BY <1>1, <1>3 DEF RestartPlans
<1>4. CASE TimeIds # {}
  BY <1>2, <1>4 DEF RestartPlans
<1> QED
  BY <1>3, <1>4

\* With well formed replies every plan makes well formed calls.
LEMMA StopPlansPlans ==
  ASSUME TypeOK, NEW c \in Clients, NEW id \in TimeIds, NEW cmd \in Cmds
  PROVE  StopPlans(c, id, cmd) \subseteq Plans
<1> DEFINE report  == Msg("report", c, id, NoOptions, cmd)
           started == Msg("started", c, id, NoOptions, cmd)
<1>1. id \in Ids
  BY SessionType
<1>2. report \in Messages /\ report.k = "report" /\ started \in Messages /\ started.k = "started"
  BY <1>1, ReplyType DEF ReplyKinds, OptionsKinds
<1> HIDE DEF report, started
<1>3. Call("stopFix", NoOptions, report) \in ApiCalls /\ Starts(ApiCalls, started)
  BY <1>2, StartsType DEF Call, ApiCalls, Ops, ReplyKinds
<1> USE DEF report, started
<1> QED
  BY <1>3, StopPlansType DEF Plans

-----------------------------------------------------------------------------
(* Types of the building blocks of the actions *)

SessionMaps == [time : [Ids -> Options \cup {NoOptions}],
                dist : [Ids -> Options \cup {NoOptions}]]

LEMMA SavedType ==
  ASSUME NEW s \in SessionMaps, NEW id \in Ids, NEW o \in Options
  PROVE  Saved(s, id, o) \in SessionMaps
BY DEF Saved, SessionMaps

LEMMA ErasedType ==
  ASSUME NEW s \in SessionMaps, NEW id \in Ids
  PROVE  Erased(s, id) \in SessionMaps
BY DEF Erased, SessionMaps

\* The part of the type invariant that SetSessions is about.
SessionsOK == /\ sessions \in SessionMaps
              /\ powerOn \in BOOLEAN
              /\ observer \in {"unset", "on", "off"}

LEMMA SetSessionsType ==
  ASSUME SessionsOK, NEW s \in SessionMaps, SetSessions(s)
  PROVE  SessionsOK'
BY DEF SessionsOK, SetSessions, PowerAfter, Told

\* The head of the queue is a message of the kind that was received.
LEMMA ReceiveType ==
  ASSUME TypeOK, NEW k, Receive(k)
  PROVE  msg \in Messages /\ msg.k = k /\ msgQ' \in Seq(Messages)
BY HeadTailProperties DEF TypeOK, Receive, msg

\* What a message of a kind carries.
LEMMA MessageFields ==
  ASSUME NEW m \in Messages
  PROVE  /\ m.k \in ClientKinds => m.client \in Clients
         /\ m.k \in SessionKinds => m.id \in Ids
         /\ m.k \in OptionsKinds => m.opts \in Options
         /\ m.cmd \in Cmds /\ m.ok \in BOOLEAN
BY DEF Messages

\* The part of the type invariant that Report is about.
HistoryOK == owed \in [Ids -> Int] /\ unheard \in [Ids -> Nat] /\ stopAnswered \in SUBSET Ids

LEMMA ReportType ==
  ASSUME HistoryOK, NEW m, m.id \in Ids, NEW ok \in BOOLEAN, Report(m, ok)
  PROVE  HistoryOK'
BY DEF HistoryOK, Report, historyVars

LEMMA SilenceType ==
  ASSUME HistoryOK, NEW m, m.id \in Ids, Silence(m)
  PROVE  HistoryOK' /\ UNCHANGED <<owed, stopAnswered>>
BY DEF HistoryOK, Silence

LEMMA RequestType ==
  ASSUME apiQ \in Seq(ApiCalls), NEW s \in Seq(ApiCalls), Request(s)
  PROVE  apiQ' \in Seq(ApiCalls)
BY ConcatProperties DEF Request

LEMMA FollowType ==
  ASSUME TypeOK, NEW plan \in Plans, NEW m, m.id \in Ids, Follow(plan, m)
  PROVE  apiQ' \in Seq(ApiCalls) /\ spe' \in BOOLEAN /\ HistoryOK'
<1>1. HistoryOK
  BY DEF TypeOK, HistoryOK
<1>2. HistoryOK'
  BY <1>1, ReportType DEF Follow, HistoryOK, historyVars
<1>3. plan.calls \in Seq(ApiCalls) /\ plan.spe \in BOOLEAN
  BY DEF Plans, PlansOf
<1> QED
  BY <1>2, <1>3, RequestType DEF Follow, TypeOK

\* Requests about a distance based session.
LEMMA DistCallType ==
  ASSUME NEW id \in Ids, NEW reply \in Messages, reply.k \in ReplyKinds
  PROVE  /\ StartDist(id, reply) \in ApiCalls /\ <<StartDist(id, reply)>> \in Seq(ApiCalls)
         /\ StopDist(id, reply) \in ApiCalls /\ <<StopDist(id, reply)>> \in Seq(ApiCalls)
<1> DEFINE r == [reply EXCEPT !.id = id]
<1>1. r \in Messages /\ r.k \in ReplyKinds /\ r.id \in Ids
  BY DEF Messages
<1>2. Call("startDist", NoOptions, r) \in ApiCalls /\ Call("stopDist", NoOptions, r) \in ApiCalls
  BY <1>1 DEF Call, ApiCalls, Ops
<1> QED
  BY <1>2 DEF StartDist, StopDist

LEMMA RestartType ==
  ASSUME TypeOK, NEW k \in {"restart", "engineUp"}, NEW need \in BOOLEAN,
         NEW first \in Seq(ApiCalls), Restart(k, need, first)
  PROVE  apiQ' \in Seq(ApiCalls) /\ spe' \in BOOLEAN /\ sweep' \in Sweeps
<1>1. PICK plan \in RestartPlans(need) : Request(first \o plan.calls) /\ spe' = plan.spe
  BY DEF Restart
<1>2. plan \in Plans
  BY <1>1, RestartPlansType, StartsType, IgnoreType DEF Plans, ReplyKinds
<1>3. first \o plan.calls \in Seq(ApiCalls) /\ plan.spe \in BOOLEAN
  BY <1>2, ConcatProperties DEF Plans, PlansOf
<1>4. apiQ' \in Seq(ApiCalls)
  BY <1>1, <1>3, RequestType DEF TypeOK
<1> QED
  BY <1>1, <1>3, <1>4, SessionType DEF Restart, Sweeps

LEMMA SpendType ==
  ASSUME TypeOK, NEW what \in Limits, Spend(what)
  PROVE  budget' \in Budgets
BY DEF TypeOK, Budgets, Spend

-----------------------------------------------------------------------------
(* Type correctness: one step per action *)

\* A command posts one well formed message and leaves the rest alone.
LEMMA PostType ==
  ASSUME TypeOK, NEW m \in Messages, PostCommand(m)
  PROVE  /\ msgQ' \in Seq(Messages)
         /\ UNCHANGED <<pending, clientData, sessionVars, modeVars, sweep, apiQ, engineVars>>
BY AppendProperties DEF TypeOK, PostCommand, Post

LEMMA TypeClient ==
  ASSUME TypeOK, ClientStep
  PROVE  TypeOK'
<1> USE DEF TypeOK, sessionVars, modeVars, engineVars
<1>1. ASSUME NEW c \in Clients, NEW cb \in TrackingCbs, AddClient(c, cb) \/ UpdateCallbacks(c, cb)
      PROVE  TypeOK'
  <2> DEFINE m == [Msg("add", c, 0, NoOptions, "none") EXCEPT !.ok = cb]
  <2>1. m \in Messages
    BY DEF Msg, Messages, CommandKinds, SessionKinds, ReplyKinds, OptionsKinds, Cmds
  <2>2. CASE AddClient(c, cb)
    BY <2>1, <2>2, PostType DEF AddClient, historyVars
  <2>3. CASE UpdateCallbacks(c, cb)
    BY <2>1, <2>3, PostType, SpendType DEF UpdateCallbacks, clientVars, historyVars, Limits
  <2> QED
    BY <1>1, <2>2, <2>3
<1>2. ASSUME NEW c \in Clients, RemoveClient(c)
      PROVE  TypeOK'
  <2>1. Msg("remove", c, 0, NoOptions, "none") \in Messages
    BY MsgType DEF CommandKinds, SessionKinds, ReplyKinds, OptionsKinds, Cmds
  <2> QED
    BY <1>2, <2>1, PostType DEF RemoveClient, historyVars
<1>3. ASSUME NEW c \in Clients, NEW o \in Requests, StartTracking(c, o)
      PROVE  TypeOK'
  <2>1. nextId \in Ids /\ nextId + 1 \in 1 .. MaxSessions + 1
    BY <1>3 DEF StartTracking, Ids
  <2>2. Msg("start", c, nextId, o, "start") \in Messages
    BY <2>1, MsgType DEF CommandKinds, Cmds
  <2>3. budget' \in Budgets
    BY <1>3, SpendType DEF StartTracking, Limits
  <2>4. /\ msgQ' \in Seq(Messages)
        /\ UNCHANGED <<api, unheard, stopAnswered, pending, clientData, sessionVars, modeVars, sweep, apiQ,
                       engineVars>>
    BY <1>3, <2>2, PostType DEF StartTracking
  <2>5. /\ nextId' \in 1 .. MaxSessions + 1
        /\ owner' \in [Ids -> Clients \cup {NoClient}]
        /\ owed' \in [Ids -> Int]
    BY <1>3, <2>1 DEF StartTracking
  <2> QED
    BY <2>3, <2>4, <2>5
<1>4. ASSUME NEW c \in Clients, NEW id \in Ids, NEW o \in Requests, UpdateTrackingOptions(c, id, o)
      PROVE  TypeOK'
  <2>1. Msg("update", c, id, o, "update") \in Messages
    BY MsgType DEF CommandKinds, Cmds
  <2>2. budget' \in Budgets
    BY <1>4, SpendType DEF UpdateTrackingOptions, Limits
  <2> QED
    BY <1>4, <2>1, <2>2, PostType DEF UpdateTrackingOptions, clientVars
<1>5. ASSUME NEW c \in Clients, NEW id \in Ids, StopTracking(c, id)
      PROVE  TypeOK'
  <2>1. Msg("stop", c, id, NoOptions, "stop") \in Messages
    BY MsgType DEF CommandKinds, Cmds, OptionsKinds
  <2>2. budget' \in Budgets
    BY <1>5, SpendType DEF StopTracking, Limits
  <2> QED
    BY <1>5, <2>1, <2>2, PostType DEF StopTracking, clientVars
<1>6. CASE ObservePower \/ ChangeConfig
  <2>1. Plain("observe") \in Messages /\ Plain("config") \in Messages
    BY DEF Plain, Msg, Messages, CommandKinds, ClientKinds, SessionKinds, ReplyKinds,
           OptionsKinds, Cmds
  <2>2. budget' \in Budgets
    BY <1>6, SpendType DEF ObservePower, ChangeConfig, Limits
  <2> QED
    BY <1>6, <2>1, <2>2, PostType DEF ObservePower, ChangeConfig, clientVars, historyVars
<1> QED
  BY <1>1, <1>2, <1>3, <1>4, <1>5, <1>6 DEF ClientStep

\* The invariant by the parts the building blocks are about.
RestOK ==
  /\ api \in [Clients -> {"new", "live", "gone"}]
  /\ owner \in [Ids -> Clients \cup {NoClient}]
  /\ nextId \in 1 .. MaxSessions + 1
  /\ msgQ \in Seq(Messages)
  /\ pending \in Seq(Messages)
  /\ clientData \in [Clients -> {"absent", "tracking", "other"}]
  /\ capsKnown \in BOOLEAN
  /\ nhz \in BOOLEAN
  /\ spe \in BOOLEAN
  /\ sweep \in Sweeps
  /\ apiQ \in Seq(ApiCalls)
  /\ link \in {"up", "down"}
  /\ engine \in [on : BOOLEAN, interval : Nat, power : Nat]
  /\ engineDist \in SUBSET Ids
  /\ budget \in Budgets

LEMMA TypeParts == TypeOK <=> RestOK /\ SessionsOK /\ HistoryOK
BY DEF TypeOK, RestOK, SessionsOK, SessionMaps, HistoryOK

LEMMA TypePartsPrime == TypeOK' <=> RestOK' /\ SessionsOK' /\ HistoryOK'
BY DEF TypeOK, RestOK, SessionsOK, SessionMaps, HistoryOK

LEMMA TypeSimple ==
  ASSUME TypeOK,
         SaveClient \/ SavePowerStateCallback \/ Postpone \/ StartWithoutCallbacks
  PROVE  TypeOK'
<1> USE DEF TypeOK, AdapterKeeps, clientVars, sessionVars, modeVars, engineVars, historyVars
<1>1. CASE SaveClient
  <2>1. msg \in Messages /\ msg.k = "add" /\ msgQ' \in Seq(Messages)
    BY <1>1, ReceiveType DEF SaveClient
  <2> QED
    BY <1>1, <2>1, MessageFields DEF SaveClient
<1>2. CASE SavePowerStateCallback
  <2>1. msgQ' \in Seq(Messages)
    BY <1>2, ReceiveType DEF SavePowerStateCallback
  <2> QED
    BY <1>2, <2>1 DEF SavePowerStateCallback, Told
<1>3. CASE Postpone
  <2>1. msg \in Messages /\ msgQ' \in Seq(Messages)
    BY <1>3, ReceiveType DEF Postpone
  <2> QED
    BY <1>3, <2>1, AppendProperties DEF Postpone
<1>4. CASE StartWithoutCallbacks
  <2>1. msg \in Messages /\ msg.k = "start" /\ msgQ' \in Seq(Messages)
    BY <1>4, ReceiveType DEF StartWithoutCallbacks, Begin
  <2>2. msg.id \in Ids
    BY <2>1, MessageFields DEF SessionKinds
  <2>3. HistoryOK'
    BY <1>4, <2>2, SilenceType DEF StartWithoutCallbacks, HistoryOK
  <2> QED
    BY <1>4, <2>1, <2>3 DEF StartWithoutCallbacks, HistoryOK
<1> QED
  BY <1>1, <1>2, <1>3, <1>4

\* A handler that only reports.
LEMMA TypeReport ==
  ASSUME TypeOK, UnknownId("update") \/ UnknownId("stop") \/ ReplyReport
  PROVE  TypeOK'
<1>1. \E k \in {"update", "stop", "report"} : Receive(k)
  BY DEF UnknownId, ReplyReport, Begin
<1>2. msg \in Messages /\ msg.k \in {"update", "stop", "report"} /\ msgQ' \in Seq(Messages)
  BY <1>1, ReceiveType
<1>3. msg.id \in Ids /\ msg.ok \in BOOLEAN
  BY <1>2, MessageFields DEF SessionKinds, ReplyKinds
<1>4. Report(msg, FALSE) \/ Report(msg, msg.ok)
  BY DEF UnknownId, ReplyReport
<1>5. HistoryOK'
  BY <1>3, <1>4, ReportType, TypeParts
<1> QED
  BY <1>2, <1>5, TypeParts, TypePartsPrime
  DEF UnknownId, ReplyReport, AdapterKeeps, RestOK, SessionsOK, clientVars, sessionVars,
      modeVars, engineVars

\* A handler that makes a plan, saves or erases sessions, and may report.
LEMMA TypePlan ==
  ASSUME TypeOK,
         StartTimeBased \/ TimeToDistance \/ UpdateTimeBased \/ StopTimeBased
           \/ ReplySwitchToTime
  PROVE  TypeOK'
<1>1. msg \in Messages /\ msgQ' \in Seq(Messages)
      /\ msg.k \in {"start", "update", "stop", "switchToTime"}
  BY ReceiveType
  DEF StartTimeBased, TimeToDistance, UpdateTimeBased, StopTimeBased, ReplySwitchToTime, Begin
<1>2. msg.id \in Ids /\ msg.client \in Clients /\ msg.cmd \in Cmds
      /\ (msg.k # "stop" => msg.opts \in Options /\ Clamped(msg.opts) \in Options)
  BY <1>1, MessageFields, ClampedType DEF SessionKinds, ReplyKinds, ClientKinds, OptionsKinds
<1>3. sessions \in SessionMaps
  BY TypeParts DEF SessionsOK
<1> DEFINE started == Msg("started", msg.client, msg.id, NoOptions, msg.cmd)
<1>4. started \in Messages /\ started.k \in ReplyKinds
  BY <1>2, ReplyType DEF ReplyKinds, OptionsKinds
<1>5. /\ \E plan \in Plans : Follow(plan, msg)
      /\ \E s \in SessionMaps : SetSessions(s)
  <2>1. CASE StartTimeBased
    <3>1. msg.k = "start"
      BY <2>1, ReceiveType DEF StartTimeBased, Begin
    <3>2. StartPlans(Clamped(msg.opts), started) \subseteq Plans
      BY <1>2, <1>4, <3>1, StartPlansType, StartsType DEF Plans
    <3>3. Saved(sessions, msg.id, Clamped(msg.opts)) \in SessionMaps
      BY <1>2, <1>3, <3>1, SavedType
    <3> QED
      BY <2>1, <3>2, <3>3 DEF StartTimeBased
  <2>2. CASE TimeToDistance
    <3>1. msg.k = "update" /\ msg.id \in TimeIds
      BY <2>2, ReceiveType DEF TimeToDistance, Begin
    <3>2. StartDist(msg.id, Ignore) \in ApiCalls
      BY <1>2, DistCallType, IgnoreType DEF ReplyKinds
    <3>3. PICK plan \in StopPlans(msg.client, msg.id, msg.cmd) :
            Follow([plan EXCEPT !.calls = Append(@, StartDist(msg.id, Ignore))], msg)
      BY <2>2 DEF TimeToDistance
    <3>4. plan \in Plans
      BY <1>2, <3>1, <3>3, StopPlansPlans
    <3>5. [plan EXCEPT !.calls = Append(@, StartDist(msg.id, Ignore))] \in Plans
      BY <3>2, <3>4, AppendProperties DEF Plans, PlansOf
    <3>6. Saved(Erased(sessions, msg.id), msg.id, Clamped(msg.opts)) \in SessionMaps
      BY <1>2, <1>3, <3>1, SavedType, ErasedType
    <3> QED
      BY <2>2, <3>3, <3>5, <3>6 DEF TimeToDistance
  <2>3. CASE UpdateTimeBased
    <3> DEFINE reply == Msg("restore", msg.client, msg.id, sessions.time[msg.id], msg.cmd)
    <3>1. msg.k = "update" /\ msg.id \in TimeIds
      BY <2>3, ReceiveType DEF UpdateTimeBased, Begin
    <3>2. reply \in Messages /\ reply.k \in ReplyKinds
      BY <1>2, <3>1, SessionType, ReplyWithOptionsType DEF ReplyKinds
    <3>3. UpdatePlans(msg.id, Clamped(msg.opts), reply) \subseteq Plans
      BY <1>2, <3>1, <3>2, UpdatePlansType, StartsType DEF Plans
    <3>4. Saved(sessions, msg.id, Clamped(msg.opts)) \in SessionMaps
      BY <1>2, <1>3, <3>1, SavedType
    <3> QED
      BY <2>3, <3>3, <3>4 DEF UpdateTimeBased
  <2>4. CASE StopTimeBased
    <3>1. msg.id \in TimeIds
      BY <2>4 DEF StopTimeBased
    <3>2. StopPlans(msg.client, msg.id, msg.cmd) \subseteq Plans
      BY <1>2, <3>1, StopPlansPlans
    <3>3. Erased(sessions, msg.id) \in SessionMaps
      BY <1>2, <1>3, ErasedType
    <3> QED
      BY <2>4, <3>2, <3>3 DEF StopTimeBased
  <2>5. CASE ReplySwitchToTime
    <3>1. msg.k = "switchToTime"
      BY <2>5, ReceiveType DEF ReplySwitchToTime
    <3>2. StartPlans(msg.opts, started) \subseteq Plans
      BY <1>2, <1>4, <3>1, StartPlansType, StartsType DEF Plans
    <3>3. Saved(sessions, msg.id, msg.opts) \in SessionMaps
      BY <1>2, <1>3, <3>1, SavedType
    <3> QED
      BY <2>5, <3>2, <3>3 DEF ReplySwitchToTime
  <2> QED
    BY <2>1, <2>2, <2>3, <2>4, <2>5
<1>6. apiQ' \in Seq(ApiCalls) /\ spe' \in BOOLEAN /\ HistoryOK'
  BY <1>2, <1>5, FollowType
<1>7. SessionsOK'
  BY <1>5, SetSessionsType, TypeParts
<1> QED
  BY <1>1, <1>6, <1>7, TypeParts, TypePartsPrime
  DEF StartTimeBased, TimeToDistance, UpdateTimeBased, StopTimeBased, ReplySwitchToTime,
      AdapterKeeps, RestOK, clientVars, engineVars

\* A handler that asks for a distance based session, without an answer yet.
LEMMA TypeDistance ==
  ASSUME TypeOK,
         StartDistanceBased \/ DistanceToTime \/ UpdateDistanceBased \/ StopDistanceBased
           \/ ReplyDistanceRestart
  PROVE  TypeOK'
<1>1. /\ msg \in Messages /\ msgQ' \in Seq(Messages)
      /\ msg.k \in {"start", "update", "stop", "distRestart"}
      /\ StopDistanceBased \/ msg.k # "stop"
  BY ReceiveType
  DEF StartDistanceBased, DistanceToTime, UpdateDistanceBased, StopDistanceBased,
      ReplyDistanceRestart, Begin
<1>2. /\ msg.id \in Ids /\ msg.client \in Clients /\ msg.cmd \in Cmds
      /\ msg.k # "stop" => msg.opts \in Options /\ Clamped(msg.opts) \in Options
  BY <1>1, MessageFields, ClampedType DEF SessionKinds, ReplyKinds, ClientKinds, OptionsKinds
<1>3. sessions \in SessionMaps /\ apiQ \in Seq(ApiCalls) /\ SessionsOK
  BY TypeParts DEF SessionsOK, RestOK
<1>4. /\ apiQ' \in Seq(ApiCalls)
      /\ SessionsOK'
  <2>1. CASE StartDistanceBased
    <3> DEFINE reply == Msg("started", msg.client, msg.id, NoOptions, msg.cmd)
    <3>1. msg.k = "start"
      BY <2>1, ReceiveType DEF StartDistanceBased, Begin
    <3>2. reply \in Messages /\ reply.k \in ReplyKinds
      BY <1>2, ReplyType DEF ReplyKinds, OptionsKinds
    <3>3. <<StartDist(msg.id, reply)>> \in Seq(ApiCalls)
      BY <1>2, <3>2, DistCallType
    <3>4. Saved(sessions, msg.id, Clamped(msg.opts)) \in SessionMaps
      BY <1>2, <1>3, <3>1, SavedType
    <3> QED
      BY <2>1, <1>3, <3>3, <3>4, RequestType, SetSessionsType DEF StartDistanceBased
  <2>2. CASE DistanceToTime
    <3> DEFINE reply == Msg("switchToTime", msg.client, msg.id, Clamped(msg.opts), msg.cmd)
    <3>1. msg.k = "update"
      BY <2>2, ReceiveType DEF DistanceToTime, Begin
    <3>2. reply \in Messages /\ reply.k \in ReplyKinds
      BY <1>2, <3>1, ReplyWithOptionsType DEF ReplyKinds
    <3>3. <<StopDist(msg.id, reply)>> \in Seq(ApiCalls)
      BY <1>2, <3>2, DistCallType
    <3>4. Erased(sessions, msg.id) \in SessionMaps
      BY <1>2, <1>3, ErasedType
    <3> QED
      BY <2>2, <1>3, <3>3, <3>4, RequestType, SetSessionsType DEF DistanceToTime
  <2>3. CASE UpdateDistanceBased
    <3> DEFINE reply == Msg("distRestart", msg.client, msg.id, Clamped(msg.opts), msg.cmd)
    <3>1. msg.k = "update"
      BY <2>3, ReceiveType DEF UpdateDistanceBased, Begin
    <3>2. reply \in Messages /\ reply.k \in ReplyKinds
      BY <1>2, <3>1, ReplyWithOptionsType DEF ReplyKinds
    <3>3. <<StopDist(msg.id, reply)>> \in Seq(ApiCalls)
      BY <1>2, <3>2, DistCallType
    <3> QED
      BY <2>3, <1>3, <3>3, RequestType DEF UpdateDistanceBased, SessionsOK, sessionVars
  <2>4. CASE StopDistanceBased
    <3> DEFINE reply == Msg("distStopped", msg.client, msg.id, NoOptions, msg.cmd)
    <3>1. reply \in Messages /\ reply.k \in ReplyKinds
      BY <1>2, ReplyType DEF ReplyKinds, OptionsKinds
    <3>2. <<StopDist(msg.id, reply)>> \in Seq(ApiCalls)
      BY <1>2, <3>1, DistCallType
    <3> QED
      BY <2>4, <1>3, <3>2, RequestType DEF StopDistanceBased, SessionsOK, sessionVars
  <2>5. CASE ReplyDistanceRestart
    <3> DEFINE reply == Msg("distSave", msg.client, msg.id, msg.opts, msg.cmd)
    <3>1. msg.k = "distRestart"
      BY <2>5, ReceiveType DEF ReplyDistanceRestart
    <3>2. reply \in Messages /\ reply.k \in ReplyKinds
      BY <1>2, <3>1, ReplyWithOptionsType DEF ReplyKinds
    <3>3. <<StartDist(msg.id, reply)>> \in Seq(ApiCalls) /\ << >> \in Seq(ApiCalls)
      BY <1>2, <3>2, DistCallType
    <3> QED
      BY <2>5, <1>3, <3>3, RequestType DEF ReplyDistanceRestart, SessionsOK, sessionVars
  <2> QED
    BY <2>1, <2>2, <2>3, <2>4, <2>5
<1>5. HistoryOK'
  <2>1. UNCHANGED historyVars \/ Silence(msg)
    BY DEF StartDistanceBased, DistanceToTime, UpdateDistanceBased, StopDistanceBased, ReplyDistanceRestart
  <2> QED
    BY <1>2, <2>1, TypeParts, SilenceType DEF HistoryOK, historyVars
<1> QED
  BY <1>1, <1>4, <1>5, TypeParts, TypePartsPrime
  DEF StartDistanceBased, DistanceToTime, UpdateDistanceBased, StopDistanceBased,
      ReplyDistanceRestart, AdapterKeeps, RestOK, clientVars, modeVars, engineVars

\* A reply that saves or erases a session and may report.
LEMMA TypeReply ==
  ASSUME TypeOK,
         ReplyStarted \/ ReplyRestore \/ ReplyDistanceStopped \/ ReplyDistanceSwept
           \/ ReplyDistanceSave
  PROVE  TypeOK'
<1>1. /\ msg \in Messages /\ msgQ' \in Seq(Messages)
      /\ msg.k \in {"started", "restore", "distStopped", "distSwept", "distSave"}
      /\ ReplyRestore \/ ReplyDistanceSave => msg.k \in OptionsKinds
  BY ReceiveType
  DEF ReplyStarted, ReplyRestore, ReplyDistanceStopped, ReplyDistanceSwept,
      ReplyDistanceSave, OptionsKinds
<1>2. /\ msg.id \in Ids /\ msg.ok \in BOOLEAN
      /\ msg.k \in OptionsKinds => msg.opts \in Options
  BY <1>1, MessageFields DEF SessionKinds, ReplyKinds
<1>3. sessions \in SessionMaps /\ SessionsOK /\ HistoryOK
  BY TypeParts DEF SessionsOK
<1>4. /\ Erased(sessions, msg.id) \in SessionMaps
      /\ msg.k \in OptionsKinds => Saved(sessions, msg.id, msg.opts) \in SessionMaps
  BY <1>2, <1>3, ErasedType, SavedType
<1>5. \E s \in SessionMaps : SetSessions(s)
  BY <1>1, <1>3, <1>4
  DEF ReplyStarted, ReplyRestore, ReplyDistanceStopped, ReplyDistanceSwept, ReplyDistanceSave
<1>6. SessionsOK'
  BY <1>3, <1>5, SetSessionsType
<1>7. Report(msg, msg.ok) \/ UNCHANGED historyVars
  BY DEF ReplyStarted, ReplyRestore, ReplyDistanceStopped, ReplyDistanceSwept,
         ReplyDistanceSave
<1>8. HistoryOK'
  BY <1>2, <1>3, <1>7, ReportType DEF HistoryOK, historyVars
<1> QED
  BY <1>1, <1>6, <1>8, TypeParts, TypePartsPrime
  DEF ReplyStarted, ReplyRestore, ReplyDistanceStopped, ReplyDistanceSwept,
      ReplyDistanceSave, AdapterKeeps, RestOK, clientVars, modeVars, engineVars

\* The handlers that loop over sessions.
LEMMA TypeSweep ==
  ASSUME TypeOK, BeginRemove \/ SweepTimeBased \/ SweepDistanceBased \/ EraseClient
  PROVE  TypeOK'
<1> USE DEF AdapterKeeps, clientVars, sessionVars, modeVars, engineVars, historyVars
<1>1. CASE BeginRemove
  <2>1. msg \in Messages /\ msg.k = "remove" /\ msgQ' \in Seq(Messages)
    BY <1>1, ReceiveType DEF BeginRemove
  <2>2. msg.client \in Clients
    BY <2>1, MessageFields DEF ClientKinds
  <2>3. sweep' \in Sweeps
    BY <1>1, <2>2, SessionType DEF BeginRemove, Sweeps, OwnedBy
  <2> QED
    BY <1>1, <2>1, <2>3 DEF BeginRemove, TypeOK
<1>2. CASE SweepTimeBased
  <2>1. sweep.client \in Clients
    BY <1>2 DEF SweepTimeBased, TypeOK, Sweeps
  <2>2. PICK id \in Ids :
          /\ First(id, OwnedBy(sweep.client, TimeIds))
          /\ \E plan \in StopPlans(sweep.client, id, "remove") :
               /\ Request(plan.calls)
               /\ spe' = plan.spe
               /\ IF plan.answer = "sent"
                  THEN Report(Msg("stop", sweep.client, id, NoOptions, "remove"), TRUE)
                  ELSE UNCHANGED historyVars
          /\ SetSessions(Erased(sessions, id))
    BY <1>2, Zenon DEF SweepTimeBased
  <2>3. id \in TimeIds
    BY <2>2 DEF First, OwnedBy
  <2>4. PICK plan \in StopPlans(sweep.client, id, "remove") :
               /\ Request(plan.calls)
               /\ spe' = plan.spe
               /\ IF plan.answer = "sent"
                  THEN Report(Msg("stop", sweep.client, id, NoOptions, "remove"), TRUE)
                  ELSE UNCHANGED historyVars
    BY <2>2, Zenon
  <2>5. plan.calls \in Seq(ApiCalls) /\ plan.spe \in BOOLEAN
    BY <2>1, <2>3, <2>4, StopPlansPlans DEF Plans, PlansOf, Cmds
  <2>6. apiQ' \in Seq(ApiCalls)
    BY <2>4, <2>5, RequestType DEF TypeOK
  <2>7. HistoryOK'
    BY <2>4, ReportType, TypeParts DEF Msg, HistoryOK
  <2>8. SessionsOK'
    BY <2>2, ErasedType, SetSessionsType, TypeParts DEF SessionsOK
  <2> QED
    BY <1>2, <2>4, <2>5, <2>6, <2>7, <2>8, TypeParts, TypePartsPrime DEF SweepTimeBased, RestOK
<1>3. CASE SweepDistanceBased
  <2>1. sweep.client \in Clients /\ sweep.k = "remove" /\ sweep.left \subseteq Ids
    BY <1>3 DEF SweepDistanceBased, TypeOK, Sweeps
  <2>2. PICK id \in Ids :
          /\ Request(<<StopDist(id, Msg("distSwept", sweep.client, id, NoOptions, "remove"))>>)
          /\ sweep' = [sweep EXCEPT !.left = @ \ {id}]
    BY <1>3 DEF SweepDistanceBased
  <2>3. /\ Msg("distSwept", sweep.client, id, NoOptions, "remove") \in Messages
        /\ Msg("distSwept", sweep.client, id, NoOptions, "remove").k \in ReplyKinds
    BY <2>1, ReplyType DEF ReplyKinds, OptionsKinds, Cmds
  <2>4. apiQ' \in Seq(ApiCalls)
    BY <2>2, <2>3, DistCallType, RequestType DEF TypeOK
  <2>5. sweep' \in Sweeps
    BY <2>1, <2>2 DEF TypeOK, Sweeps
  <2> QED
    BY <1>3, <2>4, <2>5 DEF SweepDistanceBased, TypeOK
<1>4. CASE EraseClient
  BY <1>4 DEF EraseClient, TypeOK, Sweeps, Idling
<1> QED
  BY <1>1, <1>2, <1>3, <1>4

LEMMA TypeRestart ==
  ASSUME TypeOK, EngineUp \/ ApplyConfig \/ NHzRequirement \/ RestartDistanceBased \/ EndRestart
  PROVE  TypeOK'
<1> USE DEF AdapterKeeps, clientVars, sessionVars, modeVars, engineVars, historyVars
<1>1. CASE EngineUp
  <2>1. msgQ' \in Seq(Messages)
    BY <1>1, ReceiveType DEF EngineUp
  <2>2. nhz \in BOOLEAN /\ << >> \in Seq(ApiCalls)
    BY DEF TypeOK
  <2>3. apiQ' \in Seq(ApiCalls) /\ spe' \in BOOLEAN /\ sweep' \in Sweeps
    BY <1>1, <2>2, RestartType DEF EngineUp
  <2> QED
    BY <1>1, <2>1, <2>3 DEF EngineUp, TypeOK
<1>2. CASE ApplyConfig
  <2> DEFINE first == IF TimeIds = {} THEN << >> ELSE <<Call("stopFix", NoOptions, Ignore)>>
  <2>1. msgQ' \in Seq(Messages)
    BY <1>2, ReceiveType DEF ApplyConfig
  <2>2. Call("stopFix", NoOptions, Ignore) \in ApiCalls
    BY IgnoreType DEF Call, ApiCalls, Ops, ReplyKinds
  <2>3. first \in Seq(ApiCalls)
    BY <2>2
  <2>4. apiQ' \in Seq(ApiCalls) /\ spe' \in BOOLEAN /\ sweep' \in Sweeps
    BY <1>2, <2>3, RestartType DEF ApplyConfig, TypeOK
  <2> QED
    BY <1>2, <2>1, <2>4 DEF ApplyConfig, TypeOK
<1>3. CASE NHzRequirement
  <2>0. nhz \in BOOLEAN /\ (~nhz) \in BOOLEAN /\ << >> \in Seq(ApiCalls)
    BY DEF TypeOK
  <2>1. apiQ' \in Seq(ApiCalls) /\ spe' \in BOOLEAN /\ sweep' \in Sweeps
    BY <1>3, <2>0, RestartType DEF NHzRequirement
  <2>2. budget' \in Budgets
    BY <1>3, SpendType DEF NHzRequirement, Limits
  <2> QED
    BY <1>3, <2>1, <2>2 DEF NHzRequirement, TypeOK
<1>4. CASE RestartDistanceBased
  <2>1. sweep.left \subseteq Ids
    BY DEF TypeOK, Sweeps
  <2>2. PICK id \in sweep.left :
          /\ Request(<<StartDist(id, Ignore)>>)
          /\ sweep' = [sweep EXCEPT !.left = @ \ {id}]
    BY <1>4 DEF RestartDistanceBased
  <2>3. apiQ' \in Seq(ApiCalls)
    BY <2>1, <2>2, DistCallType, IgnoreType, RequestType DEF TypeOK, ReplyKinds
  <2>4. sweep' \in Sweeps
    BY <2>1, <2>2 DEF TypeOK, Sweeps
  <2> QED
    BY <1>4, <2>3, <2>4 DEF RestartDistanceBased, TypeOK
<1>5. CASE EndRestart
  <2>1. sweep' \in Sweeps
    BY <1>5 DEF EndRestart, Idling, Sweeps
  <2>2. msgQ' \in Seq(Messages) /\ pending' \in Seq(Messages)
    <3>1. msgQ \in Seq(Messages) /\ pending \in Seq(Messages) /\ << >> \in Seq(Messages)
      BY DEF TypeOK
    <3>2. msgQ \o pending \in Seq(Messages)
      BY <3>1, ConcatProperties
    <3> QED
      BY <1>5, <3>1, <3>2 DEF EndRestart
  <2> QED
    BY <1>5, <2>1, <2>2 DEF EndRestart, TypeOK
<1> QED
  BY <1>1, <1>2, <1>3, <1>4, <1>5

LEMMA TypeAdapter ==
  ASSUME TypeOK, AdapterStep
  PROVE  TypeOK'
BY TypeSimple, TypeReport, TypePlan, TypeDistance, TypeReply, TypeSweep, TypeRestart
DEF AdapterStep

LEMMA TypeLocApi ==
  ASSUME TypeOK, LocApiStep \/ ModemReset
  PROVE  TypeOK'
<1> USE DEF TypeOK, EngineKeeps, clientVars, sessionVars, modeVars, historyVars
<1>1. /\ Ignore \in Messages /\ Plain("engineUp") \in Messages
      /\ Off \in [on : BOOLEAN, interval : Nat, power : Nat]
  BY IgnoreType
  DEF Plain, Msg, Messages, CommandKinds, ClientKinds, SessionKinds, ReplyKinds,
      OptionsKinds, Cmds, Off
<1>2. CASE OpenLink
  <2>1. apiQ' \in Seq(ApiCalls) /\ msgQ' \in Seq(Messages)
    BY <1>1, <1>2, HeadTailProperties, AppendProperties DEF OpenLink, Post
  <2> QED
    BY <1>2, <2>1 DEF OpenLink
<1>3. ASSUME NEW ok \in BOOLEAN, Serve(ok)
      PROVE  TypeOK'
  <2> DEFINE call == Head(apiQ)
  <2>1. call \in ApiCalls /\ apiQ' \in Seq(ApiCalls)
    BY <1>3, HeadTailProperties DEF Serve
  <2>2. [call.reply EXCEPT !.ok = ok] \in Messages
    BY <2>1 DEF ApiCalls, Messages
  <2>3. msgQ' \in Seq(Messages)
    <3>1. msgQ' = msgQ \/ msgQ' = Append(msgQ, [call.reply EXCEPT !.ok = ok])
      BY <1>3 DEF Serve, Post
    <3>2. msgQ \in Seq(Messages)
      OBVIOUS
    <3> HIDE DEF call
    <3>3. Append(msgQ, [call.reply EXCEPT !.ok = ok]) \in Seq(Messages)
      BY <2>2, <3>2, AppendProperties
    <3> QED
      BY <3>1, <3>2, <3>3
  <2>4. /\ engine' \in [on : BOOLEAN, interval : Nat, power : Nat]
        /\ engineDist' \in SUBSET Ids
    <3>1. CASE UNCHANGED <<engine, engineDist>>
      BY <3>1
    <3>2. CASE Perform(call)
      <4>1. /\ call.op = "startTime" => call.opts.interval \in Nat /\ call.opts.power \in Nat
            /\ call.op \in {"startDist", "stopDist"} => call.reply.id \in Ids
        BY <2>1 DEF ApiCalls, Options
      <4> HIDE DEF call
      <4> QED
        BY <1>1, <3>2, <4>1 DEF Perform
    <3> QED
      BY <1>3, <3>1, <3>2 DEF Serve
  <2> QED
    BY <1>3, <2>1, <2>3, <2>4 DEF Serve
<1>4. CASE ModemReset
  <2>1. Open \in ApiCalls
    BY <1>1, IgnoreType DEF Open, Call, ApiCalls, Ops, ReplyKinds
  <2>2. apiQ' \in Seq(ApiCalls)
    <3>1. apiQ \in Seq(ApiCalls) /\ <<Open>> \in Seq(ApiCalls)
      BY <2>1
    <3> QED
      BY <1>4, <3>1, RequestType DEF ModemReset
  <2>3. budget' \in Budgets
    BY <1>4, SpendType DEF ModemReset, Limits
  <2> QED
    BY <1>1, <1>4, <2>2, <2>3 DEF ModemReset
<1> QED
  BY <1>2, <1>3, <1>4 DEF LocApiStep

LEMMA TypeInit == Init => TypeOK
<1> SUFFICES ASSUME Init PROVE TypeOK
  OBVIOUS
<1>1. Open \in ApiCalls
  BY IgnoreType DEF Open, Call, ApiCalls, Ops, ReplyKinds
<1>2. apiQ \in Seq(ApiCalls)
  BY <1>1 DEF Init
<1>3. sessions \in SessionMaps /\ sweep \in Sweeps
  BY DEF Init, NoSessions, SessionMaps, Sweeps, Idling
<1>4. engine \in [on : BOOLEAN, interval : Nat, power : Nat] /\ budget \in Budgets
  BY DEF Init, Off
<1>5. /\ nextId \in 1 .. MaxSessions + 1
      /\ msgQ \in Seq(Messages) /\ pending \in Seq(Messages)
      /\ owed \in [Ids -> Int]
  BY DEF Init
<1> QED
  BY <1>2, <1>3, <1>4, <1>5 DEF Init, TypeOK, SessionMaps

LEMMA TypeNext == TypeOK /\ [Next]_vars => TypeOK'
<1> SUFFICES ASSUME TypeOK, [Next]_vars PROVE TypeOK'
  OBVIOUS
<1>1. CASE UNCHANGED vars
  BY <1>1 DEF TypeOK, vars, clientVars, sessionVars, modeVars, engineVars, historyVars
<1> QED
  BY <1>1, TypeClient, TypeAdapter, TypeRestart, TypeLocApi DEF Next

\* Every variable keeps the type the code's declarations give it; messages
\* and requests carry what their kind needs: the handlers never use a client,
\* an id or options that were not captured.
THEOREM TypeCorrect == Spec => []TypeOK
BY TypeInit, TypeNext, PTL DEF Spec

-----------------------------------------------------------------------------
(* The power state follows the sessions *)

\* Sessions change only together with the power state and its callback.
LEMMA SessionsChange ==
  ASSUME Next
  PROVE  \/ \E s : SetSessions(s)
         \/ UNCHANGED sessionVars
         \/ UNCHANGED <<sessions, powerOn>> /\ observer' = Told(powerOn)
<1>1. ASSUME ClientStep PROVE UNCHANGED sessionVars
  BY <1>1
  DEF ClientStep, AddClient, UpdateCallbacks, RemoveClient, StartTracking,
      UpdateTrackingOptions, StopTracking, ObservePower, ChangeConfig, PostCommand
<1>2. ASSUME AdapterStep
      PROVE  \/ \E s : SetSessions(s)
             \/ UNCHANGED sessionVars
             \/ UNCHANGED <<sessions, powerOn>> /\ observer' = Told(powerOn)
  <2>1. ASSUME \/ StartDistanceBased \/ StartTimeBased \/ TimeToDistance \/ DistanceToTime
               \/ UpdateTimeBased \/ StopTimeBased \/ SweepTimeBased \/ ReplySwitchToTime
               \/ ReplyStarted \/ ReplyRestore \/ ReplyDistanceStopped \/ ReplyDistanceSwept
               \/ ReplyDistanceSave
        PROVE  \E s : SetSessions(s)
    BY <2>1
    DEF StartDistanceBased, StartTimeBased, TimeToDistance, DistanceToTime, UpdateTimeBased,
        StopTimeBased, SweepTimeBased, ReplySwitchToTime, ReplyStarted, ReplyRestore,
        ReplyDistanceStopped, ReplyDistanceSwept, ReplyDistanceSave
  <2>2. ASSUME SavePowerStateCallback
        PROVE  UNCHANGED <<sessions, powerOn>> /\ observer' = Told(powerOn)
    BY <2>2 DEF SavePowerStateCallback
  <2>3. ASSUME \/ SaveClient \/ Postpone \/ StartWithoutCallbacks
               \/ UnknownId("update") \/ UnknownId("stop") \/ UpdateDistanceBased
               \/ StopDistanceBased \/ BeginRemove \/ SweepDistanceBased \/ EraseClient
               \/ EngineUp \/ ApplyConfig \/ RestartDistanceBased \/ EndRestart
               \/ ReplyReport \/ ReplyDistanceRestart
        PROVE  UNCHANGED sessionVars
    BY <2>3
    DEF SaveClient, Postpone, StartWithoutCallbacks, UnknownId, UpdateDistanceBased,
        StopDistanceBased, BeginRemove, SweepDistanceBased, EraseClient, EngineUp,
        ApplyConfig, RestartDistanceBased, EndRestart, ReplyReport, ReplyDistanceRestart
  <2> QED
    BY <1>2, <2>1, <2>2, <2>3 DEF AdapterStep
<1>3. ASSUME NHzRequirement \/ LocApiStep \/ ModemReset PROVE UNCHANGED sessionVars
  BY <1>3 DEF NHzRequirement, LocApiStep, OpenLink, Serve, ModemReset, EngineKeeps
<1> QED
  BY <1>1, <1>2, <1>3 DEF Next

LEMMA NoSessionsEmpty == In(NoSessions.time) = {} /\ In(NoSessions.dist) = {}
<1>1. \A i \in Ids : NoSessions.time[i] = NoOptions /\ NoSessions.dist[i] = NoOptions
  BY DEF NoSessions
<1> QED
  BY <1>1 DEF In

\* mPowerOn and the callback's last value follow the session maps in every
\* reachable state, whatever the order of commands, answers and restarts.
THEOREM PowerFollowsSessions == Spec => []PowerMatchesSessions
<1>1. Init => PowerMatchesSessions
  BY NoSessionsEmpty DEF Init, PowerMatchesSessions, PowerAfter
<1>2. TypeOK /\ PowerMatchesSessions /\ [Next]_vars => PowerMatchesSessions'
  <2> SUFFICES ASSUME TypeOK, PowerMatchesSessions, [Next]_vars
               PROVE  PowerMatchesSessions'
    OBVIOUS
  <2>1. observer \in {"unset", "on", "off"} /\ powerOn \in BOOLEAN
    BY DEF TypeOK
  <2>2. CASE \E s : SetSessions(s)
    BY <2>1, <2>2 DEF SetSessions, PowerMatchesSessions, PowerAfter, Told
  <2>3. CASE UNCHANGED sessionVars
    BY <2>3 DEF PowerMatchesSessions, PowerAfter, sessionVars
  <2>4. CASE UNCHANGED <<sessions, powerOn>> /\ observer' = Told(powerOn)
    BY <2>4 DEF PowerMatchesSessions, PowerAfter
  <2>5. CASE UNCHANGED vars
    BY <2>3, <2>5 DEF vars, sessionVars
  <2> QED
    BY <2>2, <2>3, <2>4, <2>5, SessionsChange
<1> QED
  BY <1>1, <1>2, TypeCorrect, PTL DEF Spec
-----------------------------------------------------------------------------
(* Capabilities: before the engine has reported them the adapter does      *)
(* nothing distance based.                                                 *)
(*                                                                         *)
(* The property is not inductive: a distance based session could also come *)
(* from an answer on its way (switchToTime, distRestart, distSave and      *)
(* restore save sessions), from a request still queued whose answer would, *)
(* or from a restart half way through.  Calm excludes all of these.        *)

\* The answers to requests about distance based sessions.
DistanceReplies == {"distStopped", "distSwept", "switchToTime", "distRestart", "distSave"}

\* Messages that cannot bring about a distance based session.
SafeMessages == {m \in Messages : /\ m.k \notin DistanceReplies
                                  /\ m.k = "restore" => ~m.opts.distance}
SafeCalls == {c \in ApiCalls : /\ c.op \notin {"startDist", "stopDist"}
                               /\ c.reply \in SafeMessages}

NoDistance(s) == In(s.dist) = {} /\ \A i \in In(s.time) : ~s.time[i].distance

Calm == /\ NoDistance(sessions)
        /\ sweep.left = {}
        /\ msgQ \in Seq(SafeMessages)
        /\ apiQ \in Seq(SafeCalls)

\* The inductive invariant.
Quiet == /\ sweep.k = "engineUp" => capsKnown
         /\ ~capsKnown => Calm

-----------------------------------------------------------------------------
(* Lemmas *)

LEMMA SavedNoDistance ==
  ASSUME NEW s \in SessionMaps, NoDistance(s), NEW id \in Ids, NEW o \in Options, ~o.distance
  PROVE  NoDistance(Saved(s, id, o))
BY DEF NoDistance, Saved, SessionMaps, In

LEMMA ErasedNoDistance ==
  ASSUME NEW s \in SessionMaps, NoDistance(s), NEW id \in Ids
  PROVE  NoDistance(Erased(s, id))
BY DEF NoDistance, Erased, SessionMaps, In

LEMMA CalmSessions ==
  ASSUME TypeOK, Calm
  PROVE  /\ sessions \in SessionMaps /\ NoDistance(sessions)
         /\ DistIds = {} /\ \A i \in TimeIds : ~sessions.time[i].distance
BY TypeParts DEF Calm, SessionsOK, NoDistance, DistIds, TimeIds

LEMMA SafeReceive ==
  ASSUME Calm, NEW k, Receive(k)
  PROVE  /\ msg \in SafeMessages /\ msg \in Messages /\ msg.k = k
         /\ msgQ' \in Seq(SafeMessages)
BY HeadTailProperties DEF Calm, Receive, msg, SafeMessages, DistanceReplies

LEMMA SafeRequest ==
  ASSUME Calm, NEW s \in Seq(SafeCalls), Request(s)
  PROVE  apiQ' \in Seq(SafeCalls)
BY ConcatProperties DEF Calm, Request

\* A start of the engine is safe when its answer is.
LEMMA SafeStarts ==
  ASSUME NEW reply \in SafeMessages, reply.k \in ReplyKinds
  PROVE  Starts(SafeCalls, reply)
BY DEF Starts, Call, SafeCalls, SafeMessages, DistanceReplies, ApiCalls, Ops

LEMMA SafeReply ==
  ASSUME NEW c \in Clients, NEW id \in Ids, NEW cmd \in Cmds, NEW k \in {"started", "report"}
  PROVE  /\ Msg(k, c, id, NoOptions, cmd) \in SafeMessages
         /\ Msg(k, c, id, NoOptions, cmd).k \in ReplyKinds
<1> DEFINE reply == Msg(k, c, id, NoOptions, cmd)
<1>1. reply \in Messages /\ reply.k = k
  BY ReplyType DEF ReplyKinds, OptionsKinds
<1> QED
  BY <1>1 DEF SafeMessages, DistanceReplies, ReplyKinds

LEMMA SafeIgnore == Ignore \in SafeMessages /\ Starts(SafeCalls, Ignore)
<1>1. Ignore \in SafeMessages
  BY IgnoreType DEF SafeMessages, DistanceReplies
<1> QED
  BY <1>1, SafeStarts, IgnoreType DEF ReplyKinds

\* Stopping a session makes only safe requests.
LEMMA SafeStopPlans ==
  ASSUME TypeOK, NEW c \in Clients, NEW id \in TimeIds, NEW cmd \in Cmds
  PROVE  StopPlans(c, id, cmd) \subseteq PlansOf(SafeCalls)
<1> DEFINE report  == Msg("report", c, id, NoOptions, cmd)
           started == Msg("started", c, id, NoOptions, cmd)
<1>1. id \in Ids
  BY SessionType
<1>2. report \in SafeMessages /\ report.k \in ReplyKinds
  BY <1>1, SafeReply
<1>3. started \in SafeMessages /\ started.k \in ReplyKinds
  BY <1>1, SafeReply
<1> HIDE DEF report, started
<1>4. Call("stopFix", NoOptions, report) \in SafeCalls
  BY <1>2 DEF Call, SafeCalls, SafeMessages, DistanceReplies, ApiCalls, Ops
<1>5. Starts(SafeCalls, started)
  BY <1>3, SafeStarts
<1> USE DEF report, started
<1> QED
  BY <1>4, <1>5, StopPlansType

LEMMA SafeRestart ==
  ASSUME TypeOK, Calm, NEW k, NEW need \in BOOLEAN, NEW first \in Seq(SafeCalls),
         Restart(k, need, first)
  PROVE  apiQ' \in Seq(SafeCalls) /\ sweep'.left = {} /\ sweep'.k = k
<1>1. PICK plan \in RestartPlans(need) : Request(first \o plan.calls)
  BY DEF Restart
<1>2. plan \in PlansOf(SafeCalls)
  BY <1>1, RestartPlansType, SafeIgnore
<1>3. first \o plan.calls \in Seq(SafeCalls)
  BY <1>2, ConcatProperties DEF PlansOf
<1>4. apiQ' \in Seq(SafeCalls)
  BY <1>1, <1>3, SafeRequest
<1> QED
  BY <1>4, CalmSessions DEF Restart

-----------------------------------------------------------------------------
(* Every step that leaves the capabilities unknown keeps the calm. *)

LEMMA PostSafe ==
  ASSUME TypeOK', Calm, NEW m, m.k \in CommandKinds, PostCommand(m)
  PROVE  Calm'
<1>1. msgQ \in Seq(SafeMessages) /\ msgQ' = Append(msgQ, m) /\ msgQ' \in Seq(Messages)
  BY DEF Calm, PostCommand, Post, TypeOK
<1>2. m = msgQ'[Len(msgQ) + 1] /\ Len(msgQ) + 1 \in DOMAIN msgQ'
  BY <1>1
<1>3. m \in SafeMessages
  BY <1>1, <1>2 DEF SafeMessages, DistanceReplies, CommandKinds
<1>4. msgQ' \in Seq(SafeMessages)
  BY <1>1, <1>3, AppendProperties
<1> QED
  BY <1>4 DEF Calm, PostCommand, sessionVars, NoDistance

LEMMA CalmClient ==
  ASSUME TypeOK, Calm, ClientStep
  PROVE  Calm'
<1> DEFINE Posted == \E m : m.k \in CommandKinds /\ PostCommand(m)
<1> USE DEF Msg, Plain, CommandKinds
<1>1. ASSUME NEW c \in Clients, NEW cb, AddClient(c, cb) \/ UpdateCallbacks(c, cb)
      PROVE  Posted
  <2> DEFINE m == [Msg("add", c, 0, NoOptions, "none") EXCEPT !.ok = cb]
  <2>1. m.k = "add" /\ PostCommand(m)
    BY <1>1 DEF AddClient, UpdateCallbacks
  <2> QED
    BY <2>1
<1>2. ASSUME NEW c \in Clients, RemoveClient(c) PROVE Posted
  BY <1>2 DEF RemoveClient
<1>3. ASSUME NEW c \in Clients, NEW o \in Requests, StartTracking(c, o) PROVE Posted
  BY <1>3 DEF StartTracking
<1>4. ASSUME NEW c \in Clients, NEW id \in Ids, NEW o \in Requests, UpdateTrackingOptions(c, id, o)
      PROVE  Posted
  BY <1>4 DEF UpdateTrackingOptions
<1>5. ASSUME NEW c \in Clients, NEW id \in Ids, StopTracking(c, id) PROVE Posted
  BY <1>5 DEF StopTracking
<1>6. ASSUME ObservePower \/ ChangeConfig PROVE Posted
  BY <1>6 DEF ObservePower, ChangeConfig
<1>7. Posted
  BY <1>1, <1>2, <1>3, <1>4, <1>5, <1>6 DEF ClientStep
<1>8. TypeOK'
  BY TypeClient
<1> QED
  BY <1>7, <1>8, PostSafe

\* Handlers that neither request anything nor touch a session.
LEMMA CalmSimple ==
  ASSUME TypeOK, Calm,
         \/ SaveClient \/ SavePowerStateCallback \/ Postpone \/ StartWithoutCallbacks
         \/ UnknownId("update") \/ UnknownId("stop") \/ ReplyReport
         \/ BeginRemove \/ EraseClient
  PROVE  Calm'
<1>1. msgQ' = msgQ \/ \E k : Receive(k)
  BY DEF SaveClient, SavePowerStateCallback, Postpone, StartWithoutCallbacks, UnknownId,
         ReplyReport, BeginRemove, EraseClient, Begin
<1>2. msgQ' \in Seq(SafeMessages)
  BY <1>1, SafeReceive DEF Calm
<1>3. UNCHANGED <<sessions, apiQ>>
  BY DEF SaveClient, SavePowerStateCallback, Postpone, StartWithoutCallbacks, UnknownId,
         ReplyReport, BeginRemove, EraseClient, sessionVars
<1>4. sweep'.left = {}
  <2>1. CASE BeginRemove
    BY <2>1, CalmSessions DEF BeginRemove, OwnedBy
  <2>2. CASE EraseClient
    BY <2>2 DEF EraseClient, Idling
  <2>3. CASE sweep' = sweep
    BY <2>3 DEF Calm
  <2> QED
    BY <2>1, <2>2, <2>3
    DEF SaveClient, SavePowerStateCallback, Postpone, StartWithoutCallbacks, UnknownId,
        ReplyReport
<1> QED
  BY <1>2, <1>3, <1>4 DEF Calm, NoDistance

\* Handlers that make a plan.
LEMMA CalmPlan ==
  ASSUME TypeOK, Calm,
         ~capsKnown \/ (msg.k \in {"start", "update"} => ~msg.opts.distance),
         StartTimeBased \/ UpdateTimeBased \/ StopTimeBased
  PROVE  Calm'
<1>1. /\ msg \in Messages /\ msgQ' \in Seq(SafeMessages)
      /\ msg.k \in {"start", "update", "stop"}
  BY SafeReceive DEF StartTimeBased, UpdateTimeBased, StopTimeBased, Begin
<1>2. /\ msg.id \in Ids /\ msg.client \in Clients /\ msg.cmd \in Cmds
      /\ msg.k # "stop" => msg.opts \in Options /\ Clamped(msg.opts) \in Options
                           /\ Clamped(msg.opts).distance = msg.opts.distance
  BY <1>1, MessageFields, ClampedType DEF SessionKinds, ReplyKinds, ClientKinds, OptionsKinds
<1>3. sessions \in SessionMaps /\ NoDistance(sessions)
  BY CalmSessions
<1>4. /\ \E plan \in PlansOf(SafeCalls) : Follow(plan, msg)
      /\ \E s : NoDistance(s) /\ SetSessions(s)
  <2>1. CASE StartTimeBased
    <3> DEFINE started == Msg("started", msg.client, msg.id, NoOptions, msg.cmd)
    <3>1. msg.k = "start" /\ ~msg.opts.distance
      BY <2>1, ReceiveType DEF StartTimeBased, Begin
    <3>2. Starts(SafeCalls, started)
      BY <1>2, SafeReply, SafeStarts
    <3>3. StartPlans(Clamped(msg.opts), started) \subseteq PlansOf(SafeCalls)
      BY <1>2, <3>1, <3>2, StartPlansType
    <3>4. NoDistance(Saved(sessions, msg.id, Clamped(msg.opts)))
      BY <1>2, <1>3, <3>1, SavedNoDistance
    <3> QED
      BY <2>1, <3>3, <3>4 DEF StartTimeBased
  <2>2. CASE UpdateTimeBased
    <3> DEFINE old   == sessions.time[msg.id]
               reply == Msg("restore", msg.client, msg.id, old, msg.cmd)
    <3>1. msg.k = "update" /\ msg.id \in TimeIds /\ ~msg.opts.distance
      BY <2>2, ReceiveType DEF UpdateTimeBased, Begin
    <3>2. old \in Options /\ ~old.distance
      BY <3>1, SessionType, CalmSessions
    <3>3. reply \in Messages /\ reply.k = "restore" /\ reply.opts = old
      BY <1>2, <3>2, ReplyWithOptionsType DEF ReplyKinds, Msg
    <3>4. reply \in SafeMessages /\ reply.k \in ReplyKinds
      BY <3>2, <3>3 DEF SafeMessages, DistanceReplies, ReplyKinds
    <3>5. UpdatePlans(msg.id, Clamped(msg.opts), reply) \subseteq PlansOf(SafeCalls)
      BY <1>2, <3>1, <3>4, SafeStarts, UpdatePlansType
    <3>6. NoDistance(Saved(sessions, msg.id, Clamped(msg.opts)))
      BY <1>2, <1>3, <3>1, SavedNoDistance
    <3> QED
      BY <2>2, <3>5, <3>6 DEF UpdateTimeBased
  <2>3. CASE StopTimeBased
    <3>1. msg.id \in TimeIds
      BY <2>3 DEF StopTimeBased
    <3>2. StopPlans(msg.client, msg.id, msg.cmd) \subseteq PlansOf(SafeCalls)
      BY <1>2, <3>1, SafeStopPlans
    <3>3. NoDistance(Erased(sessions, msg.id))
      BY <1>2, <1>3, ErasedNoDistance
    <3> QED
      BY <2>3, <3>2, <3>3 DEF StopTimeBased
  <2> QED
    BY <2>1, <2>2, <2>3
<1>5. apiQ' \in Seq(SafeCalls)
  BY <1>4, SafeRequest DEF Follow, PlansOf
<1>6. NoDistance(sessions)'
  BY <1>4 DEF SetSessions, NoDistance
<1>7. sweep' = sweep
  BY DEF StartTimeBased, UpdateTimeBased, StopTimeBased
<1> QED
  BY <1>1, <1>5, <1>6, <1>7 DEF Calm

\* Removing a client and restarting the time based session.
LEMMA CalmSweep ==
  ASSUME TypeOK, Calm, SweepTimeBased
  PROVE  Calm'
<1>1. sweep.client \in Clients
  BY DEF SweepTimeBased, TypeOK, Sweeps
<1>2. PICK id \in Ids :
        /\ First(id, OwnedBy(sweep.client, TimeIds))
        /\ \E plan \in StopPlans(sweep.client, id, "remove") : Request(plan.calls)
        /\ SetSessions(Erased(sessions, id))
  BY DEF SweepTimeBased
<1>3. id \in TimeIds
  BY <1>2 DEF First, OwnedBy
<1>4. PICK plan \in StopPlans(sweep.client, id, "remove") : Request(plan.calls)
  BY <1>2
<1>5. plan.calls \in Seq(SafeCalls)
  BY <1>1, <1>3, <1>4, SafeStopPlans DEF PlansOf, Cmds
<1>6. apiQ' \in Seq(SafeCalls)
  BY <1>4, <1>5, SafeRequest
<1>7. NoDistance(sessions)'
  BY <1>2, CalmSessions, ErasedNoDistance DEF SetSessions, NoDistance
<1>8. msgQ' = msgQ /\ sweep' = sweep
  BY DEF SweepTimeBased
<1> QED
  BY <1>6, <1>7, <1>8 DEF Calm

LEMMA CalmRestart ==
  ASSUME TypeOK, Calm, EngineUp \/ ApplyConfig \/ NHzRequirement
  PROVE  Calm'
<1>1. nhz \in BOOLEAN /\ (~nhz) \in BOOLEAN /\ << >> \in Seq(SafeCalls)
  BY DEF TypeOK
<1>2. Call("stopFix", NoOptions, Ignore) \in SafeCalls
  BY SafeIgnore, IgnoreType DEF Call, SafeCalls, ApiCalls, Ops, ReplyKinds
<1>3. <<Call("stopFix", NoOptions, Ignore)>> \in Seq(SafeCalls)
  BY <1>2
<1>4. apiQ' \in Seq(SafeCalls) /\ sweep'.left = {}
  BY <1>1, <1>3, SafeRestart DEF EngineUp, ApplyConfig, NHzRequirement
<1>5. msgQ' \in Seq(SafeMessages) /\ UNCHANGED sessions
  BY SafeReceive DEF EngineUp, ApplyConfig, NHzRequirement, sessionVars, Calm
<1> QED
  BY <1>4, <1>5 DEF Calm, NoDistance

\* Answers of time based requests.
LEMMA CalmReply ==
  ASSUME TypeOK, Calm, ReplyStarted \/ ReplyRestore
  PROVE  Calm'
<1>1. /\ msg \in SafeMessages /\ msg \in Messages /\ msgQ' \in Seq(SafeMessages)
      /\ msg.k \in {"started", "restore"}
      /\ ReplyRestore => msg.k = "restore"
  BY SafeReceive DEF ReplyStarted, ReplyRestore
<1>2. msg.id \in Ids /\ (msg.k = "restore" => msg.opts \in Options /\ ~msg.opts.distance)
  BY <1>1, MessageFields DEF SessionKinds, ReplyKinds, OptionsKinds, SafeMessages
<1>3. /\ NoDistance(sessions)
      /\ NoDistance(Erased(sessions, msg.id))
      /\ msg.k = "restore" => NoDistance(Saved(sessions, msg.id, msg.opts))
  BY <1>2, CalmSessions, ErasedNoDistance, SavedNoDistance
<1>4. \E s : NoDistance(s) /\ SetSessions(s)
  BY <1>1, <1>3 DEF ReplyStarted, ReplyRestore
<1>5. NoDistance(sessions)'
  BY <1>4 DEF SetSessions, NoDistance
<1>6. apiQ' = apiQ /\ sweep' = sweep
  BY DEF ReplyStarted, ReplyRestore
<1> QED
  BY <1>1, <1>5, <1>6 DEF Calm

\* What a distance based session would need cannot happen.
LEMMA CalmForbids ==
  ASSUME TypeOK, Calm, ~capsKnown \/ (msg.k \in {"start", "update"} => ~msg.opts.distance)
  PROVE  /\ ~StartDistanceBased /\ ~TimeToDistance /\ ~DistanceToTime /\ ~UpdateDistanceBased
         /\ ~StopDistanceBased /\ ~SweepDistanceBased /\ ~RestartDistanceBased
         /\ ~ReplySwitchToTime /\ ~ReplyDistanceRestart /\ ~ReplyDistanceSave
         /\ ~ReplyDistanceStopped /\ ~ReplyDistanceSwept
<1>1. ~StartDistanceBased /\ ~TimeToDistance /\ ~UpdateDistanceBased
  BY DEF StartDistanceBased, TimeToDistance, UpdateDistanceBased, Begin, Receive, msg
<1>2. ~DistanceToTime /\ ~StopDistanceBased
  BY CalmSessions DEF DistanceToTime, StopDistanceBased
<1>3. ~SweepDistanceBased /\ ~RestartDistanceBased
  BY DEF Calm, SweepDistanceBased, RestartDistanceBased, First
<1>4. /\ ~ReplySwitchToTime /\ ~ReplyDistanceRestart /\ ~ReplyDistanceSave
      /\ ~ReplyDistanceStopped /\ ~ReplyDistanceSwept
  BY SafeReceive
  DEF ReplySwitchToTime, ReplyDistanceRestart, ReplyDistanceSave, ReplyDistanceStopped,
      ReplyDistanceSwept, SafeMessages, DistanceReplies
<1> QED
  BY <1>1, <1>2, <1>3, <1>4

LEMMA CalmLocApi ==
  ASSUME TypeOK, Calm, LocApiStep \/ ModemReset
  PROVE  Calm'
<1>0. apiQ \in Seq(SafeCalls) /\ msgQ \in Seq(SafeMessages)
  BY DEF Calm
<1>1. UNCHANGED <<sessions, sweep>>
  BY DEF LocApiStep, OpenLink, Serve, ModemReset, EngineKeeps, sessionVars
<1>2. CASE OpenLink
  <2>1. Plain("engineUp") \in SafeMessages
    BY DEF Plain, Msg, SafeMessages, DistanceReplies, Messages, CommandKinds, ClientKinds,
           SessionKinds, ReplyKinds, OptionsKinds, Cmds
  <2>2. msgQ' \in Seq(SafeMessages) /\ apiQ' \in Seq(SafeCalls)
    BY <1>0, <1>2, <2>1, AppendProperties, HeadTailProperties DEF OpenLink, Post
  <2> QED
    BY <1>1, <2>2 DEF Calm, NoDistance
<1>3. ASSUME NEW ok \in BOOLEAN, Serve(ok)
      PROVE  Calm'
  <2> DEFINE call == Head(apiQ)
             m    == [call.reply EXCEPT !.ok = ok]
  <2>1. call \in SafeCalls /\ apiQ' \in Seq(SafeCalls)
    BY <1>0, <1>3, HeadTailProperties DEF Serve
  <2>2. m \in SafeMessages
    BY <2>1 DEF SafeCalls, SafeMessages, DistanceReplies, Messages
  <2>3. msgQ' = msgQ \/ msgQ' = Append(msgQ, m)
    BY <1>3 DEF Serve, Post
  <2> HIDE DEF call, m
  <2>4. msgQ' \in Seq(SafeMessages)
    BY <1>0, <2>2, <2>3, AppendProperties
  <2> QED
    BY <1>1, <2>1, <2>4 DEF Calm, NoDistance
<1>4. CASE ModemReset
  <2>1. Open \in SafeCalls
    BY SafeIgnore, IgnoreType DEF Open, Call, SafeCalls, ApiCalls, Ops, ReplyKinds
  <2>2. <<Open>> \in Seq(SafeCalls)
    BY <2>1
  <2>3. apiQ' \in Seq(SafeCalls) /\ msgQ' = msgQ
    BY <1>4, <2>2, SafeRequest DEF ModemReset
  <2> QED
    BY <1>0, <1>1, <2>3 DEF Calm, NoDistance
<1> QED
  BY <1>2, <1>3, <1>4 DEF LocApiStep

-----------------------------------------------------------------------------
(* The step and the theorem *)

LEMMA QuietInit == Init => Quiet
<1> SUFFICES ASSUME Init PROVE Quiet
  OBVIOUS
<1>1. Open \in SafeCalls
  BY SafeIgnore, IgnoreType DEF Open, Call, SafeCalls, ApiCalls, Ops, ReplyKinds
<1>2. apiQ \in Seq(SafeCalls) /\ msgQ \in Seq(SafeMessages)
  BY <1>1 DEF Init
<1>3. NoDistance(sessions)
  BY NoSessionsEmpty DEF Init, NoDistance
<1> QED
  BY <1>2, <1>3 DEF Init, Quiet, Calm, Idling

LEMMA QuietNext == TypeOK /\ Quiet /\ [Next]_vars => Quiet'
<1> SUFFICES ASSUME TypeOK, Quiet, [Next]_vars PROVE Quiet'
  OBVIOUS
<1>1. CASE UNCHANGED vars
  BY <1>1 DEF Quiet, Calm, NoDistance, vars, sessionVars, modeVars
<1>2. CASE EngineUp
  BY <1>2 DEF EngineUp, Quiet
<1>3. CASE Next /\ ~EngineUp
  <2>1. capsKnown' = capsKnown
    BY <1>3
    DEF Next, ClientStep, AddClient, UpdateCallbacks, RemoveClient, StartTracking,
        UpdateTrackingOptions, StopTracking, ObservePower, ChangeConfig, PostCommand,
        AdapterStep, SaveClient, SavePowerStateCallback, Postpone, StartWithoutCallbacks,
        StartDistanceBased, StartTimeBased, UnknownId, TimeToDistance, DistanceToTime,
        UpdateTimeBased, UpdateDistanceBased, StopTimeBased, StopDistanceBased, BeginRemove,
        SweepTimeBased, SweepDistanceBased, EraseClient, ApplyConfig, RestartDistanceBased,
        EndRestart, ReplyReport, ReplyStarted, ReplyRestore, ReplyDistanceStopped,
        ReplyDistanceSwept, ReplySwitchToTime, ReplyDistanceRestart, ReplyDistanceSave,
        NHzRequirement, LocApiStep, OpenLink, Serve, ModemReset, EngineKeeps, modeVars
  <2>2. sweep'.k = "engineUp" => sweep.k = "engineUp"
    <3>1. CASE BeginRemove \/ EraseClient \/ EndRestart
      BY <3>1 DEF BeginRemove, EraseClient, EndRestart, Idling
    <3>2. CASE ApplyConfig \/ NHzRequirement
      BY <3>2 DEF ApplyConfig, NHzRequirement, Restart
    <3>3. CASE SweepDistanceBased \/ RestartDistanceBased
      BY <3>3 DEF SweepDistanceBased, RestartDistanceBased, TypeOK, Sweeps
    <3>4. CASE sweep' = sweep
      BY <3>4
    <3> QED
      BY <1>3, <3>1, <3>2, <3>3, <3>4
      DEF Next, ClientStep, AddClient, UpdateCallbacks, RemoveClient, StartTracking,
          UpdateTrackingOptions, StopTracking, ObservePower, ChangeConfig, PostCommand,
          AdapterStep, SaveClient, SavePowerStateCallback, Postpone, StartWithoutCallbacks,
          StartDistanceBased, StartTimeBased, UnknownId, TimeToDistance, DistanceToTime,
          UpdateTimeBased, UpdateDistanceBased, StopTimeBased, StopDistanceBased,
          SweepTimeBased, ReplyReport, ReplyStarted, ReplyRestore, ReplyDistanceStopped,
          ReplyDistanceSwept, ReplySwitchToTime, ReplyDistanceRestart, ReplyDistanceSave,
          LocApiStep, OpenLink, Serve, ModemReset, EngineKeeps
  <2>3. ASSUME ~capsKnown PROVE Calm'
    <3>1. Calm /\ sweep.k # "engineUp"
      BY <2>3 DEF Quiet
    <3>2. ASSUME EndRestart PROVE Calm'
      BY <3>1, <3>2 DEF EndRestart, Idling, Calm, NoDistance, sessionVars
    <3> QED
      BY <1>3, <2>3, <3>1, <3>2, CalmClient, CalmSimple, CalmPlan, CalmSweep, CalmRestart,
         CalmReply, CalmForbids, CalmLocApi
      DEF Next, AdapterStep
  <2> QED
    BY <2>1, <2>2, <2>3 DEF Quiet
<1> QED
  BY <1>1, <1>2, <1>3

\* Until the engine is up for the first time no distance based session is
\* saved and none is asked of the engine: commands that want one wait in
\* mPendingMsgs, and no answer, restart or removal in flight slips one in.
THEOREM DistanceWaits == Spec => []NoDistanceBeforeCapabilities
<1>1. TypeOK /\ Quiet => NoDistanceBeforeCapabilities
  <2> SUFFICES ASSUME TypeOK, Calm
               PROVE  /\ DistIds = {}
                      /\ \A n \in DOMAIN apiQ : apiQ[n].op \notin {"startDist", "stopDist"}
    BY DEF Quiet, NoDistanceBeforeCapabilities
  <2>1. \A n \in DOMAIN apiQ : apiQ[n] \in SafeCalls
    BY DEF Calm
  <2> QED
    BY <2>1, CalmSessions DEF SafeCalls
<1> QED
  BY <1>1, QuietInit, QuietNext, TypeCorrect, PTL DEF Spec

HIDE ConstantsAssumption

-----------------------------------------------------------------------------
(* Answers: a client that stays is never answered more often than it asked.*)
(*                                                                         *)
(* Every command is one thing in flight: its message, the postponed        *)
(* message, the request made for it or the answer to that request.  A      *)
(* handler may answer only by using one up, so what is owed is never less  *)
(* than what is in flight.  Requests made for the removal of a client are  *)
(* answered beyond that, but their sessions are of a client that has left. *)

\* How many elements of s are in M.
Among(s, M) == {n \in DOMAIN s : s[n] \in M}
Count(s, M) == Cardinality(Among(s, M))

ClientCmds == {"start", "update", "stop"}

\* What is in flight for a command of session id.
Dues(id)     == {m \in Messages : m.id = id /\ m.cmd \in ClientCmds /\ m.k # "ignore"}
DueCalls(id) == {call \in ApiCalls : call.reply \in Dues(id)}
InFlight(id) == Count(msgQ, Dues(id)) + Count(pending, Dues(id)) + Count(apiQ, DueCalls(id))

\* The client that was handed the id has been destroyed.
Gone(id) == \E c \in Clients : owner[id] = c /\ api[c] = "gone"

\* Whatever can be answered stands for a command, or its client has left.
Entitled      == {m \in Messages :
                    /\ m.k = "remove" => api[m.client] = "gone"
                    /\ m.k \in SessionKinds => m.cmd \in ClientCmds \/ Gone(m.id)}
EntitledCalls == {call \in ApiCalls : \/ call.reply.k = "ignore"
                                      \/ call.reply.cmd \in ClientCmds
                                      \/ Gone(call.reply.id)}

\* The inductive invariant, in two parts.
Entitlement ==
  /\ \A i \in Ids : i >= nextId => owner[i] = NoClient
  /\ sweep.k = "remove" => /\ api[sweep.client] = "gone"
                           /\ \A i \in sweep.left : owner[i] = sweep.client
  /\ msgQ \in Seq(Entitled)
  /\ pending \in Seq(Entitled)
  /\ apiQ \in Seq(EntitledCalls)

Balanced == \A id \in Ids : Gone(id) \/ InFlight(id) <= owed[id]

-----------------------------------------------------------------------------
(* Counting *)

LEMMA AmongFinite ==
  ASSUME NEW X, NEW s \in Seq(X), NEW M
  PROVE  IsFiniteSet(Among(s, M)) /\ Count(s, M) \in Nat
<1>1. DOMAIN s = 1 .. Len(s) /\ Len(s) \in Nat
  OBVIOUS
<1>2. IsFiniteSet(1 .. Len(s))
  BY <1>1, FS_Interval
<1>3. Among(s, M) \in SUBSET (1 .. Len(s))
  BY <1>1 DEF Among
<1> QED
  BY <1>2, <1>3, FS_Subset, FS_CardinalityType DEF Count

LEMMA CountNone ==
  ASSUME NEW X, NEW s \in Seq(X), NEW M, X \cap M = {}
  PROVE  Count(s, M) = 0
<1>1. Among(s, M) = {}
  BY DEF Among
<1> QED
  BY <1>1, FS_EmptySet DEF Count

LEMMA CountEmpty == \A M : Count(<< >>, M) = 0
<1> SUFFICES ASSUME NEW M PROVE Count(<< >>, M) = 0
  OBVIOUS
<1>1. Among(<< >>, M) = {}
  BY DEF Among
<1> QED
  BY <1>1, FS_EmptySet DEF Count

LEMMA CountAppend ==
  ASSUME NEW X, NEW s \in Seq(X), NEW x \in X, NEW M
  PROVE  Count(Append(s, x), M) = Count(s, M) + IF x \in M THEN 1 ELSE 0
<1> DEFINE n == Len(s) + 1
<1>1. /\ Append(s, x) \in Seq(X) /\ DOMAIN Append(s, x) = 1 .. n
      /\ \A i \in 1 .. Len(s) : Append(s, x)[i] = s[i]
      /\ Append(s, x)[n] = x
      /\ DOMAIN s = 1 .. Len(s) /\ Len(s) \in Nat
  BY AppendProperties
<1>2. IsFiniteSet(Among(s, M)) /\ n \notin Among(s, M) /\ Count(s, M) \in Nat
  <2>1. n \notin Among(s, M)
    BY <1>1 DEF Among
  <2> QED
    BY <2>1, AmongFinite
<1>3. CASE x \in M
  <2>1. Among(Append(s, x), M) = Among(s, M) \cup {n}
    BY <1>1, <1>3 DEF Among
  <2>2. Cardinality(Among(s, M) \cup {n}) = Cardinality(Among(s, M)) + 1
    BY <1>2, FS_AddElement
  <2> QED
    BY <1>3, <2>1, <2>2 DEF Count
<1>4. CASE x \notin M
  <2>1. Among(Append(s, x), M) = Among(s, M)
    BY <1>1, <1>4 DEF Among
  <2> QED
    BY <1>2, <1>4, <2>1 DEF Count
<1> QED
  BY <1>3, <1>4

LEMMA CountOne ==
  ASSUME NEW X, NEW x \in X, NEW M
  PROVE  Count(<<x>>, M) = IF x \in M THEN 1 ELSE 0
<1>1. << >> \in Seq(X) /\ Append(<< >>, x) = <<x>>
  OBVIOUS
<1>2. Count(Append(<< >>, x), M) = Count(<< >>, M) + IF x \in M THEN 1 ELSE 0
  BY <1>1, CountAppend
<1> QED
  BY <1>1, <1>2, CountEmpty

LEMMA CountConcat ==
  ASSUME NEW X, NEW s \in Seq(X), NEW t \in Seq(X), NEW M
  PROVE  Count(s \o t, M) = Count(s, M) + Count(t, M)
<1> DEFINE n     == Len(s)
           Moved == {n + i : i \in Among(t, M)}
           f     == [i \in Among(t, M) |-> n + i]
<1>1. /\ s \o t \in Seq(X) /\ DOMAIN (s \o t) = 1 .. n + Len(t)
      /\ \A i \in 1 .. n : (s \o t)[i] = s[i]
      /\ \A i \in 1 .. Len(t) : (s \o t)[n + i] = t[i]
      /\ n \in Nat /\ Len(t) \in Nat /\ DOMAIN s = 1 .. n /\ DOMAIN t = 1 .. Len(t)
  BY ConcatProperties
<1>2. Among(s, M) \subseteq 1 .. n /\ Among(t, M) \subseteq 1 .. Len(t)
  BY <1>1 DEF Among
<1>3. /\ IsFiniteSet(Among(s, M)) /\ Count(s, M) \in Nat
      /\ IsFiniteSet(Among(t, M)) /\ Count(t, M) \in Nat
  BY AmongFinite
<1>4. f \in Bijection(Among(t, M), Moved)
  BY <1>1, <1>2 DEF Bijection, Injection, Surjection, IsInjective
<1>5. IsFiniteSet(Moved) /\ Cardinality(Moved) = Cardinality(Among(t, M))
  BY <1>3, <1>4, FS_Bijection DEF ExistsBijection
<1>6. Among(s \o t, M) = Among(s, M) \cup Moved
  <2>1. ASSUME NEW i \in Among(s \o t, M) PROVE i \in Among(s, M) \cup Moved
    <3>1. i \in 1 .. n + Len(t) /\ (s \o t)[i] \in M
      BY <1>1 DEF Among
    <3>2. CASE i <= n
      BY <1>1, <3>1, <3>2 DEF Among
    <3>3. CASE i > n
      <4>1. i - n \in 1 .. Len(t) /\ i = n + (i - n)
        BY <1>1, <3>1, <3>3
      <4>2. t[i - n] \in M
        BY <1>1, <3>1, <4>1
      <4>3. i - n \in Among(t, M)
        BY <1>1, <4>1, <4>2 DEF Among
      <4> QED
        BY <4>1, <4>3
    <3> QED
      BY <1>1, <3>1, <3>2, <3>3
  <2>2. ASSUME NEW i \in Among(s, M) PROVE i \in Among(s \o t, M)
    BY <1>1 DEF Among
  <2>3. ASSUME NEW i \in Among(t, M) PROVE n + i \in Among(s \o t, M)
    BY <1>1 DEF Among
  <2> QED
    BY <2>1, <2>2, <2>3
<1>7. Among(s, M) \cap Moved = {}
  BY <1>1, <1>2
<1>8. Cardinality(Among(s, M) \cup Moved)
        = Cardinality(Among(s, M)) + Cardinality(Moved) - Cardinality({})
  BY <1>3, <1>5, <1>7, FS_Union
<1> QED
  BY <1>3, <1>5, <1>6, <1>8, FS_EmptySet DEF Count

LEMMA CountTail ==
  ASSUME NEW X, NEW s \in Seq(X), s # << >>, NEW M
  PROVE  Count(s, M) = Count(Tail(s), M) + IF Head(s) \in M THEN 1 ELSE 0
<1>1. /\ Head(s) \in X /\ Tail(s) \in Seq(X) /\ <<Head(s)>> \in Seq(X)
      /\ s = <<Head(s)>> \o Tail(s)
  BY HeadTailProperties
<1>2. Count(s, M) = Count(<<Head(s)>>, M) + Count(Tail(s), M)
  BY <1>1, CountConcat
<1>3. Count(<<Head(s)>>, M) = IF Head(s) \in M THEN 1 ELSE 0
  BY <1>1, CountOne
<1>4. Count(Tail(s), M) \in Nat
  BY <1>1, AmongFinite
<1> QED
  BY <1>2, <1>3, <1>4


-----------------------------------------------------------------------------
(* A plan answers at once or makes the one request that will be answered. *)

RepliesOf(id, cmd) == {m \in Messages : m.id = id /\ m.cmd = cmd /\ m.k \in ReplyKinds \ {"ignore"}}

\* Requests whose answer is one of R, and plans that make at most one of them.
CallsFor(R) == {call \in ApiCalls : call.reply \in R}
Honest(R) ==
  {plan \in PlansOf(CallsFor(R)) :
     \/ plan.calls = << >> /\ plan.answer # "later"
     \/ plan.answer = "later" /\ \E call \in CallsFor(R) : plan.calls = <<call>>}

LEMMA HonestRun ==
  ASSUME NEW need \in BOOLEAN, NEW flag \in BOOLEAN, NEW o \in Options,
         NEW reply, NEW R, Starts(CallsFor(R), reply)
  PROVE  Run(need, flag, o, reply) \in Honest(R)
<1> DEFINE raise == need /\ ~flag /\ o.interval > MinInterval
           o2    == [o EXCEPT !.interval = IF raise THEN MinInterval ELSE @]
           call  == Call("startTime", o2, reply)
<1>1. o2 \in Options
  BY ConstantsAssumption DEF Options
<1>2. call \in CallsFor(R)
  BY <1>1 DEF Starts
<1>3. Run(need, flag, o, reply) \in PlansOf(CallsFor(R))
  BY RunType
<1>4. Run(need, flag, o, reply).calls = IF need /\ flag THEN << >> ELSE <<call>>
  BY DEF Run
<1>5. Run(need, flag, o, reply).answer = IF need /\ flag THEN "sent" ELSE "later"
  BY DEF Run
<1> HIDE DEF call
<1> QED
  BY <1>2, <1>3, <1>4, <1>5 DEF Honest

LEMMA HonestIdle ==
  ASSUME TypeOK, NEW R
  PROVE  Idle \in Honest(R)
BY IdleType DEF Honest, Idle, NoCall

LEMMA HonestJoin ==
  ASSUME TypeOK, NEW S, S \subseteq TimeIds, NEW o \in Options,
         NEW reply, NEW R, Starts(CallsFor(R), reply)
  PROVE  JoinPlans(S, o, reply) \subseteq Honest(R)
<1> SUFFICES ASSUME NEW i \in Fastest(S), NEW p \in MuxPowers(S)
             PROVE  /\ Run(nhz, spe, Joined(o, i, p), reply) \in Honest(R)
                    /\ Idle \in Honest(R)
  BY DEF JoinPlans
<1>1. i \in TimeIds /\ p \in Nat
  BY PowersType DEF Fastest
<1>2. Joined(o, i, p) \in Options
  BY <1>1, JoinedType
<1> QED
  BY <1>2, HonestRun, HonestIdle DEF TypeOK

LEMMA HonestStart ==
  ASSUME TypeOK, NEW o \in Options, NEW reply, NEW R, Starts(CallsFor(R), reply)
  PROVE  StartPlans(o, reply) \subseteq Honest(R)
BY HonestJoin, HonestRun DEF StartPlans, TypeOK

LEMMA HonestUpdate ==
  ASSUME TypeOK, NEW id \in TimeIds, NEW o \in Options,
         NEW reply, NEW R, Starts(CallsFor(R), reply)
  PROVE  UpdatePlans(id, o, reply) \subseteq Honest(R)
<1>1. JoinPlans(TimeIds \ {id}, o, reply) \subseteq Honest(R)
  BY HonestJoin
<1>2. Run(nhz, spe, o, reply) \in Honest(R)
  BY HonestRun DEF TypeOK
<1> QED
  BY <1>1, <1>2, HonestIdle DEF UpdatePlans

\* The engine answers every start with a reply of R.
LEMMA StartsFor ==
  ASSUME NEW R, NEW reply \in R, reply \in Messages, reply.k \in ReplyKinds
  PROVE  Starts(CallsFor(R), reply)
BY DEF Starts, CallsFor, Call, ApiCalls, Ops

LEMMA HonestStop ==
  ASSUME TypeOK, NEW c \in Clients, NEW id \in TimeIds, NEW cmd \in Cmds
  PROVE  StopPlans(c, id, cmd) \subseteq Honest(RepliesOf(id, cmd))
<1> DEFINE others  == TimeIds \ {id}
           R       == RepliesOf(id, cmd)
           report  == Msg("report", c, id, NoOptions, cmd)
           started == Msg("started", c, id, NoOptions, cmd)
           call    == Call("stopFix", NoOptions, report)
<1>0. id \in Ids
  BY SessionType
<1>1. /\ report \in Messages /\ report.k = "report"
      /\ started \in Messages /\ started.k = "started"
  BY <1>0, ReplyType DEF ReplyKinds, OptionsKinds
<1>2. /\ report.id = id /\ report.cmd = cmd
      /\ started.id = id /\ started.cmd = cmd
  BY DEF Msg
<1> HIDE DEF report, started
<1>3. report \in R /\ started \in R
  BY <1>1, <1>2 DEF RepliesOf, ReplyKinds
<1>4. Starts(CallsFor(R), started)
  BY <1>1, <1>3, StartsFor DEF ReplyKinds
<1>5. call \in CallsFor(R)
  BY <1>1, <1>3 DEF CallsFor, Call, ApiCalls, Ops, ReplyKinds
<1>6. StopEngine(c, id, cmd) \in Honest(R)
  <2>1. StopEngine(c, id, cmd) = [calls |-> <<call>>, spe |-> FALSE, answer |-> "later"]
    BY DEF StopEngine, report
  <2> HIDE DEF call, R
  <2> QED
    BY <1>5, <2>1 DEF Honest, PlansOf
<1>7. ASSUME NEW i \in Fastest(others), NEW p \in MuxPowers(others)
      PROVE  RunOthers(c, id, cmd, i, p) \in Honest(R)
  <2>1. i \in TimeIds /\ p \in Nat
    BY PowersType DEF Fastest
  <2>2. WithPower(i, p) \in Options
    BY <2>1, WithPowerType
  <2>3. Run(nhz, spe, WithPower(i, p), started) \in Honest(R)
    BY <1>4, <2>2, HonestRun DEF TypeOK
  <2>4. Idle \in Honest(R)
    BY HonestIdle
  <2> HIDE DEF R
  <2> QED
    BY <2>3, <2>4 DEF RunOthers, started
<1> HIDE DEF R
<1>8. StopPlans(c, id, cmd) \subseteq Honest(R)
  BY <1>6, <1>7 DEF StopPlans
<1> QED
  BY <1>8 DEF R

\* What a plan asks and what it answers at once add up to one answer.
LEMMA HonestCost ==
  ASSUME NEW i \in Ids, NEW cmd, NEW plan \in Honest(RepliesOf(i, cmd)), NEW id \in Ids
  PROVE  /\ plan.calls \in Seq(CallsFor(RepliesOf(i, cmd)))
         /\ plan.answer = "later" =>
              Count(plan.calls, DueCalls(id)) = IF id = i /\ cmd \in ClientCmds THEN 1 ELSE 0
         /\ plan.answer # "later" => Count(plan.calls, DueCalls(id)) = 0
<1> DEFINE C == CallsFor(RepliesOf(i, cmd))
<1>1. plan.calls \in Seq(C)
  BY DEF Honest, PlansOf
<1>2. ASSUME NEW call \in C PROVE call \in DueCalls(id) <=> id = i /\ cmd \in ClientCmds
  BY DEF CallsFor, RepliesOf, DueCalls, Dues
<1> HIDE DEF C
<1>3. ASSUME plan.answer = "later"
      PROVE  Count(plan.calls, DueCalls(id)) = IF id = i /\ cmd \in ClientCmds THEN 1 ELSE 0
  <2>1. PICK call \in C : plan.calls = <<call>>
    BY <1>3 DEF Honest, C
  <2> QED
    BY <1>2, <2>1, CountOne
<1>4. ASSUME plan.answer # "later" PROVE Count(plan.calls, DueCalls(id)) = 0
  BY <1>4, CountEmpty DEF Honest
<1> USE DEF C
<1> QED
  BY <1>1, <1>3, <1>4

-----------------------------------------------------------------------------
(* What a handler may do to the account *)

LEMMA SameClients ==
  ASSUME UNCHANGED clientVars
  PROVE  /\ \A id : Gone(id)' <=> Gone(id)
         /\ Entitled' = Entitled /\ EntitledCalls' = EntitledCalls
<1>1. api' = api /\ owner' = owner
  BY DEF clientVars
<1>2. \A id : Gone(id)' <=> Gone(id)
  BY <1>1 DEF Gone
<1> QED
  BY <1>1, <1>2 DEF Entitled, EntitledCalls

LEMMA FlightType ==
  ASSUME TypeOK
  PROVE  \A id : /\ InFlight(id) \in Nat
                 /\ Count(msgQ, Dues(id)) \in Nat
                 /\ Count(pending, Dues(id)) \in Nat
                 /\ Count(apiQ, DueCalls(id)) \in Nat
BY AmongFinite DEF InFlight, TypeOK

\* The message received is entitled to what it does.
LEMMA EntitledReceive ==
  ASSUME TypeOK, Entitlement, NEW k, Receive(k)
  PROVE  /\ msg \in Entitled /\ msg \in Messages /\ msg.k = k
         /\ msgQ' \in Seq(Entitled)
         /\ \A id : Count(msgQ, Dues(id))
                      = Count(msgQ', Dues(id)) + IF msg \in Dues(id) THEN 1 ELSE 0
<1>1. msgQ # << >> /\ msg = Head(msgQ) /\ msgQ' = Tail(msgQ) /\ msgQ \in Seq(Entitled)
  BY DEF Receive, msg, Entitlement
<1>2. msg \in Entitled /\ msgQ' \in Seq(Entitled)
  BY <1>1, HeadTailProperties
<1>3. \A id : Count(msgQ, Dues(id))
                = Count(msgQ', Dues(id)) + IF msg \in Dues(id) THEN 1 ELSE 0
  BY <1>1, CountTail
<1> QED
  BY <1>2, <1>3, ReceiveType

\* A message of a session is due, or its client has left.
LEMMA EntitledDue ==
  ASSUME NEW m \in Entitled, m.k \in SessionKinds
  PROVE  Gone(m.id) \/ m \in Dues(m.id)
BY DEF Entitled, Dues, SessionKinds, ReplyKinds

\* A handler that takes a message and makes the requests s keeps the account
\* when it is answered and asked no more than what the message stood for.
LEMMA AccountStep ==
  ASSUME TypeOK, TypeOK', Entitlement, Balanced, UNCHANGED <<clientVars, pending>>,
         NEW k, Receive(k), NEW s \in Seq(EntitledCalls), Request(s),
         sweep' = sweep \/ sweep'.k # "remove",
         \A id \in Ids : \/ Gone(id)
                         \/ owed[id] + Count(s, DueCalls(id))
                              <= owed'[id] + IF msg \in Dues(id) THEN 1 ELSE 0
  PROVE  Entitlement' /\ Balanced'
<1>1. /\ \A id : Gone(id)' <=> Gone(id)
      /\ Entitled' = Entitled /\ EntitledCalls' = EntitledCalls
      /\ api' = api /\ owner' = owner /\ nextId' = nextId
  BY SameClients DEF clientVars
<1>2. /\ apiQ \in Seq(EntitledCalls) /\ apiQ' = apiQ \o s
      /\ apiQ' \in Seq(EntitledCalls)
  BY ConcatProperties DEF Entitlement, Request
<1>3. Entitlement'
  BY <1>1, <1>2, EntitledReceive DEF Entitlement
<1>4. ASSUME NEW id \in Ids, ~Gone(id) PROVE InFlight(id)' <= owed'[id]
  <2>1. owed[id] \in Int /\ owed'[id] \in Int
    BY DEF TypeOK
  <2>2. Count(apiQ', DueCalls(id)) = Count(apiQ, DueCalls(id)) + Count(s, DueCalls(id))
    BY <1>2, CountConcat
  <2>3. Count(msgQ, Dues(id)) = Count(msgQ', Dues(id)) + IF msg \in Dues(id) THEN 1 ELSE 0
    BY EntitledReceive
  <2>4. /\ Count(msgQ, Dues(id)) \in Nat /\ Count(msgQ', Dues(id)) \in Nat
        /\ Count(pending, Dues(id)) \in Nat /\ Count(apiQ, DueCalls(id)) \in Nat
        /\ Count(s, DueCalls(id)) \in Nat
    BY FlightType, AmongFinite DEF TypeOK
  <2>5. InFlight(id) <= owed[id]
    BY <1>4 DEF Balanced
  <2>6. owed[id] + Count(s, DueCalls(id)) <= owed'[id] + IF msg \in Dues(id) THEN 1 ELSE 0
    BY <1>4
  <2>7. InFlight(id)' = Count(msgQ', Dues(id)) + Count(pending, Dues(id))
                          + Count(apiQ', DueCalls(id))
    BY DEF InFlight
  <2>8. CASE msg \in Dues(id)
    BY <2>1, <2>2, <2>3, <2>4, <2>5, <2>6, <2>7, <2>8 DEF InFlight
  <2>9. CASE msg \notin Dues(id)
    BY <2>1, <2>2, <2>3, <2>4, <2>5, <2>6, <2>7, <2>9 DEF InFlight
  <2> QED
    BY <2>8, <2>9
<1> QED
  BY <1>1, <1>3, <1>4 DEF Balanced

\* A step that takes no message and makes requests of no command.
LEMMA AsideStep ==
  ASSUME TypeOK, TypeOK', Entitlement, Balanced, UNCHANGED <<clientVars, msgQ, pending>>,
         NEW s \in Seq(EntitledCalls), Request(s),
         \A id \in Ids : Gone(id) \/ Count(s, DueCalls(id)) = 0,
         \A id \in Ids : Gone(id) \/ owed'[id] = owed[id],
         sweep'.k = "remove" => /\ api[sweep'.client] = "gone"
                                /\ \A i \in sweep'.left : owner[i] = sweep'.client
  PROVE  Entitlement' /\ Balanced'
<1>1. /\ \A id : Gone(id)' <=> Gone(id)
      /\ Entitled' = Entitled /\ EntitledCalls' = EntitledCalls
      /\ api' = api /\ owner' = owner /\ nextId' = nextId
  BY SameClients DEF clientVars
<1>2. /\ apiQ \in Seq(EntitledCalls) /\ apiQ' = apiQ \o s
      /\ apiQ' \in Seq(EntitledCalls)
  BY ConcatProperties DEF Entitlement, Request
<1>3. Entitlement'
  BY <1>1, <1>2 DEF Entitlement
<1>4. ASSUME NEW id \in Ids, ~Gone(id) PROVE InFlight(id)' <= owed'[id]
  <2>1. Count(apiQ', DueCalls(id)) = Count(apiQ, DueCalls(id)) + Count(s, DueCalls(id))
    BY <1>2, CountConcat
  <2>2. Count(s, DueCalls(id)) = 0 /\ owed'[id] = owed[id] /\ Count(apiQ, DueCalls(id)) \in Nat
    BY <1>4, FlightType
  <2>3. InFlight(id)' = InFlight(id)
    BY <2>1, <2>2 DEF InFlight
  <2> QED
    BY <1>4, <2>2, <2>3 DEF Balanced
<1> QED
  BY <1>1, <1>3, <1>4 DEF Balanced

\* Requests nobody waits for, or made because the client has left.
FreeCalls == {call \in EntitledCalls : call.reply.k = "ignore" \/ call.reply.cmd = "remove"}

LEMMA FreeCost ==
  ASSUME NEW s \in Seq(FreeCalls)
  PROVE  s \in Seq(EntitledCalls) /\ \A id : Count(s, DueCalls(id)) = 0
<1>1. FreeCalls \subseteq EntitledCalls
  BY DEF FreeCalls
<1>2. \A id : FreeCalls \cap DueCalls(id) = {}
  BY DEF FreeCalls, DueCalls, Dues, ClientCmds
<1> HIDE DEF FreeCalls
<1>3. s \in Seq(EntitledCalls)
  BY <1>1
<1> QED
  BY <1>2, <1>3, CountNone

\* An answer costs the session of the message one.
LEMMA ReportCost ==
  ASSUME HistoryOK, NEW m, m.id \in Ids, NEW ok, Report(m, ok), NEW id \in Ids
  PROVE  owed[id] <= owed'[id] + IF id = m.id THEN 1 ELSE 0
BY DEF Report, HistoryOK, historyVars

-----------------------------------------------------------------------------
(* The account, action by action *)

\* Handlers that ask nothing, and answer the message or not at all.
LEMMA AccountAnswer ==
  ASSUME TypeOK, TypeOK', Entitlement, Balanced,
         \/ SaveClient \/ SavePowerStateCallback \/ StartWithoutCallbacks
         \/ UnknownId("update") \/ UnknownId("stop")
         \/ ReplyReport \/ ReplyStarted \/ ReplyRestore
         \/ ReplyDistanceStopped \/ ReplyDistanceSwept \/ ReplyDistanceSave
  PROVE  Entitlement' /\ Balanced'
<1>1. PICK k : /\ Receive(k)
               /\ k \in SessionKinds \/ UNCHANGED owed
  <2>1. CASE SaveClient \/ SavePowerStateCallback \/ StartWithoutCallbacks
    BY <2>1 DEF SaveClient, SavePowerStateCallback, StartWithoutCallbacks, Begin, SessionKinds, historyVars
  <2>2. CASE UnknownId("update") \/ UnknownId("stop")
    BY <2>2 DEF UnknownId, Begin, SessionKinds
  <2>3. CASE ReplyReport \/ ReplyStarted \/ ReplyRestore \/ ReplyDistanceStopped
             \/ ReplyDistanceSwept \/ ReplyDistanceSave
    <3>1. {"report", "started", "restore", "distStopped", "distSwept", "distSave"}
            \subseteq SessionKinds
      BY DEF SessionKinds, ReplyKinds
    <3> QED
      BY <2>3, <3>1
      DEF ReplyReport, ReplyStarted, ReplyRestore, ReplyDistanceStopped, ReplyDistanceSwept,
          ReplyDistanceSave
  <2> QED
    BY <2>1, <2>2, <2>3
<1>2. UNCHANGED <<clientVars, pending, sweep, apiQ>>
  BY DEF SaveClient, SavePowerStateCallback, StartWithoutCallbacks, UnknownId, ReplyReport,
         ReplyStarted, ReplyRestore, ReplyDistanceStopped, ReplyDistanceSwept,
         ReplyDistanceSave, AdapterKeeps
<1>3. Report(msg, FALSE) \/ Report(msg, TRUE) \/ Report(msg, msg.ok) \/ UNCHANGED owed
  BY DEF SaveClient, SavePowerStateCallback, StartWithoutCallbacks, UnknownId, ReplyReport,
         ReplyStarted, ReplyRestore, ReplyDistanceStopped, ReplyDistanceSwept,
         ReplyDistanceSave, Silence, historyVars
<1>4. msg \in Entitled /\ msg \in Messages /\ msg.k = k
  BY <1>1, EntitledReceive
<1>5. ASSUME NEW id \in Ids, ~Gone(id)
      PROVE  owed[id] + 0 <= owed'[id] + IF msg \in Dues(id) THEN 1 ELSE 0
  <2>1. owed[id] \in Int /\ owed'[id] \in Int /\ HistoryOK
    BY TypeParts DEF TypeOK
  <2>2. CASE UNCHANGED owed
    BY <2>1, <2>2
  <2>3. CASE ~UNCHANGED owed
    <3>1. msg.k \in SessionKinds /\ msg.id \in Ids
      BY <1>1, <1>4, <2>3, MessageFields
    <3>2. owed[id] <= owed'[id] + IF id = msg.id THEN 1 ELSE 0
      BY <1>3, <2>1, <2>3, <3>1, ReportCost
    <3>3. id = msg.id => msg \in Dues(id)
      BY <1>4, <1>5, <3>1, EntitledDue
    <3> QED
      BY <2>1, <3>2, <3>3
  <2> QED
    BY <2>2, <2>3
<1>6. << >> \in Seq(EntitledCalls) /\ \A id : Count(<< >>, DueCalls(id)) = 0
  BY CountEmpty
<1>7. Request(<< >>)
  BY <1>2 DEF Request, TypeOK
<1> QED
  BY <1>1, <1>2, <1>5, <1>6, <1>7, AccountStep

\* Requests made for a message are entitled to their answer like the message.
LEMMA EntitledFor ==
  ASSUME NEW id \in Ids, NEW cmd, cmd \in ClientCmds \/ Gone(id)
  PROVE  CallsFor(RepliesOf(id, cmd)) \subseteq EntitledCalls
BY DEF CallsFor, RepliesOf, EntitledCalls

\* A handler that follows an honest plan, with or without a free request.
LEMMA AccountFollow ==
  ASSUME TypeOK, TypeOK', Entitlement, Balanced, UNCHANGED <<clientVars, pending, sweep>>,
         NEW k \in SessionKinds, Receive(k),
         NEW plan \in Honest(RepliesOf(msg.id, msg.cmd)), NEW free \in Seq(FreeCalls),
         Request(plan.calls \o free),
         IF plan.answer = "later" THEN UNCHANGED historyVars ELSE Report(msg, TRUE)
  PROVE  Entitlement' /\ Balanced'
<1> DEFINE s == plan.calls \o free
           C == CallsFor(RepliesOf(msg.id, msg.cmd))
<1>1. msg \in Entitled /\ msg.k \in SessionKinds /\ msg.id \in Ids
  BY EntitledReceive, MessageFields
<1>2. Gone(msg.id) \/ (msg \in Dues(msg.id) /\ msg.cmd \in ClientCmds)
  BY <1>1, EntitledDue DEF Dues
<1>3. C \subseteq EntitledCalls
  BY <1>1, <1>2, EntitledFor
<1>4. plan.calls \in Seq(C)
  BY <1>1, HonestCost
<1> HIDE DEF C
<1>5. plan.calls \in Seq(EntitledCalls) /\ free \in Seq(EntitledCalls)
  BY <1>3, <1>4, FreeCost
<1>6. s \in Seq(EntitledCalls)
  BY <1>5, ConcatProperties
<1>7. ASSUME NEW id \in Ids, ~Gone(id)
      PROVE  owed[id] + Count(s, DueCalls(id)) <= owed'[id] + IF msg \in Dues(id) THEN 1 ELSE 0
  <2>1. owed[id] \in Int /\ owed'[id] \in Int /\ HistoryOK
    BY TypeParts DEF TypeOK
  <2>2. id = msg.id => msg \in Dues(id) /\ msg.cmd \in ClientCmds
    BY <1>2, <1>7
  <2>3. Count(s, DueCalls(id)) = Count(plan.calls, DueCalls(id)) + Count(free, DueCalls(id))
    BY <1>5, CountConcat
  <2>4. Count(free, DueCalls(id)) = 0
    BY FreeCost
  <2>5. CASE plan.answer = "later"
    <3>1. Count(plan.calls, DueCalls(id)) = IF id = msg.id /\ msg.cmd \in ClientCmds THEN 1 ELSE 0
      BY <1>1, <2>5, HonestCost
    <3>2. owed' = owed
      BY <2>5 DEF historyVars
    <3> QED
      BY <2>1, <2>2, <2>3, <2>4, <3>1, <3>2
  <2>6. CASE plan.answer # "later"
    <3>1. Count(plan.calls, DueCalls(id)) = 0
      BY <1>1, <2>6, HonestCost
    <3>2. owed[id] <= owed'[id] + IF id = msg.id THEN 1 ELSE 0
      BY <1>1, <2>1, <2>6, ReportCost
    <3> QED
      BY <2>1, <2>2, <2>3, <2>4, <3>1, <3>2
  <2> QED
    BY <2>5, <2>6
<1> HIDE DEF s
<1>8. Request(s)
  BY DEF s
<1> QED
  BY <1>6, <1>7, <1>8, AccountStep

\* Handlers that make a plan.
LEMMA AccountPlan ==
  ASSUME TypeOK, TypeOK', Entitlement, Balanced,
         StartTimeBased \/ TimeToDistance \/ UpdateTimeBased \/ StopTimeBased
           \/ ReplySwitchToTime
  PROVE  Entitlement' /\ Balanced'
<1> DEFINE R == RepliesOf(msg.id, msg.cmd)
           started == Msg("started", msg.client, msg.id, NoOptions, msg.cmd)
<1>1. PICK k \in {"start", "update", "stop", "switchToTime"} :
        Receive(k) /\ (ReplySwitchToTime \/ k # "switchToTime")
  BY DEF StartTimeBased, TimeToDistance, UpdateTimeBased, StopTimeBased, ReplySwitchToTime, Begin
<1>2. /\ msg \in Messages /\ msg.k = k /\ k \in SessionKinds
      /\ msg.id \in Ids /\ msg.client \in Clients /\ msg.cmd \in Cmds
      /\ msg.k # "stop" => msg.opts \in Options /\ Clamped(msg.opts) \in Options
  BY <1>1, ReceiveType, MessageFields, ClampedType
  DEF SessionKinds, ReplyKinds, ClientKinds, OptionsKinds
<1>3. Starts(CallsFor(R), started)
  <2>1. started \in Messages /\ started.k = "started"
    BY <1>2, ReplyType DEF ReplyKinds, OptionsKinds
  <2>2. started.id = msg.id /\ started.cmd = msg.cmd
    BY DEF Msg
  <2> HIDE DEF started
  <2>3. started \in R
    BY <2>1, <2>2 DEF RepliesOf, ReplyKinds
  <2> QED
    BY <2>1, <2>3, StartsFor DEF ReplyKinds
<1> HIDE DEF R
<1>4. \E plan \in Honest(R) : \E free \in Seq(FreeCalls) :
        /\ Request(plan.calls \o free)
        /\ IF plan.answer = "later" THEN UNCHANGED historyVars ELSE Report(msg, TRUE)
  <2>0. ASSUME NEW plan \in Honest(R), Follow(plan, msg)
        PROVE  /\ << >> \in Seq(FreeCalls) /\ Request(plan.calls \o << >>)
               /\ IF plan.answer = "later" THEN UNCHANGED historyVars ELSE Report(msg, TRUE)
    <3>1. plan.calls \in Seq(CallsFor(R))
      BY DEF Honest, PlansOf
    <3>2. plan.calls \o << >> = plan.calls
      BY <3>1, ConcatEmptySeq
    <3>3. << >> \in Seq(FreeCalls)
      OBVIOUS
    <3>4. Request(plan.calls \o << >>)
      BY <2>0, <3>2 DEF Follow
    <3> QED
      BY <2>0, <3>3, <3>4 DEF Follow
  <2>1. CASE StartTimeBased
    <3>1. msg.k = "start"
      BY <2>1, ReceiveType DEF StartTimeBased, Begin
    <3>2. StartPlans(Clamped(msg.opts), started) \subseteq Honest(R)
      BY <1>2, <1>3, <3>1, HonestStart
    <3> QED
      BY <2>0, <2>1, <3>2 DEF StartTimeBased
  <2>2. CASE UpdateTimeBased
    <3> DEFINE reply == Msg("restore", msg.client, msg.id, sessions.time[msg.id], msg.cmd)
    <3>1. msg.k = "update" /\ msg.id \in TimeIds
      BY <2>2, ReceiveType DEF UpdateTimeBased, Begin
    <3>2. reply \in Messages /\ reply.k = "restore"
      BY <1>2, <3>1, SessionType, ReplyWithOptionsType DEF ReplyKinds
    <3>3. reply.id = msg.id /\ reply.cmd = msg.cmd
      BY DEF Msg
    <3>4. Starts(CallsFor(R), reply)
      <4> HIDE DEF reply
      <4>1. reply \in R
        BY <3>2, <3>3 DEF R, RepliesOf, ReplyKinds
      <4> QED
        BY <3>2, <4>1, StartsFor DEF ReplyKinds
    <3>5. UpdatePlans(msg.id, Clamped(msg.opts), reply) \subseteq Honest(R)
      BY <1>2, <3>1, <3>4, HonestUpdate
    <3> QED
      BY <2>0, <2>2, <3>5 DEF UpdateTimeBased
  <2>3. CASE StopTimeBased
    <3>1. StopPlans(msg.client, msg.id, msg.cmd) \subseteq Honest(R)
      BY <1>2, <2>3, HonestStop DEF StopTimeBased, R
    <3> QED
      BY <2>0, <2>3, <3>1 DEF StopTimeBased
  <2>4. CASE ReplySwitchToTime
    <3>1. msg.k = "switchToTime"
      BY <2>4, ReceiveType DEF ReplySwitchToTime
    <3>2. StartPlans(msg.opts, started) \subseteq Honest(R)
      BY <1>2, <1>3, <3>1, HonestStart
    <3> QED
      BY <2>0, <2>4, <3>2 DEF ReplySwitchToTime
  <2>5. CASE TimeToDistance
    <3> DEFINE call == StartDist(msg.id, Ignore)
    <3>1. StopPlans(msg.client, msg.id, msg.cmd) \subseteq Honest(R)
      BY <1>2, <2>5, HonestStop DEF TimeToDistance, R
    <3>2. PICK plan \in StopPlans(msg.client, msg.id, msg.cmd) :
            Follow([plan EXCEPT !.calls = Append(@, call)], msg)
      BY <2>5 DEF TimeToDistance
    <3>3. plan \in Honest(R) /\ plan.calls \in Seq(ApiCalls)
      <4>1. plan \in Honest(R)
        BY <3>1, <3>2
      <4> QED
        BY <4>1 DEF Honest, PlansOf, CallsFor
    <3>4. call \in ApiCalls /\ call.reply.k = "ignore"
      <4>1. call \in ApiCalls
        BY <1>2, DistCallType, IgnoreType DEF ReplyKinds
      <4> QED
        BY <4>1, IgnoreType DEF StartDist, Call, Ignore, Msg
    <3> HIDE DEF call
    <3>5. call \in FreeCalls
      BY <3>4 DEF FreeCalls, EntitledCalls
    <3>6. <<call>> \in Seq(FreeCalls)
      BY <3>5
    <3>7. Append(plan.calls, call) = plan.calls \o <<call>>
      BY <3>3, <3>4, AppendIsConcat
    <3>8. /\ [plan EXCEPT !.calls = Append(@, call)].calls = Append(plan.calls, call)
          /\ [plan EXCEPT !.calls = Append(@, call)].answer = plan.answer
      BY <3>3 DEF Honest, PlansOf
    <3>9. /\ Request(plan.calls \o <<call>>)
          /\ IF plan.answer = "later" THEN UNCHANGED historyVars ELSE Report(msg, TRUE)
      BY <3>2, <3>7, <3>8 DEF Follow
    <3> QED
      BY <3>3, <3>6, <3>9
  <2> QED
    BY <2>1, <2>2, <2>3, <2>4, <2>5
<1>5. UNCHANGED <<clientVars, pending, sweep>>
  BY DEF StartTimeBased, TimeToDistance, UpdateTimeBased, StopTimeBased, ReplySwitchToTime,
         AdapterKeeps
<1> QED
  BY <1>1, <1>2, <1>4, <1>5, AccountFollow DEF R

\* Requests about a distance based session of the message.
LEMMA AccountDistance ==
  ASSUME TypeOK, TypeOK', Entitlement, Balanced,
         StartDistanceBased \/ DistanceToTime \/ UpdateDistanceBased \/ StopDistanceBased
           \/ ReplyDistanceRestart
  PROVE  Entitlement' /\ Balanced'
<1>1. PICK k \in {"start", "update", "stop", "distRestart"} : Receive(k)
  BY DEF StartDistanceBased, DistanceToTime, UpdateDistanceBased, StopDistanceBased,
         ReplyDistanceRestart, Begin
<1>2. /\ msg \in Messages /\ msg \in Entitled /\ msg.k = k /\ k \in SessionKinds
      /\ msg.id \in Ids /\ msg.client \in Clients /\ msg.cmd \in Cmds
      /\ msg.k # "stop" => msg.opts \in Options /\ Clamped(msg.opts) \in Options
  BY <1>1, EntitledReceive, MessageFields, ClampedType
  DEF SessionKinds, ReplyKinds, ClientKinds, OptionsKinds
<1>3. Gone(msg.id) \/ (msg \in Dues(msg.id) /\ msg.cmd \in ClientCmds)
  BY <1>2, EntitledDue DEF Dues
<1>4. UNCHANGED <<clientVars, pending, sweep, owed>>
  BY DEF StartDistanceBased, DistanceToTime, UpdateDistanceBased, StopDistanceBased,
         ReplyDistanceRestart, AdapterKeeps, Silence, historyVars
<1>5. \/ Request(<< >>)
      \/ \E call \in CallsFor(RepliesOf(msg.id, msg.cmd)) : Request(<<call>>)
  <2>1. ASSUME NEW reply \in Messages, reply.k \in ReplyKinds \ {"ignore"},
               reply.id = msg.id, reply.cmd = msg.cmd
        PROVE  /\ StartDist(msg.id, reply) \in CallsFor(RepliesOf(msg.id, msg.cmd))
               /\ StopDist(msg.id, reply) \in CallsFor(RepliesOf(msg.id, msg.cmd))
    <3>1. [reply EXCEPT !.id = msg.id] = reply
      BY <2>1 DEF Messages
    <3>2. reply \in RepliesOf(msg.id, msg.cmd)
      BY <2>1 DEF RepliesOf
    <3>3. StartDist(msg.id, reply) \in ApiCalls /\ StopDist(msg.id, reply) \in ApiCalls
      BY <1>2, <2>1, DistCallType
    <3> QED
      BY <3>1, <3>2, <3>3 DEF StartDist, StopDist, Call, CallsFor
  <2>2. CASE StartDistanceBased
    <3> DEFINE reply == Msg("started", msg.client, msg.id, NoOptions, msg.cmd)
    <3>1. reply \in Messages /\ reply.k = "started" /\ reply.id = msg.id /\ reply.cmd = msg.cmd
      BY <1>2, ReplyType DEF ReplyKinds, OptionsKinds, Msg
    <3>2. Request(<<StartDist(msg.id, reply)>>)
      BY <2>2 DEF StartDistanceBased
    <3> HIDE DEF reply
    <3> QED
      BY <2>1, <3>1, <3>2 DEF ReplyKinds
  <2>3. CASE DistanceToTime
    <3> DEFINE reply == Msg("switchToTime", msg.client, msg.id, Clamped(msg.opts), msg.cmd)
    <3>0. msg.k = "update"
      BY <2>3, ReceiveType DEF DistanceToTime, Begin
    <3>1. reply \in Messages /\ reply.k = "switchToTime"
      BY <1>2, <3>0, ReplyWithOptionsType DEF ReplyKinds
    <3>2. reply.id = msg.id /\ reply.cmd = msg.cmd
      BY DEF Msg
    <3>3. Request(<<StopDist(msg.id, reply)>>)
      BY <2>3 DEF DistanceToTime
    <3> HIDE DEF reply
    <3> QED
      BY <2>1, <3>1, <3>2, <3>3 DEF ReplyKinds
  <2>4. CASE UpdateDistanceBased
    <3> DEFINE reply == Msg("distRestart", msg.client, msg.id, Clamped(msg.opts), msg.cmd)
    <3>0. msg.k = "update"
      BY <2>4, ReceiveType DEF UpdateDistanceBased, Begin
    <3>1. reply \in Messages /\ reply.k = "distRestart"
      BY <1>2, <3>0, ReplyWithOptionsType DEF ReplyKinds
    <3>2. reply.id = msg.id /\ reply.cmd = msg.cmd
      BY DEF Msg
    <3>3. Request(<<StopDist(msg.id, reply)>>)
      BY <2>4 DEF UpdateDistanceBased
    <3> HIDE DEF reply
    <3> QED
      BY <2>1, <3>1, <3>2, <3>3 DEF ReplyKinds
  <2>5. CASE StopDistanceBased
    <3> DEFINE reply == Msg("distStopped", msg.client, msg.id, NoOptions, msg.cmd)
    <3>1. reply \in Messages /\ reply.k = "distStopped"
      BY <1>2, ReplyType DEF ReplyKinds, OptionsKinds
    <3>2. reply.id = msg.id /\ reply.cmd = msg.cmd
      BY DEF Msg
    <3>3. Request(<<StopDist(msg.id, reply)>>)
      BY <2>5 DEF StopDistanceBased
    <3> HIDE DEF reply
    <3> QED
      BY <2>1, <3>1, <3>2, <3>3 DEF ReplyKinds
  <2>6. CASE ReplyDistanceRestart
    <3> DEFINE reply == Msg("distSave", msg.client, msg.id, msg.opts, msg.cmd)
    <3>0. msg.k = "distRestart"
      BY <2>6, ReceiveType DEF ReplyDistanceRestart
    <3>1. reply \in Messages /\ reply.k = "distSave"
      BY <1>2, <3>0, ReplyWithOptionsType DEF ReplyKinds
    <3>2. reply.id = msg.id /\ reply.cmd = msg.cmd
      BY DEF Msg
    <3>3. Request(<<StartDist(msg.id, reply)>>) \/ Request(<< >>)
      BY <2>6 DEF ReplyDistanceRestart
    <3> HIDE DEF reply
    <3> QED
      BY <2>1, <3>1, <3>2, <3>3 DEF ReplyKinds
  <2> QED
    BY <2>2, <2>3, <2>4, <2>5, <2>6
<1>6. ASSUME NEW s \in Seq(EntitledCalls), Request(s),
             \A id \in Ids : Count(s, DueCalls(id)) <= IF id = msg.id /\ msg.cmd \in ClientCmds
                                                       THEN 1 ELSE 0
      PROVE  Entitlement' /\ Balanced'
  <2>1. ASSUME NEW id \in Ids, ~Gone(id)
        PROVE  owed[id] + Count(s, DueCalls(id)) <= owed'[id] + IF msg \in Dues(id) THEN 1 ELSE 0
    <3>1. owed[id] \in Int /\ owed'[id] = owed[id] /\ Count(s, DueCalls(id)) \in Nat
      BY <1>4, AmongFinite DEF TypeOK, historyVars
    <3>2. id = msg.id => msg \in Dues(id)
      BY <1>3, <2>1
    <3>3. Count(s, DueCalls(id)) <= IF id = msg.id /\ msg.cmd \in ClientCmds THEN 1 ELSE 0
      BY <1>6
    <3> QED
      BY <3>1, <3>2, <3>3
  <2> QED
    BY <1>1, <1>4, <1>6, <2>1, AccountStep
<1>7. CASE Request(<< >>)
  <2>1. /\ << >> \in Seq(EntitledCalls)
        /\ \A id \in Ids : Count(<< >>, DueCalls(id)) <= IF id = msg.id /\ msg.cmd \in ClientCmds
                                                         THEN 1 ELSE 0
    BY CountEmpty
  <2> QED
    BY <1>6, <1>7, <2>1
<1>8. ASSUME NEW call \in CallsFor(RepliesOf(msg.id, msg.cmd)), Request(<<call>>)
      PROVE  Entitlement' /\ Balanced'
  <2>1. call \in EntitledCalls
    BY <1>2, <1>3, EntitledFor
  <2>2. <<call>> \in Seq(EntitledCalls)
    BY <2>1
  <2>3. ASSUME NEW id \in Ids
        PROVE  Count(<<call>>, DueCalls(id)) <= IF id = msg.id /\ msg.cmd \in ClientCmds
                                                THEN 1 ELSE 0
    <3>1. Count(<<call>>, DueCalls(id)) = IF call \in DueCalls(id) THEN 1 ELSE 0
      BY CountOne
    <3>2. call \in DueCalls(id) <=> id = msg.id /\ msg.cmd \in ClientCmds
      BY DEF CallsFor, RepliesOf, DueCalls, Dues
    <3> QED
      BY <3>1, <3>2
  <2> QED
    BY <1>6, <1>8, <2>2, <2>3
<1> QED
  BY <1>5, <1>7, <1>8

\* A request that is not to be answered, or for a client that has left, is free.
LEMMA FreeIgnore ==
  /\ Starts(FreeCalls, Ignore)
  /\ Call("stopFix", NoOptions, Ignore) \in FreeCalls
  /\ Open \in FreeCalls
  /\ \A id \in Ids : StartDist(id, Ignore) \in FreeCalls
<1>1. Ignore \in Messages /\ Ignore.k = "ignore" /\ Ignore.k \in ReplyKinds
  BY IgnoreType DEF ReplyKinds
<1>2. Starts(ApiCalls, Ignore)
  BY <1>1, StartsType
<1>3. /\ Call("stopFix", NoOptions, Ignore) \in ApiCalls
      /\ Call("open", NoOptions, Ignore) \in ApiCalls
  BY <1>1 DEF Call, ApiCalls, Ops
<1>4. ASSUME NEW id \in Ids PROVE StartDist(id, Ignore) \in FreeCalls
  <2>1. StartDist(id, Ignore) \in ApiCalls
    BY <1>1, DistCallType
  <2>2. StartDist(id, Ignore).reply.k = "ignore"
    BY DEF StartDist, Call, Ignore, Msg
  <2> QED
    BY <2>1, <2>2 DEF FreeCalls, EntitledCalls
<1> QED
  BY <1>1, <1>2, <1>3, <1>4 DEF Starts, FreeCalls, EntitledCalls, Call, Open

LEMMA AccountRestart ==
  ASSUME TypeOK, TypeOK', Entitlement, Balanced,
         EngineUp \/ ApplyConfig \/ NHzRequirement \/ RestartDistanceBased
  PROVE  Entitlement' /\ Balanced'
<1>0. UNCHANGED <<clientVars, pending, historyVars>>
  BY DEF EngineUp, ApplyConfig, NHzRequirement, RestartDistanceBased, AdapterKeeps
<1>1. ASSUME NEW k, NEW need \in BOOLEAN, NEW first \in Seq(FreeCalls), Restart(k, need, first)
      PROVE  sweep'.k = k /\ \E s \in Seq(FreeCalls) : Request(s)
  <2>1. PICK plan \in RestartPlans(need) : Request(first \o plan.calls)
    BY <1>1 DEF Restart
  <2>2. plan.calls \in Seq(FreeCalls)
    BY <2>1, RestartPlansType, FreeIgnore DEF PlansOf
  <2> HIDE DEF FreeCalls
  <2>3. first \o plan.calls \in Seq(FreeCalls)
    BY <2>2, ConcatProperties
  <2> QED
    BY <1>1, <2>1, <2>3 DEF Restart
<1>2. << >> \in Seq(FreeCalls) /\ <<Call("stopFix", NoOptions, Ignore)>> \in Seq(FreeCalls)
  BY FreeIgnore
<1>3. \A id \in Ids : Gone(id) \/ owed'[id] = owed[id]
  BY <1>0 DEF historyVars
<1>4. ASSUME NEW k \in {"engineUp", "config"}, Receive(k), NEW s \in Seq(FreeCalls), Request(s),
             sweep'.k # "remove"
      PROVE  Entitlement' /\ Balanced'
  <2>1. s \in Seq(EntitledCalls) /\ \A id : Count(s, DueCalls(id)) = 0
    BY FreeCost
  <2>2. ASSUME NEW id \in Ids
        PROVE  owed[id] + Count(s, DueCalls(id)) <= owed'[id] + IF msg \in Dues(id) THEN 1 ELSE 0
    BY <1>0, <2>1 DEF TypeOK, historyVars
  <2> QED
    BY <1>0, <1>4, <2>1, <2>2, AccountStep
<1>5. ASSUME UNCHANGED msgQ, NEW s \in Seq(FreeCalls), Request(s), sweep'.k # "remove"
      PROVE  Entitlement' /\ Balanced'
  <2>1. s \in Seq(EntitledCalls) /\ \A id : Count(s, DueCalls(id)) = 0
    BY FreeCost
  <2> QED
    BY <1>0, <1>3, <1>5, <2>1, AsideStep
<1>6. nhz \in BOOLEAN /\ (~nhz) \in BOOLEAN
  BY DEF TypeOK
<1>7. CASE EngineUp
  <2>1. Receive("engineUp") /\ Restart("engineUp", nhz, << >>)
    BY <1>7 DEF EngineUp
  <2>2. sweep'.k = "engineUp" /\ \E s \in Seq(FreeCalls) : Request(s)
    BY <1>1, <1>2, <1>6, <2>1
  <2> QED
    BY <1>4, <2>1, <2>2
<1>8. CASE ApplyConfig
  <2>1. /\ Receive("config")
        /\ \/ Restart("restart", nhz, << >>)
           \/ Restart("restart", nhz, <<Call("stopFix", NoOptions, Ignore)>>)
    BY <1>8 DEF ApplyConfig
  <2>2. sweep'.k = "restart" /\ \E s \in Seq(FreeCalls) : Request(s)
    BY <1>1, <1>2, <1>6, <2>1
  <2> QED
    BY <1>4, <2>1, <2>2
<1>9. CASE NHzRequirement
  <2>1. UNCHANGED msgQ /\ Restart("restart", ~nhz, << >>)
    BY <1>9 DEF NHzRequirement
  <2>2. sweep'.k = "restart" /\ \E s \in Seq(FreeCalls) : Request(s)
    BY <1>1, <1>2, <1>6, <2>1
  <2> QED
    BY <1>5, <2>1, <2>2
<1>10. CASE RestartDistanceBased
  <2>1. PICK id \in sweep.left :
          /\ Request(<<StartDist(id, Ignore)>>)
          /\ sweep' = [sweep EXCEPT !.left = @ \ {id}]
    BY <1>10 DEF RestartDistanceBased
  <2>2. id \in Ids /\ sweep'.k = sweep.k /\ sweep.k # "remove" /\ UNCHANGED msgQ
    BY <1>10, <2>1 DEF RestartDistanceBased, TypeOK, Sweeps
  <2>3. <<StartDist(id, Ignore)>> \in Seq(FreeCalls)
    BY <2>2, FreeIgnore
  <2> QED
    BY <1>5, <2>1, <2>2, <2>3
<1> QED
  BY <1>7, <1>8, <1>9, <1>10

\* Removing a client: its requests are answered beyond its commands.
LEMMA AccountSweep ==
  ASSUME TypeOK, TypeOK', Entitlement, Balanced,
         BeginRemove \/ SweepTimeBased \/ SweepDistanceBased \/ EraseClient
  PROVE  Entitlement' /\ Balanced'
<1>1. UNCHANGED <<clientVars, pending>>
  BY DEF BeginRemove, SweepTimeBased, SweepDistanceBased, EraseClient, AdapterKeeps
<1>2. << >> \in Seq(EntitledCalls) /\ \A id : Count(<< >>, DueCalls(id)) = 0
  BY CountEmpty
<1>3. CASE BeginRemove
  <2>1. /\ Receive("remove") /\ UNCHANGED <<apiQ, historyVars>>
        /\ sweep' = [k |-> "remove", client |-> msg.client, left |-> OwnedBy(msg.client, DistIds)]
    BY <1>3 DEF BeginRemove
  <2>2. msg \in Entitled /\ msg.k = "remove" /\ msgQ' \in Seq(Entitled)
    BY <2>1, EntitledReceive
  <2>3. /\ sweep'.client = msg.client /\ api[msg.client] = "gone"
        /\ \A i \in sweep'.left : owner[i] = msg.client
    BY <2>1, <2>2 DEF Entitled, OwnedBy
  <2>4. Entitlement'
    BY <1>1, <2>1, <2>2, <2>3, SameClients DEF Entitlement, clientVars
  <2>5. ASSUME NEW id \in Ids, ~Gone(id) PROVE InFlight(id)' <= owed'[id]
    <3>1. Count(msgQ, Dues(id)) = Count(msgQ', Dues(id)) + IF msg \in Dues(id) THEN 1 ELSE 0
      BY <2>1, EntitledReceive
    <3>2. InFlight(id) <= owed[id] /\ owed' = owed /\ owed[id] \in Int
      BY <2>1, <2>5 DEF Balanced, historyVars, TypeOK
    <3>3. Count(msgQ, Dues(id)) \in Nat /\ Count(pending, Dues(id)) \in Nat
          /\ Count(apiQ, DueCalls(id)) \in Nat
      BY FlightType
    <3>4. Count(msgQ', Dues(id)) \in Nat
      BY AmongFinite DEF TypeOK
    <3>5. InFlight(id)' <= InFlight(id)
      BY <1>1, <2>1, <3>1, <3>3, <3>4 DEF InFlight
    <3>6. InFlight(id)' \in Nat /\ InFlight(id) \in Nat
      BY <1>1, <2>1, <3>3, <3>4 DEF InFlight
    <3> QED
      BY <3>2, <3>5, <3>6
  <2> QED
    BY <1>1, <2>4, <2>5, SameClients DEF Balanced
<1>4. CASE SweepTimeBased
  <2>1. /\ sweep.k = "remove" /\ sweep' = sweep /\ msgQ' = msgQ
        /\ sweep.client \in Clients /\ api[sweep.client] = "gone"
        /\ \A i \in sweep.left : owner[i] = sweep.client
    BY <1>4 DEF SweepTimeBased, Entitlement, TypeOK, Sweeps
  <2>2. PICK id \in Ids :
          /\ First(id, OwnedBy(sweep.client, TimeIds))
          /\ \E plan \in StopPlans(sweep.client, id, "remove") :
               /\ Request(plan.calls)
               /\ spe' = plan.spe
               /\ IF plan.answer = "sent"
                  THEN Report(Msg("stop", sweep.client, id, NoOptions, "remove"), TRUE)
                  ELSE UNCHANGED historyVars
          /\ SetSessions(Erased(sessions, id))
    BY <1>4, Zenon DEF SweepTimeBased
  <2>3. id \in TimeIds /\ owner[id] = sweep.client /\ Gone(id)
    BY <2>1, <2>2 DEF First, OwnedBy, Gone
  <2>4. PICK plan \in StopPlans(sweep.client, id, "remove") :
               /\ Request(plan.calls)
               /\ spe' = plan.spe
               /\ IF plan.answer = "sent"
                  THEN Report(Msg("stop", sweep.client, id, NoOptions, "remove"), TRUE)
                  ELSE UNCHANGED historyVars
    BY <2>2, Zenon
  <2>5. plan \in Honest(RepliesOf(id, "remove"))
    BY <2>1, <2>3, <2>4, HonestStop DEF Cmds
  <2>6. CallsFor(RepliesOf(id, "remove")) \subseteq FreeCalls
    BY <2>3 DEF CallsFor, RepliesOf, FreeCalls, EntitledCalls
  <2>7. plan.calls \in Seq(CallsFor(RepliesOf(id, "remove")))
    BY <2>5, HonestCost
  <2>8. plan.calls \in Seq(FreeCalls)
    BY <2>6, <2>7
  <2>9. ASSUME NEW i \in Ids, ~Gone(i) PROVE owed'[i] = owed[i]
    <3>1. i # id
      BY <2>3, <2>9
    <3> QED
      BY <2>4, <3>1 DEF Report, Msg, historyVars, TypeOK
  <2>10. plan.calls \in Seq(EntitledCalls) /\ \A i : Count(plan.calls, DueCalls(i)) = 0
    BY <2>8, FreeCost
  <2> QED
    BY <1>1, <2>1, <2>4, <2>9, <2>10, AsideStep
<1>5. CASE SweepDistanceBased
  <2>1. /\ sweep.k = "remove" /\ msgQ' = msgQ /\ UNCHANGED historyVars
        /\ sweep.client \in Clients /\ api[sweep.client] = "gone"
        /\ \A i \in sweep.left : owner[i] = sweep.client
    BY <1>5 DEF SweepDistanceBased, Entitlement, TypeOK, Sweeps
  <2>2. PICK id \in Ids :
          /\ First(id, sweep.left)
          /\ Request(<<StopDist(id, Msg("distSwept", sweep.client, id, NoOptions, "remove"))>>)
          /\ sweep' = [sweep EXCEPT !.left = @ \ {id}]
    BY <1>5 DEF SweepDistanceBased
  <2>3. Gone(id)
    BY <2>1, <2>2 DEF First, Gone
  <2> DEFINE reply == Msg("distSwept", sweep.client, id, NoOptions, "remove")
             call  == StopDist(id, reply)
  <2>4. call \in ApiCalls
    BY <2>1, ReplyType, DistCallType DEF ReplyKinds, OptionsKinds, Cmds
  <2>5. call.reply.id = id /\ call.reply.cmd = "remove"
    BY DEF StopDist, Call, Msg
  <2>6. call \in FreeCalls
    BY <2>3, <2>4, <2>5 DEF FreeCalls, EntitledCalls
  <2> HIDE DEF call
  <2>7. <<call>> \in Seq(FreeCalls)
    BY <2>6
  <2>8. <<call>> \in Seq(EntitledCalls) /\ \A i : Count(<<call>>, DueCalls(i)) = 0
    BY <2>7, FreeCost
  <2>9. /\ sweep'.client = sweep.client
        /\ \A i \in sweep'.left : owner[i] = sweep.client
    BY <2>1, <2>2 DEF TypeOK, Sweeps
  <2>10. Request(<<call>>)
    BY <2>2 DEF call
  <2>11. \A i \in Ids : owed'[i] = owed[i]
    BY <2>1 DEF historyVars
  <2> QED
    BY <1>1, <2>1, <2>8, <2>9, <2>10, <2>11, AsideStep
<1>6. CASE EraseClient
  <2>1. sweep'.k # "remove" /\ msgQ' = msgQ /\ apiQ' = apiQ /\ owed' = owed
    BY <1>6 DEF EraseClient, Idling, historyVars
  <2>2. Request(<< >>)
    BY <2>1 DEF Request, TypeOK
  <2> QED
    BY <1>1, <1>2, <2>1, <2>2, AsideStep
<1> QED
  BY <1>3, <1>4, <1>5, <1>6

\* A message postponed, and posted again when the engine is up, is in flight
\* all the time.
LEMMA AccountPostpone ==
  ASSUME TypeOK, TypeOK', Entitlement, Balanced, Postpone \/ EndRestart
  PROVE  Entitlement' /\ Balanced'
<1>1. UNCHANGED <<clientVars, apiQ, owed>>
  BY DEF Postpone, EndRestart, AdapterKeeps, historyVars
<1>2. /\ msgQ' \in Seq(Entitled) /\ pending' \in Seq(Entitled)
      /\ sweep' = sweep \/ sweep'.k # "remove"
      /\ \A id : Count(msgQ', Dues(id)) + Count(pending', Dues(id))
                   = Count(msgQ, Dues(id)) + Count(pending, Dues(id))
  <2>1. CASE Postpone
    <3>1. \E k : Receive(k)
      BY <2>1 DEF Postpone
    <3>2. pending' = Append(pending, msg) /\ sweep' = sweep
      BY <2>1 DEF Postpone
    <3>3. /\ msg \in Entitled /\ msg \in Messages /\ msgQ' \in Seq(Entitled)
          /\ \A id : Count(msgQ, Dues(id))
                       = Count(msgQ', Dues(id)) + IF msg \in Dues(id) THEN 1 ELSE 0
      BY <3>1, EntitledReceive
    <3>4. /\ pending' \in Seq(Entitled)
          /\ \A id : Count(pending', Dues(id))
                       = Count(pending, Dues(id)) + IF msg \in Dues(id) THEN 1 ELSE 0
      BY <3>2, <3>3, AppendProperties, CountAppend DEF Entitlement
    <3>5. \A id : /\ Count(msgQ', Dues(id)) \in Nat
                  /\ Count(pending, Dues(id)) \in Nat
      BY FlightType, AmongFinite DEF TypeOK
    <3> QED
      BY <3>2, <3>3, <3>4, <3>5
  <2>2. CASE EndRestart /\ sweep.k = "engineUp"
    <3>1. msgQ' = msgQ \o pending /\ pending' = << >> /\ sweep'.k # "remove"
      BY <2>2 DEF EndRestart, Idling
    <3>2. msgQ' \in Seq(Entitled) /\ pending' \in Seq(Entitled)
      BY <3>1, ConcatProperties DEF Entitlement
    <3>3. \A id : Count(msgQ', Dues(id)) = Count(msgQ, Dues(id)) + Count(pending, Dues(id))
      BY <3>1, CountConcat DEF Entitlement
    <3>4. \A id : Count(pending', Dues(id)) = 0 /\ Count(msgQ', Dues(id)) \in Nat
      BY <3>1, CountEmpty, AmongFinite DEF TypeOK
    <3> QED
      BY <3>1, <3>2, <3>3, <3>4
  <2>3. CASE EndRestart /\ sweep.k # "engineUp"
    BY <2>3 DEF EndRestart, Idling, Entitlement
  <2> QED
    BY <2>1, <2>2, <2>3
<1>3. \A id : InFlight(id)' = InFlight(id)
  BY <1>1, <1>2 DEF InFlight
<1>4. Entitlement'
  BY <1>1, <1>2, SameClients DEF Entitlement, clientVars
<1> QED
  BY <1>1, <1>3, <1>4, SameClients DEF Balanced

\* A client that posts a command owes it to itself.
LEMMA AccountPost ==
  ASSUME TypeOK, TypeOK', Entitlement, Balanced, NEW m \in Messages, PostCommand(m),
         m.k = "remove" => api'[m.client] = "gone",
         m.k \in SessionKinds => m.cmd \in ClientCmds,
         \A c \in Clients : api[c] = "gone" => api'[c] = "gone",
         \A i \in Ids : owner[i] \in Clients => owner'[i] = owner[i],
         \A i \in Ids : i >= nextId' => owner'[i] = NoClient,
         \A id \in Ids : owed[id] + (IF m \in Dues(id) THEN 1 ELSE 0) <= owed'[id]
  PROVE  Entitlement' /\ Balanced'
<1>1. msgQ' = Append(msgQ, m) /\ UNCHANGED <<pending, sweep, apiQ>>
  BY DEF PostCommand, Post
<1>2. \A id \in Ids : Gone(id) => Gone(id)'
  BY DEF Gone
<1>3. \A x \in Entitled : x \in Entitled'
  BY <1>2, MessageFields DEF Entitled, ClientKinds
<1>4. \A call \in EntitledCalls : call \in EntitledCalls'
  <2> SUFFICES ASSUME NEW call \in EntitledCalls PROVE call \in EntitledCalls'
    OBVIOUS
  <2>1. call \in ApiCalls
    BY DEF EntitledCalls
  <2>2. call.reply.k = "ignore" \/ call.reply.id \in Ids
    BY <2>1 DEF ApiCalls, Messages, SessionKinds
  <2> QED
    BY <1>2, <2>1, <2>2 DEF EntitledCalls
<1>5. m \in Entitled'
  BY DEF Entitled
<1>6. msgQ' \in Seq(Entitled') /\ pending' \in Seq(Entitled') /\ apiQ' \in Seq(EntitledCalls')
  <2> DEFINE E == Entitled'
             C == EntitledCalls'
  <2>1. Entitled \subseteq E /\ EntitledCalls \subseteq C /\ m \in E
    BY <1>3, <1>4, <1>5
  <2>2. msgQ \in Seq(Entitled) /\ pending \in Seq(Entitled) /\ apiQ \in Seq(EntitledCalls)
    BY DEF Entitlement
  <2> HIDE DEF E, C
  <2>3. msgQ \in Seq(E) /\ pending \in Seq(E) /\ apiQ \in Seq(C)
    BY <2>1, <2>2
  <2>4. msgQ' \in Seq(E)
    BY <1>1, <2>1, <2>3, AppendProperties
  <2> USE DEF E, C
  <2> QED
    BY <1>1, <2>3, <2>4
<1>7. sweep'.k = "remove" => /\ api'[sweep'.client] = "gone"
                             /\ \A i \in sweep'.left : owner'[i] = sweep'.client
  <2> SUFFICES ASSUME sweep.k = "remove"
               PROVE  /\ api'[sweep.client] = "gone"
                      /\ \A i \in sweep.left : owner'[i] = sweep.client
    BY <1>1
  <2>1. sweep.client \in Clients /\ sweep.left \subseteq Ids
    BY DEF TypeOK, Sweeps
  <2> QED
    BY <2>1 DEF Entitlement
<1>8. Entitlement'
  BY <1>6, <1>7 DEF Entitlement
<1>9. ASSUME NEW id \in Ids, ~(Gone(id)') PROVE InFlight(id)' <= owed'[id]
  <2>1. InFlight(id) <= owed[id]
    BY <1>2, <1>9 DEF Balanced
  <2>2. Count(msgQ', Dues(id)) = Count(msgQ, Dues(id)) + IF m \in Dues(id) THEN 1 ELSE 0
    BY <1>1, CountAppend DEF TypeOK
  <2>3. owed[id] \in Int /\ owed'[id] \in Int
    BY DEF TypeOK
  <2>4. /\ Count(msgQ, Dues(id)) \in Nat /\ Count(pending, Dues(id)) \in Nat
        /\ Count(apiQ, DueCalls(id)) \in Nat
    BY FlightType
  <2>5. InFlight(id)' = InFlight(id) + IF m \in Dues(id) THEN 1 ELSE 0
    BY <1>1, <2>2, <2>4 DEF InFlight
  <2>6. owed[id] + (IF m \in Dues(id) THEN 1 ELSE 0) <= owed'[id]
    OBVIOUS
  <2>7. InFlight(id) \in Nat
    BY FlightType
  <2>8. CASE m \in Dues(id)
    BY <2>1, <2>3, <2>5, <2>6, <2>7, <2>8
  <2>9. CASE m \notin Dues(id)
    BY <2>1, <2>3, <2>5, <2>6, <2>7, <2>9
  <2> QED
    BY <2>8, <2>9
<1> QED
  BY <1>8, <1>9 DEF Balanced

LEMMA AccountClient ==
  ASSUME TypeOK, TypeOK', Entitlement, Balanced, ClientStep
  PROVE  Entitlement' /\ Balanced'
<1>0. /\ \A i \in Ids : i >= nextId => owner[i] = NoClient
      /\ NoClient \notin Clients /\ 0 \notin Ids
      /\ \A id \in Ids : owed[id] \in Int
      /\ nextId \in Nat
  BY ConstantsAssumption DEF Entitlement, Ids, TypeOK
<1>1. ASSUME NEW m \in Messages, PostCommand(m), UNCHANGED <<owner, nextId, owed>>,
             m.k \in {"add", "remove", "observe", "config"}, m.cmd = "none",
             m.k = "remove" => api'[m.client] = "gone",
             \A c \in Clients : api[c] = "gone" => api'[c] = "gone"
      PROVE  Entitlement' /\ Balanced'
  <2>1. m.k \notin SessionKinds /\ m.cmd \notin ClientCmds
    BY <1>1 DEF SessionKinds, ReplyKinds, ClientCmds
  <2>2. \A id \in Ids : m \notin Dues(id)
    BY <2>1 DEF Dues
  <2>3. \A id \in Ids : owed[id] + (IF m \in Dues(id) THEN 1 ELSE 0) <= owed'[id]
    BY <1>0, <1>1, <2>2
  <2>4. \A i \in Ids : i >= nextId' => owner'[i] = NoClient
    BY <1>0, <1>1
  <2>5. owner' = owner
    BY <1>1
  <2> QED
    BY <1>1, <2>1, <2>3, <2>4, <2>5, AccountPost
<1>2. ASSUME NEW c \in Clients, NEW cb \in TrackingCbs, AddClient(c, cb) \/ UpdateCallbacks(c, cb)
      PROVE  Entitlement' /\ Balanced'
  <2> DEFINE m == [Msg("add", c, 0, NoOptions, "none") EXCEPT !.ok = cb]
  <2>1. m \in Messages
    BY ConstantsAssumption
    DEF Msg, Messages, CommandKinds, SessionKinds, ReplyKinds, OptionsKinds, Cmds
  <2>2. m.k = "add" /\ m.cmd = "none"
    BY DEF Msg
  <2>3. PostCommand(m) /\ UNCHANGED <<owner, nextId, owed>>
    BY <1>2 DEF AddClient, UpdateCallbacks, clientVars, historyVars
  <2>4. \A d \in Clients : api[d] = "gone" => api'[d] = "gone"
    BY <1>2 DEF AddClient, UpdateCallbacks, clientVars, TypeOK
  <2> HIDE DEF m
  <2> QED
    BY <1>1, <2>1, <2>2, <2>3, <2>4
<1>3. ASSUME NEW c \in Clients, RemoveClient(c) PROVE Entitlement' /\ Balanced'
  <2> DEFINE m == Msg("remove", c, 0, NoOptions, "none")
  <2>1. m \in Messages
    BY MsgType DEF CommandKinds, SessionKinds, ReplyKinds, OptionsKinds, Cmds
  <2>2. m.k = "remove" /\ m.cmd = "none" /\ m.client = c
    BY DEF Msg
  <2>3. PostCommand(m) /\ UNCHANGED <<owner, nextId, owed>>
    BY <1>3 DEF RemoveClient, historyVars
  <2>4. api' = [api EXCEPT ![c] = "gone"]
    BY <1>3 DEF RemoveClient
  <2>5. api'[c] = "gone" /\ \A d \in Clients : api[d] = "gone" => api'[d] = "gone"
    BY <2>4 DEF TypeOK
  <2> HIDE DEF m
  <2> QED
    BY <1>1, <2>1, <2>2, <2>3, <2>5
<1>4. ASSUME NEW c \in Clients, NEW o \in Requests, StartTracking(c, o)
      PROVE  Entitlement' /\ Balanced'
  <2> DEFINE m == Msg("start", c, nextId, o, "start")
  <2>1. nextId \in Ids
    BY <1>4 DEF StartTracking
  <2>2. m \in Messages
    BY <2>1, MsgType, ConstantsAssumption DEF CommandKinds, Cmds
  <2>3. m.k = "start" /\ m.cmd = "start" /\ m.id = nextId
    BY DEF Msg
  <2>4. PostCommand(m) /\ api' = api /\ nextId' = nextId + 1
        /\ owner' = [owner EXCEPT ![nextId] = c]
        /\ owed' = [owed EXCEPT ![nextId] = @ + 1]
    BY <1>4 DEF StartTracking
  <2>5. \A i \in Ids : owner[i] \in Clients => owner'[i] = owner[i]
    BY <1>0, <2>1, <2>4 DEF TypeOK
  <2>6. \A i \in Ids : i >= nextId' => owner'[i] = NoClient
    BY <1>0, <2>1, <2>4 DEF TypeOK, Ids
  <2> HIDE DEF m
  <2>7. \A id \in Ids : owed[id] + (IF m \in Dues(id) THEN 1 ELSE 0) <= owed'[id]
    <3> SUFFICES ASSUME NEW id \in Ids
                 PROVE  owed[id] + (IF m \in Dues(id) THEN 1 ELSE 0) <= owed'[id]
      OBVIOUS
    <3>1. m \in Dues(id) => id = nextId
      BY <2>3 DEF Dues
    <3>2. owed'[id] = IF id = nextId THEN owed[id] + 1 ELSE owed[id]
      BY <2>4 DEF TypeOK
    <3> QED
      BY <1>0, <3>1, <3>2
  <2>8. m.k # "remove" /\ m.cmd \in ClientCmds
    BY <2>3 DEF ClientCmds
  <2> QED
    BY <2>2, <2>4, <2>5, <2>6, <2>7, <2>8, AccountPost
<1>5. ASSUME NEW m \in Messages, PostCommand(m), UNCHANGED clientVars,
             m.k \in {"update", "stop"}, m.cmd \in ClientCmds, m.id \in Ids,
             owed' = [owed EXCEPT ![m.id] = @ + 1]
      PROVE  Entitlement' /\ Balanced'
  <2>1. api' = api /\ owner' = owner /\ nextId' = nextId
    BY <1>5 DEF clientVars
  <2>2. \A id \in Ids : owed[id] + (IF m \in Dues(id) THEN 1 ELSE 0) <= owed'[id]
    <3> SUFFICES ASSUME NEW id \in Ids
                 PROVE  owed[id] + (IF m \in Dues(id) THEN 1 ELSE 0) <= owed'[id]
      OBVIOUS
    <3>1. m \in Dues(id) => id = m.id
      BY DEF Dues
    <3>2. owed'[id] = IF id = m.id THEN owed[id] + 1 ELSE owed[id]
      BY <1>5 DEF TypeOK
    <3> QED
      BY <1>0, <3>1, <3>2
  <2>3. /\ m.k # "remove"
        /\ \A i \in Ids : i >= nextId' => owner'[i] = NoClient
    BY <1>0, <1>5, <2>1
  <2> QED
    BY <1>5, <2>1, <2>2, <2>3, AccountPost
<1>6. ASSUME NEW c \in Clients, NEW id \in Ids, NEW o \in Requests, UpdateTrackingOptions(c, id, o)
      PROVE  Entitlement' /\ Balanced'
  <2> DEFINE m == Msg("update", c, id, o, "update")
  <2>1. m \in Messages
    BY MsgType, ConstantsAssumption DEF CommandKinds, Cmds
  <2>2. m.k = "update" /\ m.cmd = "update" /\ m.id = id
    BY DEF Msg
  <2>3. PostCommand(m) /\ UNCHANGED clientVars /\ owed' = [owed EXCEPT ![id] = @ + 1]
    BY <1>6 DEF UpdateTrackingOptions
  <2> HIDE DEF m
  <2> QED
    BY <1>5, <2>1, <2>2, <2>3 DEF ClientCmds
<1>7. ASSUME NEW c \in Clients, NEW id \in Ids, StopTracking(c, id)
      PROVE  Entitlement' /\ Balanced'
  <2> DEFINE m == Msg("stop", c, id, NoOptions, "stop")
  <2>1. m \in Messages
    BY MsgType DEF CommandKinds, Cmds, OptionsKinds
  <2>2. m.k = "stop" /\ m.cmd = "stop" /\ m.id = id
    BY DEF Msg
  <2>3. PostCommand(m) /\ UNCHANGED clientVars /\ owed' = [owed EXCEPT ![id] = @ + 1]
    BY <1>7 DEF StopTracking
  <2> HIDE DEF m
  <2> QED
    BY <1>5, <2>1, <2>2, <2>3 DEF ClientCmds
<1>8. CASE ObservePower \/ ChangeConfig
  <2>1. PICK k \in {"observe", "config"} : PostCommand(Plain(k))
    BY <1>8 DEF ObservePower, ChangeConfig
  <2>2. UNCHANGED <<clientVars, historyVars>>
    BY <1>8 DEF ObservePower, ChangeConfig
  <2> DEFINE m == Plain(k)
  <2>3. m \in Messages
    BY <2>1 DEF Plain, Msg, Messages, CommandKinds, ClientKinds, SessionKinds, ReplyKinds,
           OptionsKinds, Cmds
  <2>4. m.k = k /\ m.cmd = "none" /\ m.k # "remove"
    BY <2>1 DEF Plain, Msg
  <2>5. UNCHANGED <<owner, nextId, owed>> /\ api' = api
    BY <2>2 DEF clientVars, historyVars
  <2> HIDE DEF m
  <2> QED
    BY <1>1, <2>1, <2>3, <2>4, <2>5 DEF m
<1> QED
  BY <1>2, <1>3, <1>4, <1>6, <1>7, <1>8 DEF ClientStep

\* The LocApi thread turns a request into its answer.
LEMMA AccountLocApi ==
  ASSUME TypeOK, TypeOK', Entitlement, Balanced, LocApiStep \/ ModemReset
  PROVE  Entitlement' /\ Balanced'
<1>0. UNCHANGED <<clientVars, pending, sweep, historyVars>>
  BY DEF LocApiStep, OpenLink, Serve, ModemReset, EngineKeeps
<1>1. apiQ \in Seq(EntitledCalls) /\ msgQ \in Seq(Entitled)
  BY DEF Entitlement
<1>2. CASE ModemReset
  <2>1. msgQ' = msgQ /\ Request(<<Open>>) /\ owed' = owed
    BY <1>0, <1>2 DEF ModemReset, historyVars
  <2>2. <<Open>> \in Seq(FreeCalls)
    BY FreeIgnore
  <2>3. <<Open>> \in Seq(EntitledCalls) /\ \A id : Count(<<Open>>, DueCalls(id)) = 0
    BY <2>2, FreeCost
  <2>4. sweep'.k = "remove" => /\ api[sweep'.client] = "gone"
                               /\ \A i \in sweep'.left : owner[i] = sweep'.client
    BY <1>0 DEF Entitlement
  <2> QED
    BY <1>0, <2>1, <2>3, <2>4, AsideStep
<1>3. ASSUME NEW m \in Entitled, apiQ # << >>, apiQ' = Tail(apiQ),
             msgQ' = Append(msgQ, m) \/ msgQ' = msgQ,
             \A id \in Ids : m \in Dues(id) => Head(apiQ) \in DueCalls(id)
      PROVE  Entitlement' /\ Balanced'
  <2>1. msgQ' \in Seq(Entitled) /\ apiQ' \in Seq(EntitledCalls)
    <3>1. Append(msgQ, m) \in Seq(Entitled)
      BY <1>1, AppendProperties
    <3>2. Tail(apiQ) \in Seq(EntitledCalls)
      BY <1>1, <1>3, HeadTailProperties
    <3> QED
      BY <1>1, <1>3, <3>1, <3>2
  <2>2. Entitlement'
    BY <1>0, <2>1, SameClients DEF Entitlement, clientVars
  <2>3. ASSUME NEW id \in Ids, ~Gone(id) PROVE InFlight(id)' <= owed'[id]
    <3>1. InFlight(id) <= owed[id] /\ owed'[id] = owed[id] /\ owed[id] \in Int
      BY <1>0, <2>3 DEF Balanced, historyVars, TypeOK
    <3>2. Count(apiQ, DueCalls(id))
            = Count(apiQ', DueCalls(id)) + IF Head(apiQ) \in DueCalls(id) THEN 1 ELSE 0
      BY <1>3, CountTail DEF TypeOK
    <3>3. \/ Count(msgQ', Dues(id)) = Count(msgQ, Dues(id)) + IF m \in Dues(id) THEN 1 ELSE 0
          \/ Count(msgQ', Dues(id)) = Count(msgQ, Dues(id))
      <4>1. Count(Append(msgQ, m), Dues(id))
              = Count(msgQ, Dues(id)) + IF m \in Dues(id) THEN 1 ELSE 0
        BY <1>1, CountAppend
      <4> QED
        BY <1>3, <4>1
    <3>4. /\ Count(msgQ, Dues(id)) \in Nat /\ Count(pending, Dues(id)) \in Nat
          /\ Count(apiQ, DueCalls(id)) \in Nat /\ Count(apiQ', DueCalls(id)) \in Nat
      BY FlightType, AmongFinite DEF TypeOK
    <3>5. InFlight(id)' = Count(msgQ', Dues(id)) + Count(pending, Dues(id))
                            + Count(apiQ', DueCalls(id))
      BY <1>0 DEF InFlight
    <3>6. CASE m \in Dues(id)
      <4>1. Head(apiQ) \in DueCalls(id)
        BY <1>3, <3>6
      <4> QED
        BY <3>1, <3>2, <3>3, <3>4, <3>5, <3>6, <4>1 DEF InFlight
    <3>7. CASE m \notin Dues(id)
      BY <3>1, <3>2, <3>3, <3>4, <3>5, <3>7 DEF InFlight
    <3> QED
      BY <3>6, <3>7
  <2> QED
    BY <1>0, <2>2, <2>3, SameClients DEF Balanced
<1>4. CASE OpenLink
  <2> DEFINE m == Plain("engineUp")
  <2>1. m \in Messages
    BY DEF Plain, Msg, Messages, CommandKinds, ClientKinds, SessionKinds, ReplyKinds,
           OptionsKinds, Cmds
  <2>2. m.k = "engineUp" /\ m.cmd = "none"
    BY DEF Plain, Msg
  <2>3. apiQ # << >> /\ apiQ' = Tail(apiQ) /\ msgQ' = Append(msgQ, m)
    BY <1>4 DEF OpenLink, Post
  <2> HIDE DEF m
  <2>4. m \in Entitled /\ \A id : m \notin Dues(id)
    BY <2>1, <2>2 DEF Entitled, Dues, ClientCmds, SessionKinds, ReplyKinds
  <2> QED
    BY <1>3, <2>3, <2>4
<1>5. ASSUME NEW ok \in BOOLEAN, Serve(ok) PROVE Entitlement' /\ Balanced'
  <2> DEFINE call == Head(apiQ)
             m    == [call.reply EXCEPT !.ok = ok]
  <2>1. call \in EntitledCalls /\ call \in ApiCalls /\ apiQ # << >> /\ apiQ' = Tail(apiQ)
    BY <1>1, <1>5, HeadTailProperties DEF Serve, EntitledCalls
  <2>2. call.reply \in Messages /\ call.reply.k \in ReplyKinds
    BY <2>1 DEF ApiCalls
  <2>3. msgQ' = IF call.reply.k = "ignore" THEN msgQ ELSE Append(msgQ, m)
    BY <1>5 DEF Serve, Post
  <2>4. m \in Messages /\ m.k = call.reply.k /\ m.id = call.reply.id /\ m.cmd = call.reply.cmd
    BY <2>2 DEF Messages
  <2> HIDE DEF m
  <2>5. m.k # "remove"
    BY <2>2, <2>4 DEF ReplyKinds
  <2>6. m.k = "ignore" \/ m.cmd \in ClientCmds \/ Gone(m.id)
    BY <2>1, <2>4 DEF EntitledCalls
  <2>7. m \in Entitled
    BY <2>4, <2>5, <2>6 DEF Entitled, SessionKinds
  <2>8. \A id \in Ids : m \in Dues(id) => call \in DueCalls(id)
    BY <2>1, <2>2, <2>4 DEF Dues, DueCalls
  <2>9. msgQ' = Append(msgQ, m) \/ msgQ' = msgQ
    BY <2>3
  <2> QED
    BY <1>3, <2>1, <2>7, <2>8, <2>9
<1> QED
  BY <1>2, <1>4, <1>5 DEF LocApiStep

LEMMA AccountNext == TypeOK /\ TypeOK' /\ Entitlement /\ Balanced /\ [Next]_vars
                       => Entitlement' /\ Balanced'
<1> SUFFICES ASSUME TypeOK, TypeOK', Entitlement, Balanced, [Next]_vars
             PROVE  Entitlement' /\ Balanced'
  OBVIOUS
<1>1. CASE UNCHANGED vars
  <2>1. UNCHANGED <<clientVars, msgQ, pending, sweep, apiQ, historyVars>>
    BY <1>1 DEF vars
  <2>2. \A id : InFlight(id)' = InFlight(id)
    BY <2>1 DEF InFlight
  <2>3. Entitlement'
    BY <2>1, SameClients DEF Entitlement, clientVars
  <2> QED
    BY <2>1, <2>2, <2>3, SameClients DEF Balanced, historyVars
<1>2. CASE Next
  BY <1>2, AccountClient, AccountLocApi, AccountAnswer, AccountPlan, AccountDistance,
     AccountRestart, AccountSweep, AccountPostpone
  DEF Next, AdapterStep
<1> QED
  BY <1>1, <1>2

LEMMA AccountInit == Init => Entitlement /\ Balanced
<1> SUFFICES ASSUME Init PROVE Entitlement /\ Balanced
  OBVIOUS
<1>1. Open \in FreeCalls
  BY FreeIgnore
<1>2. /\ apiQ = <<Open>> /\ <<Open>> \in Seq(FreeCalls)
      /\ msgQ = << >> /\ pending = << >>
      /\ owed = [i \in Ids |-> 0] /\ owner = [i \in Ids |-> NoClient]
      /\ sweep.k # "remove"
  BY <1>1 DEF Init, Idling
<1>3. apiQ \in Seq(EntitledCalls) /\ \A id : Count(apiQ, DueCalls(id)) = 0
  BY <1>2, FreeCost
<1>4. \A id : Count(msgQ, Dues(id)) = 0 /\ Count(pending, Dues(id)) = 0
  BY <1>2, CountEmpty
<1>5. \A id \in Ids : InFlight(id) <= owed[id]
  BY <1>2, <1>3, <1>4 DEF InFlight
<1> QED
  BY <1>2, <1>3, <1>5 DEF Entitlement, Balanced

\* No client that stays is answered more often than it gave commands, with any
\* number of clients, sessions and messages and whatever the engine refuses:
\* every answer uses up a command, a postponed command, a request or a reply
\* that was in flight for it.
THEOREM NoUnaskedAnswers == Spec => []AnswersMatchCommands
<1>1. TypeOK /\ Balanced => AnswersMatchCommands
  <2> SUFFICES ASSUME TypeOK, Balanced, NEW id \in Ids, owed[id] < 0 PROVE Gone(id)
    BY DEF AnswersMatchCommands, Gone
  <2>1. InFlight(id) \in Nat /\ owed[id] \in Int
    BY FlightType DEF TypeOK
  <2> QED
    BY <2>1 DEF Balanced
<1> QED
  BY <1>1, AccountInit, AccountNext, TypeCorrect, PTL DEF Spec


-----------------------------------------------------------------------------
(* Service: the engine runs at least as often as every session asks.       *)
(*                                                                         *)
(* What counts is the state the engine will have when it has served the    *)
(* requests on their way.  A handler keeps it fast enough for the sessions *)
(* it saves, or makes the request that does.  A reset of the modem breaks  *)
(* this; until the engine is back the adapter is restarting, and then      *)
(* starts it for all sessions.  That comes after every refused update,     *)
(* whose handler restores an older interval without a request.             *)
(*                                                                         *)
(* The engine must not refuse requests at will (~MayFail), or it would not *)
(* run at all, and must know distance based tracking: if it does not, a    *)
(* switch to it stops the engine and files the session as time based.      *)

\* Requests that change the time based session of the engine.
Drives(call) == call.op \in {"startTime", "stopFix"}

\* When the requests q are served, an engine in state e runs, at least once in b.
RunsAt(q, e, b) ==
  \/ \E n \in DOMAIN q : /\ q[n].op = "startTime" /\ q[n].opts.interval <= b
                         /\ \A m \in DOMAIN q : m > n => ~Drives(q[m])
  \/ /\ \A n \in DOMAIN q : ~Drives(q[n])
     /\ e.on /\ e.interval <= b

\* The engine will come up, or has, and its message is still to be handled.
Opening(q)    == \E n \in DOMAIN q : q[n].op = "open"
Rising(q)     == \E n \in DOMAIN q : q[n].k = "engineUp"
Restarting    == Opening(apiQ) \/ Rising(msgQ)

\* Behind every refused update comes the message that restarts all sessions.
Refused(m)  == m.k = "restore" /\ ~m.ok
Redeemed(q) == \A n \in DOMAIN q :
                 Refused(q[n]) => \E m \in DOMAIN q : m > n /\ q[m].k = "engineUp"

\* Replies carry the options their handlers count on.
FitMessages == {m \in Messages : /\ m.k = "switchToTime" => /\ m.opts.interval >= MinInterval
                                                              /\ ~m.opts.distance
                                 /\ m.k \in {"distRestart", "distSave"} => m.opts.distance}
FitCalls    == {call \in ApiCalls : call.reply \in FitMessages}
Waiting     == {m \in FitMessages : m.k \in {"start", "update"}}

Staged ==
  /\ link = "down" => Opening(apiQ)
  /\ Opening(apiQ) \/ Redeemed(msgQ)
  /\ msgQ \in Seq(FitMessages)
  /\ pending \in Seq(Waiting)
  /\ apiQ \in Seq(FitCalls)
  /\ spe => nhz

\* What the sessions of S ask.
Intervals(S) == {sessions.time[i].interval : i \in S}

Asked == Intervals(TimeIds)

Runs == /\ \A b \in Asked : RunsAt(apiQ, engine, b)
        /\ spe => RunsAt(apiQ, engine, MinInterval)

\* The inductive invariant is Staged /\ Served.
Served == Restarting \/ Runs

-----------------------------------------------------------------------------
(* Queues *)

LEMMA RunsAppend ==
  ASSUME NEW X, NEW q \in Seq(X), NEW e, NEW b, NEW call \in X
  PROVE  /\ RunsAt(q, e, b) /\ ~Drives(call) => RunsAt(Append(q, call), e, b)
         /\ call.op = "startTime" /\ call.opts.interval <= b => RunsAt(Append(q, call), e, b)
<1> DEFINE r == Append(q, call)
<1>1. /\ DOMAIN r = 1 .. Len(q) + 1 /\ Len(q) \in Nat /\ DOMAIN q = 1 .. Len(q)
      /\ \A n \in 1 .. Len(q) : r[n] = q[n]
      /\ r[Len(q) + 1] = call
  BY AppendProperties
<1> HIDE DEF r
<1>2. ASSUME RunsAt(q, e, b), ~Drives(call) PROVE RunsAt(r, e, b)
  <2>1. ASSUME NEW n \in DOMAIN q, q[n].op = "startTime", q[n].opts.interval <= b,
               \A m \in DOMAIN q : m > n => ~Drives(q[m])
        PROVE  RunsAt(r, e, b)
    <3>1. n \in DOMAIN r /\ r[n].op = "startTime" /\ r[n].opts.interval <= b
      BY <1>1, <2>1
    <3>2. \A m \in DOMAIN r : m > n => ~Drives(r[m])
      BY <1>1, <1>2, <2>1
    <3> QED
      BY <3>1, <3>2 DEF RunsAt
  <2>2. ASSUME \A n \in DOMAIN q : ~Drives(q[n]), e.on, e.interval <= b
        PROVE  RunsAt(r, e, b)
    <3>1. \A n \in DOMAIN r : ~Drives(r[n])
      BY <1>1, <1>2, <2>2
    <3> QED
      BY <2>2, <3>1 DEF RunsAt
  <2> QED
    BY <1>2, <2>1, <2>2 DEF RunsAt
<1>3. ASSUME call.op = "startTime", call.opts.interval <= b PROVE RunsAt(r, e, b)
  <2>1. \A m \in DOMAIN r : ~(m > Len(q) + 1)
    BY <1>1
  <2> QED
    BY <1>1, <1>3, <2>1 DEF RunsAt
<1> QED
  BY <1>2, <1>3 DEF r

LEMMA RunsTail ==
  ASSUME NEW X, NEW q \in Seq(X), q # << >>, NEW e, NEW f, NEW b, RunsAt(q, e, b),
         \/ f = e /\ ~Drives(Head(q))
         \/ /\ Head(q).op = "startTime"
            /\ f.on /\ f.interval = Head(q).opts.interval
         \/ Head(q).op = "stopFix"
  PROVE  RunsAt(Tail(q), f, b)
<1> DEFINE r == Tail(q)
<1>1. /\ Len(q) \in Nat \ {0} /\ Len(r) = Len(q) - 1 /\ DOMAIN q = 1 .. Len(q)
      /\ DOMAIN r = 1 .. Len(q) - 1
      /\ \A n \in 1 .. Len(q) - 1 : r[n] = q[n + 1]
      /\ Head(q) = q[1]
  BY HeadTailProperties
<1> HIDE DEF r
<1>2. ASSUME NEW n \in DOMAIN q, q[n].op = "startTime", q[n].opts.interval <= b,
             \A m \in DOMAIN q : m > n => ~Drives(q[m])
      PROVE  RunsAt(r, f, b)
  <2>1. CASE n = 1
    <3>1. \A m \in DOMAIN r : ~Drives(r[m])
      BY <1>1, <1>2, <2>1
    <3>2. Drives(Head(q)) /\ Head(q).op # "stopFix"
      BY <1>1, <1>2, <2>1 DEF Drives
    <3>3. f.on /\ f.interval = q[n].opts.interval
      BY <1>1, <2>1, <3>2
    <3> QED
      BY <1>2, <3>1, <3>3 DEF RunsAt
  <2>2. CASE n # 1
    <3>1. n - 1 \in DOMAIN r /\ r[n - 1] = q[n]
      BY <1>1, <2>2
    <3>2. \A m \in DOMAIN r : m > n - 1 => ~Drives(r[m])
      BY <1>1, <1>2
    <3> QED
      BY <1>2, <3>1, <3>2 DEF RunsAt
  <2> QED
    BY <2>1, <2>2
<1>3. ASSUME \A n \in DOMAIN q : ~Drives(q[n]), e.on, e.interval <= b
      PROVE  RunsAt(r, f, b)
  <2>1. \A m \in DOMAIN r : ~Drives(r[m])
    BY <1>1, <1>3
  <2>2. ~Drives(Head(q)) /\ Head(q).op # "startTime" /\ Head(q).op # "stopFix"
    BY <1>1, <1>3 DEF Drives
  <2> QED
    BY <1>3, <2>1, <2>2 DEF RunsAt
<1> QED
  BY <1>2, <1>3 DEF RunsAt, r

LEMMA OpeningKept ==
  ASSUME NEW X, NEW q \in Seq(X), Opening(q)
  PROVE  /\ \A s \in Seq(X) : Opening(q \o s)
         /\ q # << >> /\ Head(q).op # "open" => Opening(Tail(q))
<1>1. PICK n \in DOMAIN q : q[n].op = "open"
  BY DEF Opening
<1>2. ASSUME NEW s \in Seq(X) PROVE Opening(q \o s)
  <2>1. n \in DOMAIN (q \o s) /\ (q \o s)[n] = q[n]
    BY ConcatProperties
  <2> QED
    BY <1>1, <2>1 DEF Opening
<1>3. ASSUME q # << >>, Head(q).op # "open" PROVE Opening(Tail(q))
  <2>1. n # 1 /\ n \in 1 .. Len(q) /\ Len(q) \in Nat
    BY <1>1, <1>3
  <2>2. n - 1 \in DOMAIN Tail(q) /\ Tail(q)[n - 1] = q[n]
    BY <1>3, <2>1, HeadTailProperties
  <2> QED
    BY <1>1, <2>2 DEF Opening
<1> QED
  BY <1>2, <1>3

LEMMA OpeningLast ==
  ASSUME NEW X, NEW q \in Seq(X), NEW call \in X, call.op = "open"
  PROVE  Opening(q \o <<call>>)
<1>1. q \o <<call>> = Append(q, call)
  BY AppendIsConcat
<1>2. Append(q, call)[Len(q) + 1] = call /\ Len(q) + 1 \in DOMAIN Append(q, call)
  BY AppendProperties
<1> QED
  BY <1>1, <1>2 DEF Opening

LEMMA RisingKept ==
  ASSUME NEW X, NEW q \in Seq(X), Rising(q)
  PROVE  /\ \A s \in Seq(X) : Rising(q \o s)
         /\ \A m \in X : Rising(Append(q, m))
         /\ q # << >> /\ Head(q).k # "engineUp" => Rising(Tail(q))
<1>1. PICK n \in DOMAIN q : q[n].k = "engineUp"
  BY DEF Rising
<1>2. ASSUME NEW s \in Seq(X) PROVE Rising(q \o s)
  <2>1. n \in DOMAIN (q \o s) /\ (q \o s)[n] = q[n]
    BY ConcatProperties
  <2> QED
    BY <1>1, <2>1 DEF Rising
<1>3. ASSUME NEW m \in X PROVE Rising(Append(q, m))
  <2>1. n \in DOMAIN Append(q, m) /\ Append(q, m)[n] = q[n]
    BY AppendProperties
  <2> QED
    BY <1>1, <2>1 DEF Rising
<1>4. ASSUME q # << >>, Head(q).k # "engineUp" PROVE Rising(Tail(q))
  <2>1. n # 1 /\ n \in 1 .. Len(q) /\ Len(q) \in Nat
    BY <1>1, <1>4
  <2>2. n - 1 \in DOMAIN Tail(q) /\ Tail(q)[n - 1] = q[n]
    BY <1>4, <2>1, HeadTailProperties
  <2> QED
    BY <1>1, <2>2 DEF Rising
<1> QED
  BY <1>2, <1>3, <1>4

LEMMA RedeemedAppend ==
  ASSUME NEW X, NEW q \in Seq(X), NEW m \in X
  PROVE  /\ m.k = "engineUp" => Rising(Append(q, m)) /\ Redeemed(Append(q, m))
         /\ Redeemed(q) /\ ~Refused(m) => Redeemed(Append(q, m))
<1> DEFINE r == Append(q, m)
<1>1. /\ DOMAIN r = 1 .. Len(q) + 1 /\ Len(q) \in Nat /\ DOMAIN q = 1 .. Len(q)
      /\ \A n \in 1 .. Len(q) : r[n] = q[n]
      /\ r[Len(q) + 1] = m
  BY AppendProperties
<1> HIDE DEF r
<1>2. ASSUME m.k = "engineUp" PROVE Rising(r) /\ Redeemed(r)
  <2>1. Len(q) + 1 \in DOMAIN r /\ r[Len(q) + 1].k = "engineUp"
    BY <1>1, <1>2
  <2>2. ASSUME NEW n \in DOMAIN r, Refused(r[n]) PROVE Len(q) + 1 > n
    <3>1. n # Len(q) + 1
      BY <2>1, <2>2 DEF Refused
    <3> QED
      BY <1>1, <3>1
  <2> QED
    BY <2>1, <2>2 DEF Rising, Redeemed
<1>3. ASSUME Redeemed(q), ~Refused(m), NEW n \in DOMAIN r, Refused(r[n])
      PROVE  \E j \in DOMAIN r : j > n /\ r[j].k = "engineUp"
  <2>1. n \in DOMAIN q /\ Refused(q[n])
    BY <1>1, <1>3
  <2>2. PICK j \in DOMAIN q : j > n /\ q[j].k = "engineUp"
    BY <1>3, <2>1 DEF Redeemed
  <2> QED
    BY <1>1, <2>2
<1> QED
  BY <1>2, <1>3 DEF Redeemed, r

LEMMA RedeemedTail ==
  ASSUME NEW X, NEW q \in Seq(X), q # << >>, Redeemed(q)
  PROVE  Redeemed(Tail(q)) /\ (Refused(Head(q)) => Rising(Tail(q)))
<1> DEFINE r == Tail(q)
<1>1. /\ Len(q) \in Nat \ {0} /\ DOMAIN q = 1 .. Len(q) /\ DOMAIN r = 1 .. Len(q) - 1
      /\ \A n \in 1 .. Len(q) - 1 : r[n] = q[n + 1]
      /\ Head(q) = q[1]
  BY HeadTailProperties
<1> HIDE DEF r
<1>2. ASSUME NEW n \in DOMAIN r, Refused(r[n])
      PROVE  \E j \in DOMAIN r : j > n /\ r[j].k = "engineUp"
  <2>1. n + 1 \in DOMAIN q /\ Refused(q[n + 1])
    BY <1>1, <1>2
  <2>2. PICK j \in DOMAIN q : j > n + 1 /\ q[j].k = "engineUp"
    BY <2>1 DEF Redeemed
  <2>3. j - 1 \in DOMAIN r /\ j - 1 > n /\ r[j - 1] = q[j]
    BY <1>1, <1>2, <2>2
  <2> QED
    BY <2>2, <2>3
<1>3. ASSUME Refused(Head(q)) PROVE Rising(r)
  <2>1. PICK j \in DOMAIN q : j > 1 /\ q[j].k = "engineUp"
    BY <1>1, <1>3 DEF Redeemed
  <2>2. j - 1 \in DOMAIN r /\ r[j - 1] = q[j]
    BY <1>1, <2>1
  <2> QED
    BY <2>1, <2>2 DEF Rising
<1> QED
  BY <1>2, <1>3 DEF Redeemed, r

LEMMA RedeemedConcat ==
  ASSUME NEW X, NEW q \in Seq(X), Redeemed(q), NEW s \in Seq(X),
         \A n \in DOMAIN s : ~Refused(s[n])
  PROVE  Redeemed(q \o s)
<1> DEFINE r == q \o s
<1>1. /\ DOMAIN r = 1 .. Len(q) + Len(s) /\ Len(q) \in Nat /\ Len(s) \in Nat
      /\ DOMAIN q = 1 .. Len(q) /\ DOMAIN s = 1 .. Len(s)
      /\ \A n \in 1 .. Len(q) : r[n] = q[n]
      /\ \A n \in 1 .. Len(s) : r[Len(q) + n] = s[n]
  BY ConcatProperties
<1> HIDE DEF r
<1>2. ASSUME NEW n \in DOMAIN r, Refused(r[n])
      PROVE  \E j \in DOMAIN r : j > n /\ r[j].k = "engineUp"
  <2>1. n \in DOMAIN q
    <3>1. ASSUME n > Len(q) PROVE FALSE
      <4>1. n - Len(q) \in DOMAIN s /\ n = Len(q) + (n - Len(q))
        BY <1>1, <3>1
      <4>2. r[n] = s[n - Len(q)]
        BY <1>1, <4>1
      <4> QED
        BY <1>2, <4>1, <4>2
    <3> QED
      BY <1>1, <3>1
  <2>2. PICK j \in DOMAIN q : j > n /\ q[j].k = "engineUp"
    BY <1>1, <1>2, <2>1 DEF Redeemed
  <2> QED
    BY <1>1, <2>2
<1> QED
  BY <1>2 DEF Redeemed, r
-----------------------------------------------------------------------------
(* What the plans make of the engine.  B is the set of intervals that the  *)
(* sessions ask once the handler is done.                                  *)

\* No call, because the engine is already fast enough ...
Keeps(plan, B) ==
  /\ plan.calls = << >> /\ plan.spe = spe
  /\ \A b \in B : (spe /\ b >= MinInterval) \/ \E i \in TimeIds : sessions.time[i].interval <= b

\* ... or a call that makes it so.
Starting(plan, B) ==
  \E call \in FitCalls : /\ plan.calls = <<call>>
                         /\ call.op = "startTime"
                         /\ \A b \in B : call.opts.interval <= b
                         /\ plan.spe => call.opts.interval <= MinInterval
Ending(plan, B) == B = {} /\ ~plan.spe /\ plan.calls \in Seq(FitCalls)

Steers(plan, B) ==
  /\ Keeps(plan, B) \/ Starting(plan, B) \/ Ending(plan, B)
  /\ plan.spe => nhz

FitReply(reply) == reply \in FitMessages /\ reply.k \in ReplyKinds

LEMMA NumberFacts ==
  ASSUME TypeOK
  PROVE  /\ MinInterval \in Nat
         /\ \A i \in TimeIds : sessions.time[i].interval \in Nat
         /\ \A o \in Options : o.interval \in Nat
         /\ \A S : S \subseteq TimeIds => Intervals(S) \subseteq Nat
BY SessionType, ConstantsAssumption DEF Options, Intervals

\* What Run asks when it does not skip the call.
LEMMA RunCall ==
  ASSUME NEW need \in BOOLEAN, NEW flag \in BOOLEAN, ~(need /\ flag), NEW o \in Options,
         NEW reply, FitReply(reply)
  PROVE  \E call \in FitCalls :
           /\ Run(need, flag, o, reply).calls = <<call>>
           /\ call.op = "startTime"
           /\ call.opts.interval <= o.interval
           /\ Run(need, flag, o, reply).spe /\ ~flag => /\ need
                                                        /\ call.opts.interval <= MinInterval
<1> DEFINE raise == need /\ ~flag /\ o.interval > MinInterval
           o2    == [o EXCEPT !.interval = IF raise THEN MinInterval ELSE @]
           call  == Call("startTime", o2, reply)
<1>0. MinInterval \in Nat /\ o.interval \in Nat
  BY ConstantsAssumption DEF Options
<1>1. o2 \in Options /\ o2.interval <= o.interval /\ (raise => o2.interval <= MinInterval)
  BY <1>0 DEF Options
<1> HIDE DEF o2
<1>2. call \in FitCalls /\ call.op = "startTime" /\ call.opts = o2
  BY <1>1 DEF Call, FitCalls, FitReply, FitMessages, ApiCalls, Ops
<1>3. /\ Run(need, flag, o, reply).calls = <<call>>
      /\ Run(need, flag, o, reply).spe = (flag \/ raise)
  BY DEF Run, o2
<1> HIDE DEF call
<1> QED
  BY <1>1, <1>2, <1>3

LEMMA SteersRun ==
  ASSUME TypeOK, spe => nhz, NEW o \in Options, NEW reply, FitReply(reply),
         NEW B, B \subseteq Nat, \A b \in B : o.interval <= b,
         \A b \in B : b >= MinInterval \/ \E i \in TimeIds : sessions.time[i].interval <= b
  PROVE  Steers(Run(nhz, spe, o, reply), B)
<1>0. nhz \in BOOLEAN /\ spe \in BOOLEAN
  BY DEF TypeOK
<1>1. CASE nhz /\ spe
  <2>1. Run(nhz, spe, o, reply).calls = << >> /\ Run(nhz, spe, o, reply).spe = spe
    BY <1>1 DEF Run
  <2> QED
    BY <1>1, <2>1 DEF Steers, Keeps
<1>2. CASE ~spe
  <2>1. PICK call \in FitCalls :
          /\ Run(nhz, spe, o, reply).calls = <<call>>
          /\ call.op = "startTime"
          /\ call.opts.interval <= o.interval
          /\ Run(nhz, spe, o, reply).spe => nhz /\ call.opts.interval <= MinInterval
    BY <1>0, <1>2, RunCall
  <2>2. call.opts.interval \in Nat
    BY <2>1 DEF FitCalls, ApiCalls, Options
  <2>3. \A b \in B : call.opts.interval <= b
    BY <2>1, <2>2 DEF Options
  <2> QED
    BY <2>1, <2>3 DEF Steers, Starting
<1> QED
  BY <1>0, <1>1, <1>2

LEMMA SteersIdle ==
  ASSUME TypeOK, spe => nhz, NEW B,
         \A b \in B : \E i \in TimeIds : sessions.time[i].interval <= b
  PROVE  Steers(Idle, B)
BY DEF Steers, Keeps, Idle, NoCall

\* Some session asks what the fastest of them asks.
LEMMA OwnInterval ==
  ASSUME TypeOK, NEW S, S \subseteq TimeIds
  PROVE  \A b \in Intervals(S) : \E i \in TimeIds : sessions.time[i].interval <= b
BY NumberFacts DEF Intervals

LEMMA SteersJoin ==
  ASSUME TypeOK, spe => nhz, NEW S, S \subseteq TimeIds, NEW o \in Options,
         o.interval >= MinInterval, NEW reply, FitReply(reply)
  PROVE  \A plan \in JoinPlans(S, o, reply) : Steers(plan, Intervals(S) \cup {o.interval})
<1> DEFINE B == Intervals(S) \cup {o.interval}
<1> SUFFICES ASSUME NEW i \in Fastest(S), NEW p \in MuxPowers(S)
             PROVE  Steers(IF o.interval < sessions.time[i].interval \/ o.power < p
                           THEN Run(nhz, spe, Joined(o, i, p), reply)
                           ELSE Idle, B)
  BY DEF JoinPlans
<1>1. i \in S /\ i \in TimeIds /\ p \in Nat
  BY PowersType DEF Fastest
<1>2. /\ \A b \in Intervals(S) : sessions.time[i].interval <= b
      /\ sessions.time[i].interval \in Nat /\ o.interval \in Nat /\ B \subseteq Nat
  BY <1>1, NumberFacts DEF Fastest, Intervals
<1>3. CASE o.interval < sessions.time[i].interval \/ o.power < p
  <2>1. Joined(o, i, p) \in Options
    BY <1>1, JoinedType
  <2>2. Joined(o, i, p).interval = IF o.interval < sessions.time[i].interval
                                   THEN o.interval ELSE sessions.time[i].interval
    BY <1>1, SessionType DEF Joined, Options
  <2>3. \A b \in B : Joined(o, i, p).interval <= b
    BY <1>2, <2>2, NumberFacts
  <2>4. \A b \in B : b >= MinInterval \/ \E j \in TimeIds : sessions.time[j].interval <= b
    BY OwnInterval
  <2>5. Steers(Run(nhz, spe, Joined(o, i, p), reply), B)
    BY <1>2, <2>1, <2>3, <2>4, SteersRun
  <2> QED
    BY <1>3, <2>5
<1>4. CASE ~(o.interval < sessions.time[i].interval \/ o.power < p)
  <2>1. sessions.time[i].interval <= o.interval
    BY <1>2, <1>4
  <2>2. Steers(Idle, B)
    BY <1>1, <2>1, OwnInterval, SteersIdle
  <2> QED
    BY <1>4, <2>2
<1> QED
  BY <1>3, <1>4

LEMMA SteersStart ==
  ASSUME TypeOK, spe => nhz, NEW o \in Options, o.interval >= MinInterval,
         NEW reply, FitReply(reply)
  PROVE  \A plan \in StartPlans(o, reply) :
           Steers(plan, Intervals(TimeIds) \cup {o.interval})
<1>1. CASE TimeIds = {}
  <2>1. Intervals(TimeIds) \cup {o.interval} = {o.interval}
    BY <1>1 DEF Intervals
  <2>2. o.interval \in Nat
    BY NumberFacts
  <2>3. Steers(Run(nhz, spe, o, reply), {o.interval})
    BY <2>2, SteersRun
  <2> QED
    BY <1>1, <2>1, <2>3 DEF StartPlans
<1>2. CASE TimeIds # {}
  BY <1>2, SteersJoin DEF StartPlans
<1> QED
  BY <1>1, <1>2

LEMMA SteersUpdate ==
  ASSUME TypeOK, spe => nhz, NEW id \in TimeIds, NEW o \in Options,
         o.interval >= MinInterval, NEW reply, FitReply(reply)
  PROVE  \A plan \in UpdatePlans(id, o, reply) :
           Steers(plan, Intervals(TimeIds \ {id}) \cup {o.interval})
<1> DEFINE B == Intervals(TimeIds \ {id}) \cup {o.interval}
<1> SUFFICES ASSUME NEW plan \in UpdatePlans(id, o, reply) PROVE Steers(plan, B)
  OBVIOUS
<1>1. CASE sessions.time[id].interval = o.interval /\ sessions.time[id].power = o.power
  <2>1. plan = Idle
    BY <1>1 DEF UpdatePlans
  <2>2. \A b \in B : \E i \in TimeIds : sessions.time[i].interval <= b
    BY <1>1, OwnInterval, NumberFacts
  <2> QED
    BY <2>1, <2>2, SteersIdle
<1>2. CASE ~(sessions.time[id].interval = o.interval /\ sessions.time[id].power = o.power)
  <2>1. CASE TimeIds = {id}
    <3>1. B = {o.interval} /\ o.interval \in Nat
      BY <2>1, NumberFacts DEF Intervals
    <3>2. plan = Run(nhz, spe, o, reply)
      BY <1>2, <2>1 DEF UpdatePlans
    <3> QED
      BY <3>1, <3>2, SteersRun
  <2>2. CASE TimeIds # {id}
    <3>1. plan \in JoinPlans(TimeIds \ {id}, o, reply)
      BY <1>2, <2>2 DEF UpdatePlans
    <3> QED
      BY <3>1, SteersJoin
  <2> QED
    BY <2>1, <2>2
<1> QED
  BY <1>1, <1>2

\* The replies of stops and starts carry no options.
LEMMA FitPlainReply ==
  ASSUME NEW c \in Clients, NEW id \in Ids, NEW cmd \in Cmds,
         NEW k \in {"started", "report", "distStopped", "distSwept"}
  PROVE  FitReply(Msg(k, c, id, NoOptions, cmd))
<1> DEFINE reply == Msg(k, c, id, NoOptions, cmd)
<1>1. reply \in Messages /\ reply.k = k
  BY ReplyType DEF ReplyKinds, OptionsKinds
<1> HIDE DEF reply
<1>2. reply \in FitMessages
  BY <1>1 DEF FitMessages
<1>3. reply.k \in ReplyKinds
  BY <1>1 DEF ReplyKinds
<1> QED
  BY <1>2, <1>3 DEF FitReply, reply

LEMMA FitIgnore ==
  /\ FitReply(Ignore)
  /\ Call("stopFix", NoOptions, Ignore) \in FitCalls
  /\ Open \in FitCalls
  /\ \A id \in Ids : StartDist(id, Ignore) \in FitCalls
<1>1. /\ Ignore \in FitMessages /\ Ignore \in Messages
      /\ Ignore.k = "ignore" /\ Ignore.k \in ReplyKinds
  BY IgnoreType DEF FitMessages, ReplyKinds
<1>2. /\ Call("stopFix", NoOptions, Ignore) \in FitCalls
      /\ Call("open", NoOptions, Ignore) \in FitCalls
  BY <1>1 DEF Call, FitCalls, ApiCalls, Ops
<1>3. ASSUME NEW id \in Ids PROVE StartDist(id, Ignore) \in FitCalls
  <2>1. StartDist(id, Ignore) \in ApiCalls
    BY <1>1, DistCallType
  <2>2. StartDist(id, Ignore).reply \in Messages
    BY <2>1 DEF ApiCalls
  <2>3. StartDist(id, Ignore).reply.k = "ignore"
    BY DEF StartDist, Call, Ignore, Msg
  <2> QED
    BY <2>1, <2>2, <2>3 DEF FitCalls, FitMessages
<1> QED
  BY <1>1, <1>2, <1>3 DEF FitReply, Open

LEMMA SteersStop ==
  ASSUME TypeOK, spe => nhz, NEW c \in Clients, NEW id \in TimeIds, NEW cmd \in Cmds
  PROVE  \A plan \in StopPlans(c, id, cmd) : Steers(plan, Intervals(TimeIds \ {id}))
<1> DEFINE others  == TimeIds \ {id}
           B       == Intervals(others)
           report  == Msg("report", c, id, NoOptions, cmd)
           started == Msg("started", c, id, NoOptions, cmd)
<1>1. id \in Ids /\ FitReply(report) /\ FitReply(started)
  BY SessionType, FitPlainReply
<1>2. CASE others = {}
  <2>1. B = {} /\ StopPlans(c, id, cmd) = {StopEngine(c, id, cmd)}
    BY <1>2 DEF Intervals, StopPlans
  <2> HIDE DEF report
  <2>2. Call("stopFix", NoOptions, report) \in FitCalls
    BY <1>1 DEF Call, FitCalls, FitReply, FitMessages, ApiCalls, Ops
  <2>3. StopEngine(c, id, cmd).calls \in Seq(FitCalls) /\ ~StopEngine(c, id, cmd).spe
    BY <2>2 DEF StopEngine, report
  <2> QED
    BY <2>1, <2>3 DEF Steers, Ending
<1>3. CASE others # {}
  <2> SUFFICES ASSUME NEW i \in Fastest(others), NEW p \in MuxPowers(others)
               PROVE  Steers(RunOthers(c, id, cmd, i, p), B)
    BY <1>3 DEF StopPlans
  <2>1. i \in TimeIds /\ i \in others /\ p \in Nat
    BY PowersType DEF Fastest
  <2>2. WithPower(i, p) \in Options /\ WithPower(i, p).interval = sessions.time[i].interval
    BY <2>1, WithPowerType, SessionType DEF WithPower, Options
  <2>3. /\ \A b \in B : sessions.time[i].interval <= b
        /\ B \subseteq Nat
    BY <2>1, NumberFacts DEF Fastest, Intervals
  <2>4. \A b \in B : \E j \in TimeIds : sessions.time[j].interval <= b
    BY OwnInterval
  <2>5. Steers(Run(nhz, spe, WithPower(i, p), started), B)
    BY <1>1, <2>2, <2>3, <2>4, SteersRun
  <2>6. Steers(Idle, B)
    BY <2>4, SteersIdle
  <2> QED
    BY <2>5, <2>6 DEF RunOthers
<1> QED
  BY <1>2, <1>3

\* A restart starts the engine for the sessions whatever it does now.
LEMMA SteersRestart ==
  ASSUME TypeOK, NEW need \in BOOLEAN, NEW plan \in RestartPlans(need)
  PROVE  /\ Starting(plan, Intervals(TimeIds)) \/ Ending(plan, Intervals(TimeIds))
         /\ plan.spe => need
         /\ plan.calls \in Seq(FitCalls)
<1>1. CASE TimeIds = {}
  <2>1. plan = NoRestart /\ Intervals(TimeIds) = {}
    BY <1>1 DEF RestartPlans, Intervals
  <2> QED
    BY <2>1 DEF NoRestart, NoCall, Ending
<1>2. CASE TimeIds # {}
  <2>1. PICK i \in Fastest(TimeIds), p \in RestartPowers(TimeIds) : plan = RunAgain(need, i, p)
    BY <1>2 DEF RestartPlans
  <2>2. i \in TimeIds /\ p \in Nat
    BY PowersType DEF Fastest
  <2>3. WithPower(i, p) \in Options /\ WithPower(i, p).interval = sessions.time[i].interval
    BY <2>2, WithPowerType, SessionType DEF WithPower, Options
  <2>4. \A b \in Intervals(TimeIds) : sessions.time[i].interval <= b
    BY <2>2 DEF Fastest, Intervals
  <2> DEFINE off == FALSE
             run == Run(need, off, WithPower(i, p), Ignore)
  <2>5. off \in BOOLEAN /\ ~off /\ plan = run
    BY <2>1 DEF RunAgain
  <2> HIDE DEF off
  <2>6. \E call \in FitCalls :
          /\ run.calls = <<call>>
          /\ call.op = "startTime"
          /\ call.opts.interval <= WithPower(i, p).interval
          /\ run.spe /\ ~off => need /\ call.opts.interval <= MinInterval
    BY <2>3, <2>5, FitIgnore, RunCall
  <2> HIDE DEF run
  <2>7. PICK call \in FitCalls :
          /\ plan.calls = <<call>>
          /\ call.op = "startTime"
          /\ call.opts.interval <= sessions.time[i].interval
          /\ plan.spe => need /\ call.opts.interval <= MinInterval
    BY <2>3, <2>5, <2>6
  <2>8. call.opts.interval \in Nat
    BY <2>7 DEF FitCalls, ApiCalls, Options
  <2>9. \A b \in Intervals(TimeIds) : call.opts.interval <= b
    BY <2>2, <2>4, <2>7, <2>8, NumberFacts
  <2>10. plan.calls \in Seq(FitCalls)
    BY <2>7
  <2> QED
    BY <2>7, <2>9, <2>10 DEF Starting
<1> QED
  BY <1>1, <1>2

-----------------------------------------------------------------------------
(* One step of the adapter *)

\* Only the last request that drives the engine counts.
LEMMA RunsConcat ==
  ASSUME NEW X, NEW q \in Seq(X), NEW s \in Seq(X), NEW e, NEW b
  PROVE  /\ RunsAt(q, e, b) /\ (\A n \in DOMAIN s : ~Drives(s[n])) => RunsAt(q \o s, e, b)
         /\ (\E n \in DOMAIN s : /\ s[n].op = "startTime" /\ s[n].opts.interval <= b
                                 /\ \A m \in DOMAIN s : m > n => ~Drives(s[m]))
              => RunsAt(q \o s, e, b)
<1> DEFINE r == q \o s
<1>1. /\ DOMAIN r = 1 .. Len(q) + Len(s) /\ Len(q) \in Nat /\ Len(s) \in Nat
      /\ DOMAIN q = 1 .. Len(q) /\ DOMAIN s = 1 .. Len(s)
      /\ \A n \in 1 .. Len(q) : r[n] = q[n]
      /\ \A n \in 1 .. Len(s) : r[Len(q) + n] = s[n]
  BY ConcatProperties
<1> HIDE DEF r
<1>2. \A m \in DOMAIN r : m > Len(q) => m - Len(q) \in DOMAIN s /\ r[m] = s[m - Len(q)]
  <2> SUFFICES ASSUME NEW m \in DOMAIN r, m > Len(q)
               PROVE  m - Len(q) \in DOMAIN s /\ r[m] = s[m - Len(q)]
    OBVIOUS
  <2>1. m - Len(q) \in 1 .. Len(s) /\ Len(q) + (m - Len(q)) = m
    BY <1>1
  <2> QED
    BY <1>1, <2>1
<1>3. ASSUME NEW n \in DOMAIN s, s[n].op = "startTime", s[n].opts.interval <= b,
             \A m \in DOMAIN s : m > n => ~Drives(s[m])
      PROVE  RunsAt(r, e, b)
  <2>1. Len(q) + n \in DOMAIN r /\ r[Len(q) + n] = s[n]
    BY <1>1
  <2>2. \A m \in DOMAIN r : m > Len(q) + n => ~Drives(r[m])
    BY <1>1, <1>2, <1>3
  <2> QED
    BY <1>3, <2>1, <2>2 DEF RunsAt
<1>4. ASSUME RunsAt(q, e, b), \A n \in DOMAIN s : ~Drives(s[n]) PROVE RunsAt(r, e, b)
  <2>1. \A m \in DOMAIN r : Drives(r[m]) => m \in DOMAIN q /\ r[m] = q[m]
    BY <1>1, <1>2, <1>4
  <2>2. ASSUME NEW n \in DOMAIN q, q[n].op = "startTime", q[n].opts.interval <= b,
               \A m \in DOMAIN q : m > n => ~Drives(q[m])
        PROVE  RunsAt(r, e, b)
    <3>1. n \in DOMAIN r /\ r[n] = q[n] /\ \A m \in DOMAIN r : m > n => ~Drives(r[m])
      BY <1>1, <2>1, <2>2
    <3> QED
      BY <2>2, <3>1 DEF RunsAt
  <2>3. ASSUME \A n \in DOMAIN q : ~Drives(q[n]), e.on, e.interval <= b
        PROVE  RunsAt(r, e, b)
    BY <2>1, <2>3 DEF RunsAt
  <2> QED
    BY <1>4, <2>2, <2>3 DEF RunsAt
<1> QED
  BY <1>3, <1>4 DEF r

\* Handlers keep the stage set: they only append requests, and take one message.
LEMMA StagedStep ==
  ASSUME TypeOK, Staged, NEW s \in Seq(FitCalls), Request(s),
         msgQ' = msgQ \/ (msgQ # << >> /\ msgQ' = Tail(msgQ)),
         pending' \in Seq(Waiting), link' = link, spe' => nhz'
  PROVE  /\ Staged'
         /\ Opening(apiQ) => Opening(apiQ')
         /\ Rising(msgQ) /\ (msgQ' = msgQ \/ Head(msgQ).k # "engineUp") => Rising(msgQ')
<1>0. apiQ \in Seq(FitCalls) /\ msgQ \in Seq(FitMessages) /\ apiQ' = apiQ \o s
  BY DEF Staged, Request
<1>1. Opening(apiQ) => Opening(apiQ')
  BY <1>0, OpeningKept
<1>2. Rising(msgQ) /\ (msgQ' = msgQ \/ Head(msgQ).k # "engineUp") => Rising(msgQ')
  BY <1>0, RisingKept
<1>3. Redeemed(msgQ) => Redeemed(msgQ')
  BY <1>0, RedeemedTail
<1>4. msgQ' \in Seq(FitMessages)
  BY <1>0, HeadTailProperties
<1>5. apiQ' \in Seq(FitCalls)
  BY <1>0, ConcatProperties
<1> QED
  BY <1>1, <1>2, <1>3, <1>4, <1>5 DEF Staged

\* What the sessions ask once one of them is saved or erased.
LEMMA AskedAfter ==
  ASSUME TypeOK, NEW id \in Ids
  PROVE  /\ sessions' = sessions => Asked' = Asked
         /\ sessions' = Erased(sessions, id) =>
              /\ Asked' \subseteq Asked
              /\ id \in TimeIds => Asked' \subseteq Intervals(TimeIds \ {id})
         /\ \A o \in Options :
              o.distance /\ DistanceSupported =>
                /\ sessions' = Saved(sessions, id, o) => Asked' \subseteq Asked
                /\ sessions' = Saved(Erased(sessions, id), id, o) /\ id \in TimeIds =>
                     Asked' \subseteq Intervals(TimeIds \ {id})
         /\ \A o \in Options :
              ~(o.distance /\ DistanceSupported) /\ sessions' = Saved(sessions, id, o) =>
                Asked' \subseteq Intervals(TimeIds \ {id}) \cup {o.interval}
<1> DEFINE Kept(i) == i \in TimeIds /\ sessions'.time[i] = sessions.time[i]
<1>0. /\ sessions.time \in [Ids -> Options \cup {NoOptions}]
      /\ sessions.dist \in [Ids -> Options \cup {NoOptions}]
      /\ sessions \in SessionMaps
  BY DEF TypeOK, SessionMaps
<1>1. Asked' = {sessions'.time[i].interval : i \in {i \in Ids : sessions'.time[i] # NoOptions}}
  BY DEF Asked, Intervals, TimeIds, In
<1>2. TimeIds = {i \in Ids : sessions.time[i] # NoOptions}
  BY DEF TimeIds, In
<1>3. sessions' = sessions => Asked' = Asked
  BY DEF Asked, Intervals, TimeIds, In
<1>4. ASSUME NEW S, S \subseteq TimeIds,
             \A i \in Ids : sessions'.time[i] # NoOptions =>
               i \in S /\ sessions'.time[i] = sessions.time[i]
      PROVE  Asked' \subseteq Intervals(S)
  BY <1>1, <1>4 DEF Intervals
<1>5. ASSUME NEW o \in Options, o.distance /\ DistanceSupported, sessions' = Saved(sessions, id, o)
      PROVE  Asked' \subseteq Asked
  <2>1. sessions'.time = sessions.time
    BY <1>0, <1>5 DEF Saved, SessionMaps
  <2> QED
    BY <1>1, <1>2, <2>1 DEF Asked, Intervals
<1>6. ASSUME sessions' = Erased(sessions, id) PROVE Asked' \subseteq Asked
  <2>1. \A i \in Ids : sessions'.time[i] # NoOptions => sessions'.time[i] = sessions.time[i]
    BY <1>0, <1>6 DEF Erased, SessionMaps
  <2> QED
    BY <1>1, <1>2, <2>1 DEF Asked, Intervals
<1>7. ASSUME id \in TimeIds, sessions' = Erased(sessions, id)
      PROVE  Asked' \subseteq Intervals(TimeIds \ {id})
  <2>1. sessions'.time = [sessions.time EXCEPT ![id] = NoOptions]
    BY <1>0, <1>2, <1>7 DEF Erased, SessionMaps
  <2>2. \A i \in Ids : sessions'.time[i] # NoOptions =>
          i \in TimeIds \ {id} /\ sessions'.time[i] = sessions.time[i]
    BY <1>0, <1>2, <2>1
  <2> QED
    BY <1>4, <2>2
<1>8. ASSUME NEW o \in Options, o.distance /\ DistanceSupported, id \in TimeIds,
             sessions' = Saved(Erased(sessions, id), id, o)
      PROVE  Asked' \subseteq Intervals(TimeIds \ {id})
  <2>1. Erased(sessions, id).time = [sessions.time EXCEPT ![id] = NoOptions]
    BY <1>0, <1>2, <1>8 DEF Erased, SessionMaps
  <2>2. Erased(sessions, id) \in SessionMaps
    BY <1>0, ErasedType
  <2>3. sessions'.time = [sessions.time EXCEPT ![id] = NoOptions]
    BY <1>8, <2>1, <2>2 DEF Saved, SessionMaps
  <2>4. \A i \in Ids : sessions'.time[i] # NoOptions =>
          i \in TimeIds \ {id} /\ sessions'.time[i] = sessions.time[i]
    BY <1>0, <1>2, <2>3
  <2> QED
    BY <1>4, <2>4
<1>9. ASSUME NEW o \in Options, ~(o.distance /\ DistanceSupported),
             sessions' = Saved(sessions, id, o)
      PROVE  Asked' \subseteq Intervals(TimeIds \ {id}) \cup {o.interval}
  <2>1. sessions'.time = [sessions.time EXCEPT ![id] = o]
    BY <1>0, <1>9 DEF Saved, SessionMaps
  <2>2. \A i \in Ids : sessions'.time[i] # NoOptions =>
          sessions'.time[i] = o \/ (i \in TimeIds \ {id} /\ sessions'.time[i] = sessions.time[i])
    BY <1>0, <1>2, <2>1
  <2> QED
    BY <1>1, <2>2 DEF Intervals
<1> QED
  BY <1>3, <1>5, <1>6, <1>7, <1>8, <1>9

\* A handler that does not drive the engine and saves no new interval.
LEMMA AsideServed ==
  ASSUME TypeOK, Staged, Served, NEW s \in Seq(FitCalls), Request(s),
         \A n \in DOMAIN s : ~Drives(s[n]),
         msgQ' = msgQ \/ (msgQ # << >> /\ Head(msgQ).k # "engineUp" /\ msgQ' = Tail(msgQ)),
         pending' \in Seq(Waiting), UNCHANGED <<link, engine, spe, nhz>>,
         Asked' \subseteq Asked
  PROVE  Staged' /\ Served'
<1>0. spe' => nhz'
  BY DEF Staged
<1>1. Staged' /\ (Restarting => Restarting')
  BY <1>0, StagedStep DEF Restarting
<1>2. ASSUME Runs PROVE Runs'
  <2>1. apiQ \in Seq(FitCalls) /\ apiQ' = apiQ \o s
    BY DEF Staged, Request
  <2>2. \A b : RunsAt(apiQ, engine, b) => RunsAt(apiQ \o s, engine, b)
    BY <2>1, RunsConcat
  <2>3. /\ \A b \in Asked' : RunsAt(apiQ', engine', b)
        /\ spe' => RunsAt(apiQ', engine', MinInterval)
    BY <1>2, <2>1, <2>2 DEF Runs
  <2> QED
    BY <2>3 DEF Runs
<1> QED
  BY <1>1, <1>2 DEF Served

\* What a plan makes of the engine, when its calls come last among those that
\* drive it.
LEMMA PlanRuns ==
  ASSUME TypeOK, Staged, NEW B, B \subseteq Nat, NEW plan, NEW s \in Seq(FitCalls), Request(s),
         \/ Keeps(plan, B) /\ Runs /\ \A n \in DOMAIN s : ~Drives(s[n])
         \/ /\ Starting(plan, B)
            /\ \E n \in DOMAIN s : /\ s[n] = plan.calls[1]
                                   /\ \A m \in DOMAIN s : m > n => ~Drives(s[m])
         \/ Ending(plan, B),
         spe' = plan.spe, engine' = engine, Asked' \subseteq B
  PROVE  Runs'
<1>0. apiQ \in Seq(FitCalls) /\ apiQ' = apiQ \o s
  BY DEF Staged, Request
<1> SUFFICES /\ \A b \in B : RunsAt(apiQ \o s, engine, b)
             /\ plan.spe => RunsAt(apiQ \o s, engine, MinInterval)
  BY <1>0 DEF Runs
<1>1. ASSUME Keeps(plan, B), Runs, \A n \in DOMAIN s : ~Drives(s[n])
      PROVE  /\ \A b \in B : RunsAt(apiQ \o s, engine, b)
             /\ plan.spe => RunsAt(apiQ \o s, engine, MinInterval)
  <2>1. \A b : RunsAt(apiQ, engine, b) => RunsAt(apiQ \o s, engine, b)
    BY <1>0, <1>1, RunsConcat
  <2>2. \A a, b \in Nat : a <= b /\ RunsAt(apiQ, engine, a) => RunsAt(apiQ, engine, b)
    <3>1. \A n \in DOMAIN apiQ : apiQ[n].op = "startTime" => apiQ[n].opts.interval \in Nat
      BY <1>0 DEF FitCalls, ApiCalls, Options
    <3>2. engine.interval \in Nat
      BY DEF TypeOK
    <3> QED
      BY <3>1, <3>2 DEF RunsAt
  <2>3. ASSUME NEW b \in B PROVE RunsAt(apiQ, engine, b)
    <3>1. b \in Nat /\ MinInterval \in Nat
      BY ConstantsAssumption
    <3>2. CASE spe /\ b >= MinInterval
      BY <1>1, <2>2, <3>1, <3>2 DEF Runs
    <3>3. ASSUME NEW i \in TimeIds, sessions.time[i].interval <= b PROVE RunsAt(apiQ, engine, b)
      <4>1. sessions.time[i].interval \in Asked /\ sessions.time[i].interval \in Nat
        BY NumberFacts DEF Asked, Intervals
      <4> QED
        BY <1>1, <2>2, <3>1, <3>3, <4>1 DEF Runs
    <3> QED
      BY <1>1, <3>2, <3>3 DEF Keeps
  <2> QED
    BY <1>1, <2>1, <2>3 DEF Keeps, Runs
<1>2. ASSUME Starting(plan, B),
             NEW n \in DOMAIN s, s[n] = plan.calls[1], \A m \in DOMAIN s : m > n => ~Drives(s[m])
      PROVE  /\ \A b \in B : RunsAt(apiQ \o s, engine, b)
             /\ plan.spe => RunsAt(apiQ \o s, engine, MinInterval)
  <2>1. /\ s[n].op = "startTime"
        /\ \A b \in B : s[n].opts.interval <= b
        /\ plan.spe => s[n].opts.interval <= MinInterval
    BY <1>2 DEF Starting
  <2>2. \A b : s[n].opts.interval <= b => RunsAt(apiQ \o s, engine, b)
    BY <1>0, <1>2, <2>1, RunsConcat
  <2> QED
    BY <2>1, <2>2
<1> QED
  BY <1>1, <1>2 DEF Ending

\* The calls of a plan, alone or with one more that does not drive the engine.
LEMMA SteerServed ==
  ASSUME TypeOK, Staged, Served, NEW B, B \subseteq Nat, NEW plan, Steers(plan, B),
         NEW s, \/ s = plan.calls
                \/ \E call \in FitCalls : ~Drives(call) /\ s = Append(plan.calls, call),
         Request(s),
         msgQ' = msgQ \/ (msgQ # << >> /\ Head(msgQ).k # "engineUp" /\ msgQ' = Tail(msgQ)),
         spe' = plan.spe, pending' = pending, UNCHANGED <<link, engine, nhz>>,
         Asked' \subseteq B
  PROVE  Staged' /\ Served'
<1>1. plan.calls \in Seq(FitCalls)
  <2>1. CASE Keeps(plan, B)
    BY <2>1 DEF Keeps
  <2>2. CASE Starting(plan, B)
    <3>1. PICK call \in FitCalls : plan.calls = <<call>>
      BY <2>2 DEF Starting
    <3> QED
      BY <3>1
  <2>3. CASE Ending(plan, B)
    BY <2>3 DEF Ending
  <2> QED
    BY <2>1, <2>2, <2>3 DEF Steers
<1>2. s \in Seq(FitCalls)
  BY <1>1, AppendProperties
<1>3. pending' \in Seq(Waiting) /\ (spe' => nhz')
  BY DEF Staged, Steers
<1>4. Staged' /\ (Restarting => Restarting')
  BY <1>2, <1>3, StagedStep DEF Restarting
<1>5. ASSUME Runs PROVE Runs'
  <2>1. CASE Keeps(plan, B)
    <3>1. \A n \in DOMAIN s : ~Drives(s[n])
      BY <2>1 DEF Keeps
    <3> QED
      BY <1>2, <1>5, <2>1, <3>1, PlanRuns
  <2>2. CASE Starting(plan, B)
    <3>1. PICK start \in FitCalls : plan.calls = <<start>>
      BY <2>2 DEF Starting
    <3>2. 1 \in DOMAIN s /\ s[1] = plan.calls[1] /\ \A m \in DOMAIN s : m > 1 => ~Drives(s[m])
      BY <3>1
    <3> QED
      BY <1>2, <2>2, <3>2, PlanRuns
  <2>3. CASE Ending(plan, B)
    BY <1>2, <2>3, PlanRuns
  <2> QED
    BY <2>1, <2>2, <2>3 DEF Steers
<1> QED
  BY <1>4, <1>5 DEF Served

\* A restart ends the wait.
LEMMA RestartServed ==
  ASSUME TypeOK, Staged, NEW k, NEW need \in BOOLEAN, NEW first, Restart(k, need, first),
         first = << >> \/ first = <<Call("stopFix", NoOptions, Ignore)>>,
         msgQ' = msgQ \/ (msgQ # << >> /\ msgQ' = Tail(msgQ)), need = nhz',
         UNCHANGED <<pending, link, engine, sessions>>
  PROVE  Staged' /\ Served'
<1>1. PICK plan \in RestartPlans(need) : Request(first \o plan.calls) /\ spe' = plan.spe
  BY DEF Restart
<1> DEFINE B == Intervals(TimeIds)
           s == first \o plan.calls
<1>2. /\ Starting(plan, B) \/ Ending(plan, B)
      /\ spe' => nhz'
      /\ plan.calls \in Seq(FitCalls)
  BY <1>1, SteersRestart
<1>3. first \in Seq(FitCalls)
  <2> DEFINE stop == Call("stopFix", NoOptions, Ignore)
  <2>1. stop \in FitCalls
    BY FitIgnore
  <2> HIDE DEF stop
  <2>2. << >> \in Seq(FitCalls) /\ <<stop>> \in Seq(FitCalls)
    BY <2>1
  <2> QED
    BY <2>2 DEF stop
<1>4. s \in Seq(FitCalls)
  BY <1>2, <1>3, ConcatProperties
<1>5. pending' \in Seq(Waiting)
  BY DEF Staged
<1>6. Staged'
  BY <1>1, <1>2, <1>4, <1>5, StagedStep
<1>7. Asked' = B /\ B \subseteq Nat
  BY NumberFacts DEF Asked, TimeIds, Intervals
<1>8. CASE Starting(plan, B)
  <2>1. PICK start \in FitCalls : plan.calls = <<start>>
    BY <1>8 DEF Starting
  <2>2. Len(s) \in DOMAIN s /\ s[Len(s)] = plan.calls[1] /\ \A m \in DOMAIN s : ~(m > Len(s))
    BY <2>1
  <2> QED
    BY <1>1, <1>4, <1>6, <1>7, <1>8, <2>2, PlanRuns DEF Served
<1>9. CASE Ending(plan, B)
  BY <1>1, <1>4, <1>6, <1>7, <1>9, PlanRuns DEF Served
<1> QED
  BY <1>2, <1>8, <1>9

-----------------------------------------------------------------------------
(* The handlers *)

LEMMA FitReceive ==
  ASSUME TypeOK, Staged, NEW k, Receive(k)
  PROVE  /\ msg \in FitMessages /\ msg \in Messages /\ msg.k = k
         /\ msgQ # << >> /\ Head(msgQ) = msg /\ msgQ' = Tail(msgQ)
<1>1. msgQ \in Seq(FitMessages) /\ msgQ # << >> /\ Head(msgQ).k = k /\ msgQ' = Tail(msgQ)
  BY DEF Staged, Receive
<1>2. Head(msgQ) \in FitMessages
  BY <1>1, HeadTailProperties
<1> QED
  BY <1>1, <1>2 DEF msg, FitMessages

\* Clamping is what makes the interval at least the minimum.
LEMMA ClampedFits ==
  ASSUME NEW o \in Options
  PROVE  Clamped(o) \in Options /\ Clamped(o).interval >= MinInterval
         /\ Clamped(o).distance = o.distance
BY ConstantsAssumption DEF Clamped, Options

\* Requests about a distance based session do not drive the engine.
LEMMA FitDistance ==
  ASSUME NEW id \in Ids, NEW reply, FitReply(reply)
  PROVE  /\ StartDist(id, reply) \in FitCalls /\ ~Drives(StartDist(id, reply))
         /\ StopDist(id, reply) \in FitCalls /\ ~Drives(StopDist(id, reply))
<1> DEFINE r == [reply EXCEPT !.id = id]
<1>1. r \in FitMessages /\ r.k \in ReplyKinds /\ r.id \in Ids /\ r \in Messages
  BY DEF FitReply, FitMessages, Messages
<1> HIDE DEF r
<1>2. /\ Call("startDist", NoOptions, r) \in FitCalls /\ ~Drives(Call("startDist", NoOptions, r))
      /\ Call("stopDist", NoOptions, r) \in FitCalls /\ ~Drives(Call("stopDist", NoOptions, r))
  BY <1>1 DEF Call, FitCalls, ApiCalls, Ops, Drives
<1> QED
  BY <1>2 DEF StartDist, StopDist, r

\* Replies that carry options.
LEMMA FitOptionsReply ==
  ASSUME NEW c \in Clients, NEW id \in Ids, NEW cmd \in Cmds, NEW o \in Options
  PROVE  /\ FitReply(Msg("restore", c, id, o, cmd))
         /\ o.interval >= MinInterval /\ ~o.distance => FitReply(Msg("switchToTime", c, id, o, cmd))
         /\ o.distance => /\ FitReply(Msg("distRestart", c, id, o, cmd))
                          /\ FitReply(Msg("distSave", c, id, o, cmd))
<1>1. ASSUME NEW k \in {"restore", "switchToTime", "distRestart", "distSave"}
      PROVE  /\ Msg(k, c, id, o, cmd) \in Messages /\ Msg(k, c, id, o, cmd).k = k
             /\ Msg(k, c, id, o, cmd).opts = o
             /\ k \in ReplyKinds
  <2>1. k \in ReplyKinds \ {"ignore"}
    BY DEF ReplyKinds
  <2>2. Msg(k, c, id, o, cmd).opts = o
    BY DEF Msg
  <2> QED
    BY <2>1, <2>2, ReplyWithOptionsType
<1> QED
  BY <1>1 DEF FitReply, FitMessages

\* Handlers that neither drive the engine nor touch the sessions.
LEMMA ServedSimple ==
  ASSUME TypeOK, Staged, Served,
         SaveClient \/ SavePowerStateCallback \/ Postpone \/ StartWithoutCallbacks
           \/ UnknownId("update") \/ UnknownId("stop") \/ BeginRemove \/ EraseClient
           \/ ReplyReport
  PROVE  Staged' /\ Served'
<1> DEFINE kinds == {"add", "observe", "start", "update", "stop", "remove", "report"}
<1>1. \/ \E k \in kinds : Receive(k)
      \/ msgQ' = msgQ
  BY DEF SaveClient, SavePowerStateCallback, Postpone, StartWithoutCallbacks, UnknownId, Begin,
         BeginRemove, EraseClient, ReplyReport
<1>2. msgQ' = msgQ \/ (msgQ # << >> /\ Head(msgQ).k # "engineUp" /\ msgQ' = Tail(msgQ))
  BY <1>1, FitReceive
<1>3. apiQ' = apiQ /\ sessions' = sessions /\ UNCHANGED <<link, engine, spe, nhz>>
  BY DEF SaveClient, SavePowerStateCallback, Postpone, StartWithoutCallbacks, UnknownId,
         BeginRemove, EraseClient, ReplyReport, AdapterKeeps, sessionVars, modeVars, engineVars
<1>4. pending' \in Seq(Waiting)
  <2>0. pending \in Seq(Waiting)
    BY DEF Staged
  <2>1. CASE Postpone
    <3>1. msg \in Waiting /\ pending' = Append(pending, msg)
      BY <2>1, FitReceive DEF Postpone, Waiting
    <3> QED
      BY <2>0, <3>1, AppendProperties
  <2>2. CASE pending' = pending
    BY <2>0, <2>2
  <2> QED
    BY <2>1, <2>2 DEF SaveClient, SavePowerStateCallback, StartWithoutCallbacks, UnknownId,
                      BeginRemove, EraseClient, ReplyReport
<1>5. Asked' = Asked
  BY <1>3 DEF Asked, Intervals, TimeIds, In
<1> DEFINE s == << >>
<1>6. Request(s) /\ s \in Seq(FitCalls) /\ \A n \in DOMAIN s : ~Drives(s[n])
  <2>1. apiQ \in Seq(ApiCalls)
    BY DEF TypeOK
  <2> QED
    BY <1>3, <2>1, EmptySeq, ConcatEmptySeq DEF Request
<1> HIDE DEF s
<1> QED
  BY <1>2, <1>3, <1>4, <1>5, <1>6, AsideServed

\* A handler that asks one thing of a distance based session, or nothing.
LEMMA ServedAside ==
  ASSUME TypeOK, Staged, Served, NEW s, Request(s),
         s = << >> \/ \E call \in FitCalls : ~Drives(call) /\ s = <<call>>,
         msgQ' = msgQ \/ (msgQ # << >> /\ Head(msgQ).k # "engineUp" /\ msgQ' = Tail(msgQ)),
         UNCHANGED <<pending, modeVars>>, AdapterKeeps,
         Asked' \subseteq Asked
  PROVE  Staged' /\ Served'
<1>1. s \in Seq(FitCalls) /\ \A n \in DOMAIN s : ~Drives(s[n])
  <2>1. CASE s = << >>
    BY <2>1
  <2>2. ASSUME NEW call \in FitCalls, ~Drives(call), s = <<call>>
        PROVE  s \in Seq(FitCalls) /\ \A n \in DOMAIN s : ~Drives(s[n])
    BY <2>2
  <2> QED
    BY <2>1, <2>2
<1>2. pending' \in Seq(Waiting) /\ UNCHANGED <<link, engine, spe, nhz>>
  BY DEF Staged, AdapterKeeps, engineVars, modeVars
<1> QED
  BY <1>1, <1>2, AsideServed

\* What every handler of a message other than engineUp does to the queue.
LEMMA TakesOne ==
  ASSUME TypeOK, Staged, NEW k, Receive(k), k # "engineUp"
  PROVE  msgQ # << >> /\ Head(msgQ).k # "engineUp" /\ msgQ' = Tail(msgQ)
BY FitReceive

LEMMA ServedDistance ==
  ASSUME TypeOK, Staged, Served, DistanceSupported,
         StartDistanceBased \/ DistanceToTime \/ UpdateDistanceBased \/ StopDistanceBased
           \/ SweepDistanceBased \/ RestartDistanceBased
  PROVE  Staged' /\ Served'
<1>1. CASE StartDistanceBased
  <2> DEFINE reply == Msg("started", msg.client, msg.id, NoOptions, msg.cmd)
             call  == StartDist(msg.id, reply)
  <2>1. /\ Receive("start") /\ msg.opts.distance
        /\ sessions' = Saved(sessions, msg.id, Clamped(msg.opts)) /\ Request(<<call>>)
        /\ UNCHANGED <<pending, modeVars>> /\ AdapterKeeps
    BY <1>1 DEF StartDistanceBased, Begin, SetSessions
  <2>2. msg \in Messages /\ msg.k = "start"
    BY <2>1, FitReceive
  <2>3. msg.client \in Clients /\ msg.id \in Ids /\ msg.opts \in Options /\ msg.cmd \in Cmds
    BY <2>2, MessageFields DEF ClientKinds, SessionKinds, OptionsKinds
  <2>4. FitReply(reply)
    BY <2>3, FitPlainReply
  <2>5. Clamped(msg.opts) \in Options /\ Clamped(msg.opts).distance
    BY <2>1, <2>3, ClampedFits
  <2>6. Asked' \subseteq Asked
    BY <2>1, <2>3, <2>5, AskedAfter
  <2> HIDE DEF reply
  <2>7. call \in FitCalls /\ ~Drives(call)
    BY <2>3, <2>4, FitDistance
  <2> HIDE DEF call
  <2> QED
    BY <2>1, <2>6, <2>7, TakesOne, ServedAside
<1>2. CASE DistanceToTime
  <2> DEFINE reply == Msg("switchToTime", msg.client, msg.id, Clamped(msg.opts), msg.cmd)
             call  == StopDist(msg.id, reply)
  <2>1. /\ Receive("update") /\ ~msg.opts.distance
        /\ sessions' = Erased(sessions, msg.id) /\ Request(<<call>>)
        /\ UNCHANGED <<pending, modeVars>> /\ AdapterKeeps
    BY <1>2 DEF DistanceToTime, Begin, SetSessions
  <2>2. msg \in Messages /\ msg.k = "update"
    BY <2>1, FitReceive
  <2>3. msg.client \in Clients /\ msg.id \in Ids /\ msg.opts \in Options /\ msg.cmd \in Cmds
    BY <2>2, MessageFields DEF ClientKinds, SessionKinds, OptionsKinds
  <2>4. FitReply(reply)
    BY <2>1, <2>3, ClampedFits, FitOptionsReply
  <2>5. Asked' \subseteq Asked
    BY <2>1, <2>3, AskedAfter
  <2> HIDE DEF reply
  <2>6. call \in FitCalls /\ ~Drives(call)
    BY <2>3, <2>4, FitDistance
  <2> HIDE DEF call
  <2> QED
    BY <2>1, <2>5, <2>6, TakesOne, ServedAside
<1>3. CASE UpdateDistanceBased
  <2> DEFINE reply == Msg("distRestart", msg.client, msg.id, Clamped(msg.opts), msg.cmd)
             call  == StopDist(msg.id, reply)
  <2>1. /\ Receive("update") /\ msg.opts.distance /\ sessions' = sessions /\ Request(<<call>>)
        /\ UNCHANGED <<pending, modeVars>> /\ AdapterKeeps
    BY <1>3 DEF UpdateDistanceBased, Begin, sessionVars
  <2>2. msg \in Messages /\ msg.k = "update"
    BY <2>1, FitReceive
  <2>3. msg.client \in Clients /\ msg.id \in Ids /\ msg.opts \in Options /\ msg.cmd \in Cmds
    BY <2>2, MessageFields DEF ClientKinds, SessionKinds, OptionsKinds
  <2>4. FitReply(reply)
    BY <2>1, <2>3, ClampedFits, FitOptionsReply
  <2>5. Asked' \subseteq Asked
    BY <2>1, <2>3, AskedAfter
  <2> HIDE DEF reply
  <2>6. call \in FitCalls /\ ~Drives(call)
    BY <2>3, <2>4, FitDistance
  <2> HIDE DEF call
  <2> QED
    BY <2>1, <2>5, <2>6, TakesOne, ServedAside
<1>4. CASE StopDistanceBased
  <2> DEFINE reply == Msg("distStopped", msg.client, msg.id, NoOptions, msg.cmd)
             call  == StopDist(msg.id, reply)
  <2>1. /\ Receive("stop") /\ sessions' = sessions /\ Request(<<call>>)
        /\ UNCHANGED <<pending, modeVars>> /\ AdapterKeeps
    BY <1>4 DEF StopDistanceBased, sessionVars
  <2>2. msg \in Messages /\ msg.k = "stop"
    BY <2>1, FitReceive
  <2>3. msg.client \in Clients /\ msg.id \in Ids /\ msg.cmd \in Cmds
    BY <2>2, MessageFields DEF ClientKinds, SessionKinds
  <2>4. FitReply(reply)
    BY <2>3, FitPlainReply
  <2>5. Asked' \subseteq Asked
    BY <2>1, <2>3, AskedAfter
  <2> HIDE DEF reply
  <2>6. call \in FitCalls /\ ~Drives(call)
    BY <2>3, <2>4, FitDistance
  <2> HIDE DEF call
  <2> QED
    BY <2>1, <2>5, <2>6, TakesOne, ServedAside
<1>5. ASSUME NEW id \in Ids, NEW call, call \in FitCalls, ~Drives(call), Request(<<call>>),
             sessions' = sessions, UNCHANGED <<msgQ, pending, modeVars>>, AdapterKeeps
      PROVE  Staged' /\ Served'
  <2>1. Asked' \subseteq Asked
    BY <1>5, AskedAfter
  <2> QED
    BY <1>5, <2>1, ServedAside
<1>6. CASE SweepDistanceBased
  <2>1. PICK id \in Ids :
          Request(<<StopDist(id, Msg("distSwept", sweep.client, id, NoOptions, "remove"))>>)
    BY <1>6 DEF SweepDistanceBased
  <2> DEFINE reply == Msg("distSwept", sweep.client, id, NoOptions, "remove")
             call  == StopDist(id, reply)
  <2>2. sweep.client \in Clients
    BY <1>6 DEF SweepDistanceBased, TypeOK, Sweeps
  <2>3. FitReply(reply)
    BY <2>2, FitPlainReply DEF Cmds
  <2> HIDE DEF reply
  <2>4. call \in FitCalls /\ ~Drives(call)
    BY <2>3, FitDistance
  <2>5. Request(<<call>>)
    BY <2>1 DEF reply
  <2> HIDE DEF call
  <2>6. sessions' = sessions /\ UNCHANGED <<msgQ, pending, modeVars>> /\ AdapterKeeps
    BY <1>6 DEF SweepDistanceBased, sessionVars
  <2> QED
    BY <1>5, <2>4, <2>5, <2>6
<1>7. CASE RestartDistanceBased
  <2>1. PICK id \in sweep.left : Request(<<StartDist(id, Ignore)>>)
    BY <1>7 DEF RestartDistanceBased
  <2> DEFINE call == StartDist(id, Ignore)
  <2>2. id \in Ids
    BY DEF TypeOK, Sweeps
  <2>3. call \in FitCalls /\ ~Drives(call)
    BY <2>2, FitIgnore, FitDistance
  <2>4. Request(<<call>>)
    BY <2>1
  <2> HIDE DEF call
  <2>5. sessions' = sessions /\ UNCHANGED <<msgQ, pending, modeVars>> /\ AdapterKeeps
    BY <1>7 DEF RestartDistanceBased, sessionVars
  <2> QED
    BY <1>5, <2>2, <2>3, <2>4, <2>5
<1> QED
  BY <1>1, <1>2, <1>3, <1>4, <1>6, <1>7

\* Answers: a refused update is the only one that saves a smaller interval, and
\* then the restart of all sessions is still to come.
LEMMA ServedAnswers ==
  ASSUME TypeOK, Staged, Served, DistanceSupported,
         ReplyStarted \/ ReplyRestore \/ ReplyDistanceStopped \/ ReplyDistanceSwept
           \/ ReplyDistanceRestart \/ ReplyDistanceSave
  PROVE  Staged' /\ Served'
<1> DEFINE kinds == {"started", "restore", "distStopped", "distSwept", "distRestart", "distSave"}
<1>1. PICK k \in kinds : Receive(k)
  BY DEF ReplyStarted, ReplyRestore, ReplyDistanceStopped, ReplyDistanceSwept,
         ReplyDistanceRestart, ReplyDistanceSave
<1>2. msg \in FitMessages /\ msg \in Messages /\ msg.k = k
  BY <1>1, FitReceive
<1>3. k # "engineUp" /\ k \in SessionKinds /\ k \in ClientKinds
  BY DEF SessionKinds, ClientKinds, ReplyKinds
<1>4. msg.client \in Clients /\ msg.id \in Ids /\ msg.cmd \in Cmds
  BY <1>2, <1>3, MessageFields
<1>5. UNCHANGED <<pending, modeVars>> /\ AdapterKeeps
  BY DEF ReplyStarted, ReplyRestore, ReplyDistanceStopped, ReplyDistanceSwept,
         ReplyDistanceRestart, ReplyDistanceSave
<1>6. ASSUME apiQ' = apiQ PROVE Request(<< >>)
  BY <1>6, ConcatEmptySeq DEF Request, TypeOK
<1>7. ASSUME Asked' \subseteq Asked, apiQ' = apiQ PROVE Staged' /\ Served'
  BY <1>1, <1>3, <1>5, <1>6, <1>7, TakesOne, ServedAside
<1>8. CASE ReplyStarted
  <2>1. sessions' = sessions \/ sessions' = Erased(sessions, msg.id)
    BY <1>8 DEF ReplyStarted, SetSessions
  <2> QED
    BY <1>4, <1>7, <1>8, <2>1, AskedAfter DEF ReplyStarted
<1>9. CASE ReplyDistanceStopped \/ ReplyDistanceSwept
  <2>1. sessions' = sessions \/ sessions' = Erased(sessions, msg.id)
    BY <1>9 DEF ReplyDistanceStopped, ReplyDistanceSwept, SetSessions
  <2> QED
    BY <1>4, <1>7, <1>9, <2>1, AskedAfter DEF ReplyDistanceStopped, ReplyDistanceSwept
<1>10. CASE ReplyDistanceSave
  <2>1. sessions' = sessions \/ sessions' = Saved(sessions, msg.id, msg.opts)
    BY <1>10 DEF ReplyDistanceSave, SetSessions
  <2>2. msg.k = "distSave"
    BY <1>10, FitReceive DEF ReplyDistanceSave
  <2>3. msg.opts \in Options /\ msg.opts.distance
    BY <1>2, <2>2, MessageFields DEF OptionsKinds, FitMessages
  <2> QED
    BY <1>4, <1>7, <1>10, <2>1, <2>3, AskedAfter DEF ReplyDistanceSave
<1>11. CASE ReplyDistanceRestart
  <2> DEFINE reply == Msg("distSave", msg.client, msg.id, msg.opts, msg.cmd)
             call  == StartDist(msg.id, reply)
             s     == IF msg.ok THEN <<call>> ELSE << >>
  <2>1. Request(s) /\ sessions' = sessions
    BY <1>11 DEF ReplyDistanceRestart, sessionVars
  <2>2. msg.k = "distRestart"
    BY <1>11, FitReceive DEF ReplyDistanceRestart
  <2>3. msg.opts \in Options /\ msg.opts.distance
    BY <1>2, <2>2, MessageFields DEF OptionsKinds, FitMessages
  <2>4. FitReply(reply)
    BY <1>4, <2>3, FitOptionsReply
  <2> HIDE DEF reply
  <2>5. call \in FitCalls /\ ~Drives(call)
    BY <1>4, <2>4, FitDistance
  <2> HIDE DEF call
  <2>6. s = << >> \/ s = <<call>>
    OBVIOUS
  <2> HIDE DEF s
  <2>7. Asked' \subseteq Asked
    BY <1>4, <2>1, AskedAfter
  <2> QED
    BY <1>1, <1>3, <1>5, <2>1, <2>5, <2>6, <2>7, TakesOne, ServedAside
<1>12. CASE ReplyRestore
  <2>1. apiQ' = apiQ /\ Receive("restore")
    BY <1>12 DEF ReplyRestore
  <2>2. CASE msg.ok
    <3>1. sessions' = sessions
      BY <1>12, <2>2 DEF ReplyRestore, SetSessions
    <3> QED
      BY <1>4, <1>7, <2>1, <3>1, AskedAfter
  <2>3. CASE ~msg.ok
    <3>1. Refused(Head(msgQ)) /\ msgQ # << >> /\ msgQ' = Tail(msgQ)
      BY <2>1, <2>3, FitReceive DEF Refused
    <3>2. msgQ \in Seq(FitMessages) /\ (Opening(apiQ) \/ Redeemed(msgQ))
      BY DEF Staged
    <3>3. Restarting'
      BY <2>1, <3>1, <3>2, RedeemedTail DEF Restarting
    <3>4. /\ Request(<< >>) /\ << >> \in Seq(FitCalls)
          /\ link' = link /\ (spe' => nhz') /\ pending' \in Seq(Waiting)
      BY <1>5, <1>6, <2>1 DEF AdapterKeeps, engineVars, modeVars, Staged
    <3>5. Staged'
      BY <3>1, <3>4, StagedStep
    <3> QED
      BY <3>3, <3>5 DEF Served
  <2> QED
    BY <2>2, <2>3
<1> QED
  BY <1>8, <1>9, <1>10, <1>11, <1>12

\* A handler that follows a plan in answer to a message.
LEMMA ServedFollow ==
  ASSUME TypeOK, Staged, Served, NEW B, B \subseteq Nat, NEW plan, Steers(plan, B),
         NEW k, Receive(k), k # "engineUp", Follow(plan, msg),
         pending' = pending, UNCHANGED nhz, AdapterKeeps, Asked' \subseteq B
  PROVE  Staged' /\ Served'
BY TakesOne, SteerServed DEF Follow, AdapterKeeps, engineVars

LEMMA ServedTimeBased ==
  ASSUME TypeOK, Staged, Served, DistanceSupported,
         StartTimeBased \/ TimeToDistance \/ UpdateTimeBased \/ StopTimeBased
           \/ ReplySwitchToTime
  PROVE  Staged' /\ Served'
<1> DEFINE kinds == {"start", "update", "stop", "switchToTime"}
<1>1. PICK k \in kinds : Receive(k)
  BY DEF StartTimeBased, TimeToDistance, UpdateTimeBased, StopTimeBased, ReplySwitchToTime, Begin
<1>2. msg \in FitMessages /\ msg \in Messages /\ msg.k = k
  BY <1>1, FitReceive
<1>3. k # "engineUp" /\ k \in SessionKinds /\ k \in ClientKinds
  BY DEF SessionKinds, ClientKinds, ReplyKinds
<1>4. msg.client \in Clients /\ msg.id \in Ids /\ msg.cmd \in Cmds
  BY <1>2, <1>3, MessageFields
<1>5. k # "stop" => /\ msg.opts \in Options
                    /\ Clamped(msg.opts) \in Options /\ Clamped(msg.opts).interval >= MinInterval
                    /\ Clamped(msg.opts).distance = msg.opts.distance
  BY <1>2, MessageFields, ClampedFits DEF OptionsKinds
<1>6. pending' = pending /\ nhz' = nhz /\ AdapterKeeps /\ (spe => nhz)
  BY DEF StartTimeBased, TimeToDistance, UpdateTimeBased, StopTimeBased, ReplySwitchToTime, Staged
<1>7. ASSUME NEW o \in Options, o.interval >= MinInterval,
             NEW S \in SUBSET TimeIds
      PROVE  Intervals(S) \cup {o.interval} \subseteq Nat
  BY NumberFacts
<1>8. ASSUME NEW o \in Options, o.interval >= MinInterval, ~(o.distance /\ DistanceSupported),
             NEW plan \in StartPlans(o, Msg("started", msg.client, msg.id, NoOptions, msg.cmd)),
             Follow(plan, msg), sessions' = Saved(sessions, msg.id, o)
      PROVE  Staged' /\ Served'
  <2> DEFINE B == Intervals(TimeIds) \cup {o.interval}
             reply == Msg("started", msg.client, msg.id, NoOptions, msg.cmd)
  <2>1. FitReply(reply)
    BY <1>4, FitPlainReply
  <2> HIDE DEF reply
  <2>2. plan \in StartPlans(o, reply)
    BY <1>8 DEF reply
  <2>3. Steers(plan, B)
    BY <1>6, <1>8, <2>1, <2>2, SteersStart
  <2>4. Asked' \subseteq B
    <3>1. Asked' \subseteq Intervals(TimeIds \ {msg.id}) \cup {o.interval}
      BY <1>4, <1>8, AskedAfter
    <3> QED
      BY <3>1 DEF Intervals
  <2>5. B \subseteq Nat
    BY <1>7, <1>8
  <2> HIDE DEF B
  <2> QED
    BY <1>1, <1>3, <1>6, <1>8, <2>3, <2>4, <2>5, ServedFollow
<1>9. CASE StartTimeBased
  <2>1. /\ msg.k = "start" /\ ~(msg.opts.distance /\ DistanceSupported)
        /\ sessions' = Saved(sessions, msg.id, Clamped(msg.opts))
        /\ \E plan \in StartPlans(Clamped(msg.opts),
                                  Msg("started", msg.client, msg.id, NoOptions, msg.cmd)) :
             Follow(plan, msg)
    BY <1>9, FitReceive DEF StartTimeBased, Begin, SetSessions
  <2> QED
    BY <1>2, <1>5, <1>8, <2>1
<1>10. CASE ReplySwitchToTime
  <2>1. /\ msg.k = "switchToTime"
        /\ sessions' = Saved(sessions, msg.id, msg.opts)
        /\ \E plan \in StartPlans(msg.opts,
                                  Msg("started", msg.client, msg.id, NoOptions, msg.cmd)) :
             Follow(plan, msg)
    BY <1>10, FitReceive DEF ReplySwitchToTime, SetSessions
  <2>2. msg.opts \in Options /\ msg.opts.interval >= MinInterval
    BY <1>2, <1>5, <2>1 DEF FitMessages
  <2>3. ~msg.opts.distance
    BY <1>2, <2>1 DEF FitMessages
  <2> QED
    BY <1>8, <2>1, <2>2, <2>3
<1>11. CASE UpdateTimeBased
  <2> DEFINE old   == sessions.time[msg.id]
             reply == Msg("restore", msg.client, msg.id, old, msg.cmd)
             o     == Clamped(msg.opts)
             B     == Intervals(TimeIds \ {msg.id}) \cup {o.interval}
  <2>1. /\ msg.k = "update" /\ msg.id \in TimeIds /\ ~msg.opts.distance
        /\ sessions' = Saved(sessions, msg.id, o)
    BY <1>11, FitReceive DEF UpdateTimeBased, Begin, SetSessions
  <2>2. PICK plan \in UpdatePlans(msg.id, o, reply) : Follow(plan, msg)
    BY <1>11 DEF UpdateTimeBased
  <2>3. FitReply(reply)
    BY <1>4, <2>1, SessionType, FitOptionsReply
  <2> HIDE DEF reply
  <2>4. o \in Options /\ o.interval >= MinInterval /\ ~(o.distance /\ DistanceSupported)
    BY <1>2, <1>5, <2>1
  <2> HIDE DEF o
  <2>5. Steers(plan, B)
    BY <1>6, <2>1, <2>2, <2>3, <2>4, SteersUpdate
  <2>6. Asked' \subseteq B
    BY <1>4, <2>1, <2>4, AskedAfter
  <2>7. B \subseteq Nat
    BY <1>7, <2>4
  <2> HIDE DEF B
  <2> QED
    BY <1>1, <1>3, <1>6, <2>2, <2>5, <2>6, <2>7, ServedFollow
<1>12. CASE StopTimeBased
  <2> DEFINE B == Intervals(TimeIds \ {msg.id})
  <2>1. msg.id \in TimeIds /\ sessions' = Erased(sessions, msg.id)
    BY <1>12 DEF StopTimeBased, SetSessions
  <2>2. PICK plan \in StopPlans(msg.client, msg.id, msg.cmd) : Follow(plan, msg)
    BY <1>12 DEF StopTimeBased
  <2>3. Steers(plan, B)
    BY <1>4, <1>6, <2>1, <2>2, SteersStop
  <2>4. Asked' \subseteq B
    BY <1>4, <2>1, AskedAfter
  <2>5. B \subseteq Nat
    BY NumberFacts
  <2> HIDE DEF B
  <2> QED
    BY <1>1, <1>3, <1>6, <2>2, <2>3, <2>4, <2>5, ServedFollow
<1>13. CASE TimeToDistance
  <2> DEFINE B    == Intervals(TimeIds \ {msg.id})
             call == StartDist(msg.id, Ignore)
             o    == Clamped(msg.opts)
  <2>1. /\ msg.k = "update" /\ msg.id \in TimeIds /\ msg.opts.distance
        /\ sessions' = Saved(Erased(sessions, msg.id), msg.id, o)
    BY <1>13, FitReceive DEF TimeToDistance, Begin, SetSessions
  <2>2. PICK plan \in StopPlans(msg.client, msg.id, msg.cmd) :
          Follow([plan EXCEPT !.calls = Append(@, call)], msg)
    BY <1>13 DEF TimeToDistance
  <2>3. Steers(plan, B)
    BY <1>4, <1>6, <2>1, <2>2, SteersStop
  <2>4. Asked' \subseteq B
    <3>1. o \in Options /\ o.distance
      BY <1>2, <1>5, <2>1
    <3> HIDE DEF o
    <3> QED
      BY <1>4, <2>1, <3>1, AskedAfter
  <2>5. B \subseteq Nat
    BY NumberFacts
  <2> HIDE DEF B
  <2>6. call \in FitCalls /\ ~Drives(call)
    BY <1>4, FitIgnore, FitDistance
  <2> HIDE DEF call
  <2>7. Request(Append(plan.calls, call)) /\ spe' = plan.spe
    <3>1. plan \in Plans
      BY <1>4, <2>1, <2>2, StopPlansPlans
    <3>2. /\ [plan EXCEPT !.calls = Append(@, call)].calls = Append(plan.calls, call)
          /\ [plan EXCEPT !.calls = Append(@, call)].spe = plan.spe
      BY <3>1 DEF Plans, PlansOf
    <3> QED
      BY <2>2, <3>2 DEF Follow
  <2>8. UNCHANGED <<link, engine, nhz>>
    BY <1>6 DEF AdapterKeeps, engineVars
  <2>9. msgQ # << >> /\ Head(msgQ).k # "engineUp" /\ msgQ' = Tail(msgQ)
    BY <1>1, <1>3, TakesOne
  <2> QED
    BY <1>6, <2>3, <2>4, <2>5, <2>6, <2>7, <2>8, <2>9, SteerServed
<1> QED
  BY <1>9, <1>10, <1>11, <1>12, <1>13

LEMMA ServedSweep ==
  ASSUME TypeOK, Staged, Served, SweepTimeBased
  PROVE  Staged' /\ Served'
<1>1. PICK id \in Ids :
        /\ First(id, OwnedBy(sweep.client, TimeIds))
        /\ \E plan \in StopPlans(sweep.client, id, "remove") :
             Request(plan.calls) /\ spe' = plan.spe
        /\ SetSessions(Erased(sessions, id))
  BY DEF SweepTimeBased
<1>2. PICK plan \in StopPlans(sweep.client, id, "remove") :
        Request(plan.calls) /\ spe' = plan.spe
  BY <1>1
<1> DEFINE B == Intervals(TimeIds \ {id})
<1>3. sweep.client \in Clients /\ id \in TimeIds /\ "remove" \in Cmds
  BY <1>1 DEF SweepTimeBased, First, OwnedBy, TypeOK, Sweeps, Cmds
<1>4. Steers(plan, B)
  BY <1>2, <1>3, SteersStop DEF Staged
<1>5. Asked' \subseteq B
  BY <1>1, <1>3, AskedAfter DEF SetSessions
<1>6. B \subseteq Nat
  BY NumberFacts
<1> HIDE DEF B
<1>7. msgQ' = msgQ /\ pending' = pending /\ UNCHANGED <<link, engine, nhz>>
  BY DEF SweepTimeBased, AdapterKeeps, engineVars
<1> QED
  BY <1>2, <1>4, <1>5, <1>6, <1>7, SteerServed

LEMMA ServedRestart ==
  ASSUME TypeOK, Staged, Served,
         EngineUp \/ ApplyConfig \/ NHzRequirement \/ EndRestart
  PROVE  Staged' /\ Served'
<1>1. CASE EngineUp
  <2>1. /\ Restart("engineUp", nhz, << >>) /\ msgQ # << >> /\ msgQ' = Tail(msgQ)
        /\ nhz' = nhz /\ UNCHANGED <<pending, link, engine, sessions>>
    BY <1>1, FitReceive DEF EngineUp, sessionVars, AdapterKeeps, engineVars
  <2>2. nhz \in BOOLEAN
    BY DEF TypeOK
  <2> QED
    BY <2>1, <2>2, RestartServed
<1>2. CASE ApplyConfig
  <2> DEFINE first == IF TimeIds = {} THEN << >> ELSE <<Call("stopFix", NoOptions, Ignore)>>
  <2>1. /\ Restart("restart", nhz, first) /\ msgQ # << >> /\ msgQ' = Tail(msgQ)
        /\ nhz' = nhz /\ UNCHANGED <<pending, link, engine, sessions>>
    BY <1>2, FitReceive DEF ApplyConfig, sessionVars, AdapterKeeps, engineVars
  <2>2. nhz \in BOOLEAN
    BY DEF TypeOK
  <2>3. first = << >> \/ first = <<Call("stopFix", NoOptions, Ignore)>>
    OBVIOUS
  <2> HIDE DEF first
  <2> QED
    BY <2>1, <2>2, <2>3, RestartServed
<1>3. CASE NHzRequirement
  <2> DEFINE need == ~nhz
  <2>1. /\ Restart("restart", need, << >>) /\ msgQ' = msgQ /\ need = nhz'
        /\ UNCHANGED <<pending, link, engine, sessions>>
    BY <1>3 DEF NHzRequirement, sessionVars, engineVars
  <2>2. need \in BOOLEAN
    OBVIOUS
  <2> HIDE DEF need
  <2> QED
    BY <2>1, <2>2, RestartServed
<1>4. CASE EndRestart
  <2>1. UNCHANGED <<apiQ, sessions, spe, nhz, link, engine>>
    BY <1>4 DEF EndRestart, sessionVars, modeVars, AdapterKeeps, engineVars
  <2>2. Asked' = Asked
    BY <2>1 DEF Asked, Intervals, TimeIds, In
  <2>3. Runs => Runs'
    BY <2>1, <2>2 DEF Runs
  <2>4. CASE msgQ' = msgQ /\ pending' = pending
    <3>1. Staged' /\ Restarting' = Restarting
      BY <2>1, <2>4 DEF Staged, Restarting
    <3> QED
      BY <2>3, <3>1 DEF Served
  <2>5. CASE msgQ' = msgQ \o pending /\ pending' = << >>
    <3>1. msgQ \in Seq(FitMessages) /\ pending \in Seq(Waiting)
      BY DEF Staged
    <3>2. pending \in Seq(FitMessages)
      BY <3>1 DEF Waiting
    <3>3. \A n \in DOMAIN pending : ~Refused(pending[n])
      BY <3>1 DEF Refused, Waiting
    <3>4. Redeemed(msgQ) => Redeemed(msgQ')
      BY <2>5, <3>1, <3>2, <3>3, RedeemedConcat
    <3>5. Rising(msgQ) => Rising(msgQ')
      BY <2>5, <3>1, <3>2, RisingKept
    <3>6. msgQ' \in Seq(FitMessages) /\ pending' \in Seq(Waiting)
      BY <2>5, <3>1, <3>2, ConcatProperties
    <3>7. Staged'
      BY <2>1, <3>4, <3>6 DEF Staged
    <3> QED
      BY <2>1, <2>3, <3>5, <3>7 DEF Served, Restarting
  <2> QED
    BY <1>4, <2>4, <2>5 DEF EndRestart
<1> QED
  BY <1>1, <1>2, <1>3, <1>4

LEMMA ServedAdapter ==
  ASSUME TypeOK, Staged, Served, DistanceSupported, AdapterStep
  PROVE  Staged' /\ Served'
BY ServedSimple, ServedDistance, ServedAnswers, ServedTimeBased, ServedSweep, ServedRestart
DEF AdapterStep

-----------------------------------------------------------------------------
(* Clients, the LocApi thread and the modem *)

\* A message that is not a refused update may be posted at any time.
LEMMA PostServed ==
  ASSUME TypeOK, Staged, Served, NEW m \in FitMessages, ~Refused(m), Post(m),
         UNCHANGED <<pending, sessions, spe, nhz, apiQ, link, engine>>
  PROVE  Staged' /\ Served'
<1>1. msgQ \in Seq(FitMessages) /\ msgQ' = Append(msgQ, m)
  BY DEF Staged, Post
<1>2. /\ msgQ' \in Seq(FitMessages)
      /\ Rising(msgQ) => Rising(msgQ')
      /\ Redeemed(msgQ) => Redeemed(msgQ')
  BY <1>1, AppendProperties, RisingKept, RedeemedAppend
<1>3. Staged'
  BY <1>2 DEF Staged
<1>4. Asked' = Asked
  BY DEF Asked, Intervals, TimeIds, In
<1>5. Runs => Runs'
  BY <1>4 DEF Runs
<1> QED
  BY <1>2, <1>3, <1>5 DEF Served, Restarting

LEMMA ServedClient ==
  ASSUME TypeOK, Staged, Served, ClientStep
  PROVE  Staged' /\ Served'
<1>1. ASSUME NEW m \in Messages, m.k \in CommandKinds, PostCommand(m) PROVE Staged' /\ Served'
  <2>1. m \in FitMessages /\ ~Refused(m)
    BY <1>1 DEF FitMessages, Refused, CommandKinds
  <2>2. Post(m) /\ UNCHANGED <<pending, sessions, spe, nhz, apiQ, link, engine>>
    BY <1>1 DEF PostCommand, sessionVars, modeVars, engineVars
  <2> QED
    BY <2>1, <2>2, PostServed
<1>2. ASSUME NEW c \in Clients, NEW cb \in TrackingCbs, AddClient(c, cb) \/ UpdateCallbacks(c, cb)
      PROVE  Staged' /\ Served'
  <2> DEFINE m == [Msg("add", c, 0, NoOptions, "none") EXCEPT !.ok = cb]
  <2>1. m \in Messages
    BY ConstantsAssumption
    DEF Msg, Messages, CommandKinds, SessionKinds, ReplyKinds, OptionsKinds, Cmds
  <2>2. m.k \in CommandKinds
    BY DEF Msg, CommandKinds
  <2>3. PostCommand(m)
    BY <1>2 DEF AddClient, UpdateCallbacks
  <2> HIDE DEF m
  <2> QED
    BY <1>1, <2>1, <2>2, <2>3
<1>3. ASSUME NEW c \in Clients, RemoveClient(c) PROVE Staged' /\ Served'
  <2> DEFINE m == Msg("remove", c, 0, NoOptions, "none")
  <2>1. m \in Messages /\ m.k \in CommandKinds
    BY MsgType DEF CommandKinds, SessionKinds, ReplyKinds, OptionsKinds, Cmds
  <2>2. PostCommand(m)
    BY <1>3 DEF RemoveClient
  <2> HIDE DEF m
  <2> QED
    BY <1>1, <2>1, <2>2
<1>4. ASSUME NEW c \in Clients, NEW o \in Requests, StartTracking(c, o) PROVE Staged' /\ Served'
  <2> DEFINE m == Msg("start", c, nextId, o, "start")
  <2>1. nextId \in Ids /\ PostCommand(m)
    BY <1>4 DEF StartTracking
  <2>2. m \in Messages /\ m.k \in CommandKinds
    BY <2>1, MsgType, ConstantsAssumption DEF CommandKinds, Cmds
  <2> HIDE DEF m
  <2> QED
    BY <1>1, <2>1, <2>2
<1>5. ASSUME NEW c \in Clients, NEW id \in Ids, NEW o \in Requests, UpdateTrackingOptions(c, id, o)
      PROVE  Staged' /\ Served'
  <2> DEFINE m == Msg("update", c, id, o, "update")
  <2>1. m \in Messages /\ m.k \in CommandKinds
    BY MsgType, ConstantsAssumption DEF CommandKinds, Cmds
  <2>2. PostCommand(m)
    BY <1>5 DEF UpdateTrackingOptions
  <2> HIDE DEF m
  <2> QED
    BY <1>1, <2>1, <2>2
<1>6. ASSUME NEW c \in Clients, NEW id \in Ids, StopTracking(c, id) PROVE Staged' /\ Served'
  <2> DEFINE m == Msg("stop", c, id, NoOptions, "stop")
  <2>1. m \in Messages /\ m.k \in CommandKinds
    BY MsgType DEF CommandKinds, Cmds, OptionsKinds
  <2>2. PostCommand(m)
    BY <1>6 DEF StopTracking
  <2> HIDE DEF m
  <2> QED
    BY <1>1, <2>1, <2>2
<1>7. CASE ObservePower \/ ChangeConfig
  <2>1. PICK k \in {"observe", "config"} : PostCommand(Plain(k))
    BY <1>7 DEF ObservePower, ChangeConfig
  <2>2. Plain(k) \in Messages /\ Plain(k).k \in CommandKinds
    BY <2>1 DEF Plain, Msg, Messages, CommandKinds, ClientKinds, SessionKinds, ReplyKinds,
           OptionsKinds, Cmds
  <2> QED
    BY <1>1, <2>1, <2>2
<1> QED
  BY <1>2, <1>3, <1>4, <1>5, <1>6, <1>7 DEF ClientStep

\* The engine serves the first request.  It refuses only while the link is down.
LEMMA ServedServe ==
  ASSUME TypeOK, Staged, Served, ~MayFail, NEW ok \in BOOLEAN, Serve(ok)
  PROVE  Staged' /\ Served'
<1> DEFINE call == Head(apiQ)
           m    == [call.reply EXCEPT !.ok = ok]
<1>1. /\ apiQ \in Seq(FitCalls) /\ apiQ # << >> /\ apiQ' = Tail(apiQ)
      /\ call.op # "open"
      /\ msgQ' = IF call.reply.k = "ignore" THEN msgQ ELSE Append(msgQ, m)
      /\ UNCHANGED <<link, pending, sessions, spe, nhz>>
  BY DEF Staged, Serve, Post, EngineKeeps, sessionVars, modeVars
<1>2. call \in FitCalls /\ apiQ' \in Seq(FitCalls)
  BY <1>1, HeadTailProperties
<1>3. Opening(apiQ) => Opening(apiQ')
  BY <1>1, OpeningKept
<1>4. m \in FitMessages /\ m.k = call.reply.k /\ m.ok = ok /\ m.k # "engineUp"
  BY <1>2 DEF FitCalls, FitMessages, ApiCalls, Messages, ReplyKinds
<1>5. ok \/ link = "down"
  BY DEF Serve
<1> HIDE DEF m
<1>6. Staged'
  <2>1. msgQ \in Seq(FitMessages)
    BY DEF Staged
  <2>2. msgQ' \in Seq(FitMessages)
    BY <1>1, <1>4, <2>1, AppendProperties
  <2>3. Opening(apiQ') \/ Redeemed(msgQ')
    <3>1. CASE ok
      <4>1. ~Refused(m)
        BY <1>4, <3>1 DEF Refused
      <4>2. Redeemed(msgQ) => Redeemed(msgQ')
        BY <1>1, <1>4, <2>1, <4>1, RedeemedAppend
      <4> QED
        BY <1>3, <4>2 DEF Staged
    <3>2. CASE link = "down"
      BY <1>3, <3>2 DEF Staged
    <3> QED
      BY <1>5, <3>1, <3>2
  <2> QED
    BY <1>1, <1>2, <1>3, <2>2, <2>3 DEF Staged
<1>7. Restarting => Restarting'
  <2>1. Rising(msgQ) => Rising(msgQ')
    BY <1>1, <1>4, RisingKept DEF Staged
  <2> QED
    BY <1>3, <2>1 DEF Restarting
<1>8. ASSUME ~Restarting, Runs PROVE Runs'
  <2>1. ok
    BY <1>5, <1>8 DEF Restarting, Staged
  <2>2. engine' = CASE call.op = "startTime" ->
                         [on |-> TRUE, interval |-> call.opts.interval, power |-> call.opts.power]
                    [] call.op = "stopFix" -> Off
                    [] OTHER -> engine
    BY <2>1 DEF Serve, Perform
  <2>3. \/ engine' = engine /\ ~Drives(call)
        \/ call.op = "startTime" /\ engine'.on /\ engine'.interval = call.opts.interval
        \/ call.op = "stopFix"
    <3>1. CASE call.op = "startTime"
      BY <2>2, <3>1
    <3>2. CASE call.op = "stopFix"
      BY <3>2
    <3>3. CASE call.op # "startTime" /\ call.op # "stopFix"
      BY <2>2, <3>3 DEF Drives
    <3> QED
      BY <3>1, <3>2, <3>3
  <2>4. \A b : RunsAt(apiQ, engine, b) => RunsAt(apiQ', engine', b)
    BY <1>1, <2>3, RunsTail
  <2>5. Asked' = Asked
    BY <1>1 DEF Asked, Intervals, TimeIds, In
  <2>6. spe' = spe
    BY <1>1
  <2> QED
    BY <1>8, <2>4, <2>5, <2>6 DEF Runs
<1> QED
  BY <1>6, <1>7, <1>8 DEF Served

LEMMA ServedLink ==
  ASSUME TypeOK, Staged, OpenLink \/ ModemReset
  PROVE  Staged' /\ Served'
<1>0. UNCHANGED <<pending, sessions, spe, nhz>>
  BY DEF OpenLink, ModemReset, EngineKeeps, sessionVars, modeVars
<1>1. CASE OpenLink
  <2> DEFINE m == Plain("engineUp")
  <2>1. m \in Messages
    BY DEF Plain, Msg, Messages, CommandKinds, ClientKinds, SessionKinds, ReplyKinds,
           OptionsKinds, Cmds
  <2>2. m.k = "engineUp" /\ m \in FitMessages
    BY <2>1 DEF Plain, Msg, FitMessages
  <2>3. /\ apiQ # << >> /\ apiQ' = Tail(apiQ) /\ msgQ' = Append(msgQ, m) /\ link' = "up"
        /\ msgQ \in Seq(FitMessages) /\ apiQ \in Seq(FitCalls)
    BY <1>1 DEF OpenLink, Post, Staged
  <2> HIDE DEF m
  <2>4. Rising(msgQ') /\ Redeemed(msgQ') /\ msgQ' \in Seq(FitMessages)
    BY <2>2, <2>3, RedeemedAppend, AppendProperties
  <2>5. apiQ' \in Seq(FitCalls)
    BY <2>3, HeadTailProperties
  <2>6. Staged'
    BY <1>0, <2>3, <2>4, <2>5 DEF Staged
  <2> QED
    BY <2>4, <2>6 DEF Served, Restarting
<1>2. CASE ModemReset
  <2>1. apiQ' = apiQ \o <<Open>> /\ msgQ' = msgQ /\ apiQ \in Seq(FitCalls) /\ Open \in FitCalls
    BY <1>2, FitIgnore DEF ModemReset, Request, Staged
  <2>2. Opening(apiQ')
    <3>1. Open.op = "open"
      BY DEF Open, Call
    <3> QED
      BY <2>1, <3>1, OpeningLast
  <2>3. apiQ' \in Seq(FitCalls)
    <3>1. apiQ' = Append(apiQ, Open)
      BY <2>1, AppendIsConcat
    <3> QED
      BY <2>1, <3>1, AppendProperties
  <2>4. Staged'
    BY <1>0, <2>1, <2>2, <2>3 DEF Staged
  <2> QED
    BY <2>2, <2>4 DEF Served, Restarting
<1> QED
  BY <1>1, <1>2

-----------------------------------------------------------------------------

LEMMA ServedInit == Init => Staged /\ Served
<1> SUFFICES ASSUME Init PROVE Staged /\ Served
  OBVIOUS
<1>1. Open \in FitCalls /\ Open.op = "open"
  BY FitIgnore DEF Open, Call
<1>2. apiQ = <<Open>> /\ msgQ = << >> /\ pending = << >> /\ ~spe
  BY DEF Init
<1> HIDE DEF Open
<1>3. Opening(apiQ) /\ apiQ \in Seq(FitCalls)
  BY <1>1, <1>2 DEF Opening
<1>4. msgQ \in Seq(FitMessages) /\ pending \in Seq(Waiting)
  BY <1>2
<1> QED
  BY <1>2, <1>3, <1>4 DEF Staged, Served, Restarting

LEMMA ServedNext ==
  ASSUME ~MayFail, DistanceSupported, TypeOK, Staged, Served, [Next]_vars
  PROVE  Staged' /\ Served'
<1>1. CASE Next
  BY <1>1, ServedClient, ServedAdapter, ServedRestart, ServedServe, ServedLink
  DEF Next, LocApiStep
<1>2. CASE UNCHANGED vars
  <2>1. UNCHANGED <<msgQ, pending, sessions, spe, nhz, apiQ, link, engine>>
    BY <1>2 DEF vars, sessionVars, modeVars, engineVars
  <2>2. Asked' = Asked
    BY <2>1 DEF Asked, Intervals, TimeIds, In
  <2>3. Staged' /\ Restarting' = Restarting
    BY <2>1 DEF Staged, Restarting
  <2>4. Runs => Runs'
    BY <2>1, <2>2 DEF Runs
  <2> QED
    BY <2>3, <2>4 DEF Served
<1> QED
  BY <1>1, <1>2

LEMMA ServedAtRest == Served /\ Staged => SessionsAreServed
<1> SUFFICES ASSUME Served, Staged, AtRest, TimeIds # {}
             PROVE  engine.on /\ \A i \in TimeIds : engine.interval <= sessions.time[i].interval
  BY DEF SessionsAreServed
<1>1. apiQ = << >> /\ msgQ = << >>
  BY DEF AtRest
<1>2. ~Restarting
  BY <1>1 DEF Restarting, Opening, Rising
<1>3. \A b \in Asked : engine.on /\ engine.interval <= b
  BY <1>1, <1>2 DEF Served, Runs, RunsAt
<1>4. \A i \in TimeIds : sessions.time[i].interval \in Asked
  BY DEF Asked, Intervals
<1> QED
  BY <1>3, <1>4

\* Once all messages and requests are served and the modem is reachable, the
\* engine runs whenever there is a time based session, at least as often as the
\* most demanding of them asked; through multiplexing, sessions of clients that
\* leave, configuration changes, the NHz requirement, refused updates and any
\* number of modem resets.
THEOREM ServedSessions ==
  ASSUME ~MayFail, DistanceSupported
  PROVE  Spec => []SessionsAreServed
<1>1. Init => Staged /\ Served
  BY ServedInit
<1>2. TypeOK /\ Staged /\ Served /\ [Next]_vars => Staged' /\ Served'
  BY ServedNext
<1>3. Staged /\ Served => SessionsAreServed
  BY ServedAtRest
<1> QED
  BY <1>1, <1>2, <1>3, TypeCorrect, PTL DEF Spec

-----------------------------------------------------------------------------
(* Time based sessions only: stops, removals and the idle engine.          *)
(*                                                                         *)
(* What follows is about clients that ask for time based sessions only, an *)
(* engine that does not refuse requests at will and a modem that is not    *)
(* reset.  With distance based sessions the properties do not hold of      *)
(* every client (a stop may be overtaken by the answer to an update), and  *)
(* a refused request or a reset leaves the engine to the next restart.     *)

TimeOnly == \A o \in Requests : ~o.distance

\* Nothing is distance based (Calm), nothing is postponed and nothing fails.
TimeMessages == {m \in Messages : /\ m.k \in {"start", "update"} => ~m.opts.distance
                                  /\ m.k \in ReplyKinds => m.ok}
Timely ==
  /\ Calm
  /\ pending = << >>
  /\ link = "down" => apiQ # << >> /\ Head(apiQ).op = "open"
  /\ msgQ \in Seq(TimeMessages)

\* When the requests q are served, an engine in state e is off.
OffAt(q, e) ==
  \/ \E n \in DOMAIN q : q[n].op = "stopFix" /\ \A m \in DOMAIN q : m > n => ~Drives(q[m])
  \/ (\A n \in DOMAIN q : ~Drives(q[n])) /\ ~e.on

Resting == TimeIds = {} => OffAt(apiQ, engine)

\* A session that has not begun, or is saved, or whose start is on its way.
Coming(id) == \E n \in DOMAIN msgQ : msgQ[n].k = "start" /\ msgQ[n].id = id
Over       == {id \in Ids : id < nextId /\ id \notin TimeIds /\ ~Coming(id)}

\* From the moment a stop is handled until its answer and ever after its session
\* is over, because no start comes after a stop in the queue.
Ordered ==
  /\ stopAnswered \subseteq Over
  /\ \A n \in DOMAIN apiQ : apiQ[n].reply.cmd = "stop" => apiQ[n].reply.id \in Over
  /\ \A n \in DOMAIN msgQ : msgQ[n].k \in ReplyKinds /\ msgQ[n].cmd = "stop" => msgQ[n].id \in Over
  /\ \A n \in DOMAIN msgQ : msgQ[n].k \in {"start", "update"} => msgQ[n].cmd # "stop"
  /\ \A n \in DOMAIN msgQ : msgQ[n].k = "stop" =>
       /\ msgQ[n].id < nextId
       /\ \A m \in DOMAIN msgQ : m > n => ~(msgQ[m].k = "start" /\ msgQ[m].id = msgQ[n].id)

\* A session is saved for a client the adapter knows.
Owned ==
  /\ \A i \in Ids : i >= nextId => owner[i] = NoClient
  /\ \A id \in TimeIds : owner[id] \in Clients /\ clientData[owner[id]] # "absent"
  /\ \A n \in DOMAIN msgQ : msgQ[n].k = "start" => owner[msgQ[n].id] = msgQ[n].client

\* The inductive invariant.
Steady == /\ budget.resets <= Budget.resets
          /\ NeverReset => Timely /\ Resting /\ Ordered /\ Owned
-----------------------------------------------------------------------------
(* Which steps are left *)

TimelyReplies == ReplyStarted \/ ReplyRestore
TimelySimple  == \/ SaveClient \/ SavePowerStateCallback \/ StartWithoutCallbacks
                 \/ UnknownId("update") \/ UnknownId("stop") \/ ReplyReport
                 \/ BeginRemove \/ EraseClient
TimelyPlan    == StartTimeBased \/ UpdateTimeBased \/ StopTimeBased
TimelyRestart == EngineUp \/ ApplyConfig \/ NHzRequirement
TimelyStep    == \/ ClientStep \/ TimelySimple \/ TimelyPlan \/ SweepTimeBased
                 \/ TimelyRestart \/ EndRestart \/ TimelyReplies \/ LocApiStep

LEMMA TimelyReceive ==
  ASSUME TypeOK, Timely, NEW k, Receive(k)
  PROVE  /\ msg \in TimeMessages /\ msg \in SafeMessages /\ msg \in Messages /\ msg.k = k
         /\ msgQ # << >> /\ Head(msgQ) = msg /\ msgQ' = Tail(msgQ)
         /\ msgQ' \in Seq(TimeMessages)
BY HeadTailProperties, SafeReceive DEF Timely, Receive, msg

LEMMA TimelySteps ==
  ASSUME TypeOK, Timely, Next, ~ModemReset
  PROVE  TimelyStep
<1>1. (\E k : Receive(k)) => (msg.k \in {"start", "update"} => ~msg.opts.distance)
  BY TimelyReceive DEF TimeMessages
<1>2. ~Postpone
  BY TimelyReceive DEF Postpone, TimeMessages
<1>3. CASE \E k : Receive(k)
  <2>1. /\ ~StartDistanceBased /\ ~TimeToDistance /\ ~DistanceToTime /\ ~UpdateDistanceBased
        /\ ~StopDistanceBased /\ ~SweepDistanceBased /\ ~RestartDistanceBased
        /\ ~ReplySwitchToTime /\ ~ReplyDistanceRestart /\ ~ReplyDistanceSave
        /\ ~ReplyDistanceStopped /\ ~ReplyDistanceSwept
    BY <1>1, <1>3, CalmForbids DEF Timely
  <2> QED
    BY <1>2, <2>1
    DEF Next, AdapterStep, TimelyStep, TimelySimple, TimelyPlan, TimelyRestart, TimelyReplies
<1>4. CASE ~\E k : Receive(k)
  <2>1. /\ ~StartDistanceBased /\ ~TimeToDistance /\ ~DistanceToTime /\ ~UpdateDistanceBased
        /\ ~StopDistanceBased /\ ~ReplySwitchToTime /\ ~ReplyDistanceRestart
        /\ ~ReplyDistanceSave /\ ~ReplyDistanceStopped /\ ~ReplyDistanceSwept
    BY <1>4
    DEF StartDistanceBased, TimeToDistance, DistanceToTime, UpdateDistanceBased, Begin,
        StopDistanceBased, ReplySwitchToTime, ReplyDistanceRestart, ReplyDistanceSave,
        ReplyDistanceStopped, ReplyDistanceSwept
  <2>2. ~SweepDistanceBased /\ ~RestartDistanceBased
    BY DEF Timely, Calm, SweepDistanceBased, RestartDistanceBased, First
  <2> QED
    BY <1>2, <2>1, <2>2
    DEF Next, AdapterStep, TimelyStep, TimelySimple, TimelyPlan, TimelyRestart, TimelyReplies
<1> QED
  BY <1>3, <1>4

\* While the modem is not reset no request fails.
LEMMA NothingFails ==
  ASSUME TypeOK, Timely, ~MayFail, NEW ok \in BOOLEAN, Serve(ok)
  PROVE  ok /\ link = "up"
BY DEF Serve, Timely, TypeOK

\* Nor is a session given back or taken away by an answer.
LEMMA AnswersKeepSessions ==
  ASSUME TypeOK, Timely, TimelyReplies
  PROVE  /\ sessions' = sessions /\ apiQ' = apiQ
         /\ Report(msg, msg.ok)
         /\ \E k \in ReplyKinds : Receive(k)
<1>1. CASE ReplyStarted
  <2>1. msg \in TimeMessages /\ msg.k = "started"
    BY <1>1, TimelyReceive DEF ReplyStarted
  <2>2. msg.ok /\ "started" \in ReplyKinds
    BY <2>1 DEF TimeMessages, ReplyKinds
  <2> QED
    BY <1>1, <2>2 DEF ReplyStarted, SetSessions
<1>2. CASE ReplyRestore
  <2>1. msg \in TimeMessages /\ msg.k = "restore"
    BY <1>2, TimelyReceive DEF ReplyRestore
  <2>2. msg.ok /\ "restore" \in ReplyKinds
    BY <2>1 DEF TimeMessages, ReplyKinds
  <2> QED
    BY <1>2, <2>2 DEF ReplyRestore, SetSessions
<1> QED
  BY <1>1, <1>2 DEF TimelyReplies

\* What the handlers with a plan do.
LEMMA PlanEffect ==
  ASSUME TypeOK, Timely, TimelyPlan
  PROVE  /\ \E plan \in Honest(RepliesOf(msg.id, msg.cmd)) : Follow(plan, msg)
         /\ msg.id \in Ids
         /\ \/ /\ StartTimeBased /\ Receive("start") /\ TimeIds' = TimeIds \cup {msg.id}
               /\ clientData[msg.client] = "tracking"
            \/ /\ UpdateTimeBased /\ Receive("update") /\ msg.id \in TimeIds
               /\ TimeIds' = TimeIds
            \/ /\ StopTimeBased /\ Receive("stop") /\ msg.id \in TimeIds
               /\ TimeIds' = TimeIds \ {msg.id}
<1>1. PICK k \in {"start", "update", "stop"} : Receive(k)
  BY DEF TimelyPlan, StartTimeBased, UpdateTimeBased, StopTimeBased, Begin
<1>2. msg \in TimeMessages /\ msg \in Messages /\ msg.k = k
  BY <1>1, TimelyReceive
<1>3. msg.client \in Clients /\ msg.id \in Ids /\ msg.cmd \in Cmds
  BY <1>2, MessageFields DEF ClientKinds, SessionKinds
<1>4. k # "stop" => Clamped(msg.opts) \in Options /\ ~Clamped(msg.opts).distance
  BY <1>2, MessageFields, ClampedType DEF OptionsKinds, TimeMessages
<1>5. sessions \in SessionMaps /\ NoOptions \notin Options
  BY CalmSessions, ConstantsAssumption DEF Timely
<1> DEFINE R == RepliesOf(msg.id, msg.cmd)
<1>6. CASE StartTimeBased
  <2>1. /\ Receive("start") /\ sessions' = Saved(sessions, msg.id, Clamped(msg.opts))
        /\ clientData[msg.client] = "tracking"
    BY <1>6 DEF StartTimeBased, Begin, SetSessions
  <2>2. k = "start"
    BY <1>2, <2>1, TimelyReceive
  <2> DEFINE o == Clamped(msg.opts)
  <2>3. o \in Options /\ ~o.distance
    BY <1>4, <2>2
  <2> HIDE DEF o
  <2>4. TimeIds' = TimeIds \cup {msg.id}
    BY <1>3, <1>5, <2>1, <2>3 DEF Saved, TimeIds, In, SessionMaps, o
  <2> DEFINE reply == Msg("started", msg.client, msg.id, NoOptions, msg.cmd)
  <2>5. Starts(CallsFor(R), reply)
    <3>1. reply \in Messages /\ reply.k = "started"
      BY <1>3, ReplyType DEF ReplyKinds, OptionsKinds
    <3>2. reply.id = msg.id /\ reply.cmd = msg.cmd
      BY DEF Msg
    <3> HIDE DEF reply
    <3> QED
      BY <3>1, <3>2, StartsFor DEF RepliesOf, ReplyKinds
  <2> HIDE DEF R
  <2>6. StartPlans(o, Msg("started", msg.client, msg.id, NoOptions, msg.cmd)) \subseteq Honest(R)
    BY <2>3, <2>5, HonestStart
  <2>7. \E plan \in Honest(R) : Follow(plan, msg)
    BY <1>6, <2>6 DEF StartTimeBased, o
  <2> QED
    BY <1>3, <1>6, <2>1, <2>4, <2>7 DEF R
<1>7. CASE UpdateTimeBased
  <2> DEFINE old == sessions.time[msg.id]
  <2>1. /\ Receive("update") /\ sessions' = Saved(sessions, msg.id, Clamped(msg.opts))
        /\ msg.id \in TimeIds
    BY <1>7 DEF UpdateTimeBased, Begin, SetSessions
  <2>2. k = "update"
    BY <1>2, <2>1, TimelyReceive
  <2> DEFINE o == Clamped(msg.opts)
  <2>3. o \in Options /\ ~o.distance
    BY <1>4, <2>2
  <2> HIDE DEF o
  <2>4. TimeIds' = TimeIds
    BY <1>3, <1>5, <2>1, <2>3 DEF Saved, TimeIds, In, SessionMaps, o
  <2>5. old \in Options
    BY <2>1, SessionType
  <2> DEFINE reply == Msg("restore", msg.client, msg.id, old, msg.cmd)
  <2>6. Starts(CallsFor(R), reply)
    <3>1. reply \in Messages /\ reply.k = "restore"
      BY <1>3, <2>5, ReplyWithOptionsType DEF OptionsKinds, ReplyKinds
    <3>2. reply.id = msg.id /\ reply.cmd = msg.cmd
      BY DEF Msg
    <3> HIDE DEF reply
    <3> QED
      BY <3>1, <3>2, StartsFor DEF RepliesOf, ReplyKinds
  <2> HIDE DEF R
  <2>7. UpdatePlans(msg.id, o, Msg("restore", msg.client, msg.id, old, msg.cmd)) \subseteq Honest(R)
    BY <2>1, <2>3, <2>6, HonestUpdate
  <2>8. \E plan \in Honest(R) : Follow(plan, msg)
    BY <1>7, <2>7 DEF UpdateTimeBased, o
  <2> QED
    BY <1>3, <1>7, <2>1, <2>4, <2>8 DEF R
<1>8. CASE StopTimeBased
  <2>1. /\ Receive("stop") /\ sessions' = Erased(sessions, msg.id) /\ msg.id \in TimeIds
    BY <1>8 DEF StopTimeBased, SetSessions
  <2>2. TimeIds' = TimeIds \ {msg.id}
    BY <1>3, <1>5, <2>1 DEF Erased, TimeIds, In, SessionMaps
  <2>3. StopPlans(msg.client, msg.id, msg.cmd) \subseteq Honest(R)
    BY <1>3, <2>1, HonestStop
  <2>4. \E plan \in Honest(R) : Follow(plan, msg)
    BY <1>8, <2>3 DEF StopTimeBased
  <2> QED
    BY <1>3, <1>8, <2>1, <2>2, <2>4
<1> QED
  BY <1>6, <1>7, <1>8 DEF TimelyPlan

LEMMA SweepEffect ==
  ASSUME TypeOK, Timely, SweepTimeBased
  PROVE  \E id \in TimeIds :
           /\ \E plan \in StopPlans(sweep.client, id, "remove") :
                /\ Request(plan.calls)
                /\ plan \in Honest(RepliesOf(id, "remove"))
           /\ TimeIds' = TimeIds \ {id}
           /\ stopAnswered' = stopAnswered
           /\ sweep.client \in Clients
<1>1. PICK id \in Ids :
        /\ First(id, OwnedBy(sweep.client, TimeIds))
        /\ \E plan \in StopPlans(sweep.client, id, "remove") :
             /\ Request(plan.calls)
             /\ IF plan.answer = "sent"
                THEN Report(Msg("stop", sweep.client, id, NoOptions, "remove"), TRUE)
                ELSE UNCHANGED historyVars
        /\ sessions' = Erased(sessions, id)
  BY DEF SweepTimeBased, SetSessions
<1>2. sweep.client \in Clients /\ id \in TimeIds
  BY <1>1 DEF SweepTimeBased, First, OwnedBy, TypeOK, Sweeps
<1>3. StopPlans(sweep.client, id, "remove") \subseteq Honest(RepliesOf(id, "remove"))
  BY <1>2, HonestStop DEF Cmds
<1>4. sessions \in SessionMaps /\ NoOptions \notin Options
  BY CalmSessions, ConstantsAssumption DEF Timely
<1>5. TimeIds' = TimeIds \ {id}
  BY <1>1, <1>2, <1>4 DEF Erased, TimeIds, In, SessionMaps
<1>6. stopAnswered' = stopAnswered
  <2>1. Msg("stop", sweep.client, id, NoOptions, "remove").cmd # "stop"
    BY DEF Msg
  <2> QED
    BY <1>1, <2>1 DEF Report, historyVars
<1> QED
  BY <1>1, <1>2, <1>3, <1>5, <1>6

\* A restart is nobody's command.
IdleCalls == {call \in ApiCalls : call.reply.id = 0 /\ call.reply.cmd = "none"}

LEMMA RestartEffect ==
  ASSUME TypeOK, Timely, TimelyRestart
  PROVE  /\ \E s \in Seq(IdleCalls) : Request(s)
         /\ TimeIds = {} => apiQ' = apiQ
         /\ sessions' = sessions /\ stopAnswered' = stopAnswered
         /\ msgQ' = msgQ \/ \E k \in {"engineUp", "config"} : Receive(k)
         /\ UNCHANGED <<owner, nextId, clientData, pending, link, engine>>
<1> DEFINE C    == IdleCalls
           stop == Call("stopFix", NoOptions, Ignore)
<1>1. Ignore \in Messages /\ Ignore.k \in ReplyKinds /\ Ignore.id = 0 /\ Ignore.cmd = "none"
  BY IgnoreType DEF ReplyKinds, Ignore, Msg
<1>2. stop \in C
  BY <1>1 DEF IdleCalls, Call, ApiCalls, Ops
<1>3. Starts(C, Ignore)
  BY <1>1, StartsType DEF Starts, IdleCalls, Call
<1> HIDE DEF C, stop
<1>4. PICK need, first, k : /\ Restart(k, need, first)
                            /\ need \in BOOLEAN
                            /\ \/ first = << >>
                               \/ TimeIds # {} /\ first = <<stop>>
  <2>1. nhz \in BOOLEAN /\ (~nhz) \in BOOLEAN
    BY DEF TypeOK
  <2> QED
    BY <2>1 DEF TimelyRestart, EngineUp, ApplyConfig, NHzRequirement, stop
<1>5. PICK plan \in RestartPlans(need) : Request(first \o plan.calls)
  BY <1>4 DEF Restart
<1>6. plan.calls \in Seq(C)
  BY <1>3, <1>4, <1>5, RestartPlansType DEF PlansOf
<1>7. first \in Seq(C)
  <2>1. << >> \in Seq(C) /\ <<stop>> \in Seq(C)
    BY <1>2
  <2> QED
    BY <1>4, <2>1
<1>8. first \o plan.calls \in Seq(C)
  BY <1>6, <1>7, ConcatProperties
<1>9. ASSUME TimeIds = {} PROVE apiQ' = apiQ
  <2>1. first = << >> /\ plan.calls = << >>
    BY <1>4, <1>5, <1>9 DEF RestartPlans, NoRestart, NoCall
  <2>2. apiQ \in Seq(ApiCalls)
    BY DEF TypeOK
  <2> QED
    BY <1>5, <2>1, <2>2, ConcatEmptySeq DEF Request
<1>10. /\ sessions' = sessions /\ stopAnswered' = stopAnswered
       /\ msgQ' = msgQ \/ \E j \in {"engineUp", "config"} : Receive(j)
       /\ UNCHANGED <<owner, nextId, clientData, pending, link, engine>>
  BY DEF TimelyRestart, EngineUp, ApplyConfig, NHzRequirement, sessionVars, historyVars,
         AdapterKeeps, clientVars, engineVars
<1> QED
  BY <1>5, <1>8, <1>9, <1>10 DEF C

-----------------------------------------------------------------------------
(* Nothing becomes distance based, is postponed or fails *)

\* What a client's call posts.
PostsStart(m) ==
  /\ m.k = "start" /\ m.cmd = "start" /\ m.opts \in Requests
  /\ m.client \in Clients
  /\ m.id = nextId /\ nextId \in Ids
  /\ nextId' = nextId + 1 /\ owner' = [owner EXCEPT ![nextId] = m.client]
PostsUpdate(m) == m.k = "update" /\ m.cmd = "update" /\ m.opts \in Requests
PostsStop(m)   == m.k = "stop" /\ m.id \in Ids /\ m.client \in Clients /\ owner[m.id] = m.client
PostsOther(m)  == m.k \in {"add", "remove", "observe", "config"}

LEMMA ClientPosts ==
  ASSUME TypeOK, ClientStep
  PROVE  \E m \in Messages :
           /\ PostCommand(m) /\ stopAnswered' = stopAnswered
           /\ \/ PostsStart(m)
              \/ /\ PostsUpdate(m) \/ PostsStop(m) \/ PostsOther(m)
                 /\ UNCHANGED <<owner, nextId>>
<1> DEFINE Fits(m) == /\ PostCommand(m) /\ stopAnswered' = stopAnswered
                      /\ \/ PostsStart(m)
                         \/ /\ PostsUpdate(m) \/ PostsStop(m) \/ PostsOther(m)
                            /\ UNCHANGED <<owner, nextId>>
<1>1. ASSUME NEW m, Fits(m) PROVE m \in Messages
  <2>1. msgQ' = Append(msgQ, m) /\ msgQ \in Seq(Messages) /\ msgQ' \in Seq(Messages)
    BY <1>1, TypeClient DEF PostCommand, Post, TypeOK
  <2>2. Len(msgQ) + 1 \in DOMAIN msgQ' /\ msgQ'[Len(msgQ) + 1] = m
    BY <2>1
  <2> QED
    BY <2>1, <2>2
<1> SUFFICES \E m : Fits(m)
  BY <1>1
<1> USE DEF Msg, Plain
<1>2. ASSUME NEW c \in Clients, NEW cb, AddClient(c, cb) \/ UpdateCallbacks(c, cb)
      PROVE  \E m : Fits(m)
  <2> DEFINE m == [Msg("add", c, 0, NoOptions, "none") EXCEPT !.ok = cb]
  <2>1. m.k = "add" /\ PostCommand(m) /\ UNCHANGED <<owner, nextId, stopAnswered>>
    BY <1>2 DEF AddClient, UpdateCallbacks, clientVars, historyVars
  <2> HIDE DEF m
  <2> QED
    BY <2>1 DEF PostsOther
<1>3. ASSUME NEW c \in Clients, RemoveClient(c) PROVE \E m : Fits(m)
  BY <1>3 DEF RemoveClient, PostsOther, historyVars
<1>4. ASSUME NEW c \in Clients, NEW o \in Requests, StartTracking(c, o) PROVE \E m : Fits(m)
  <2> DEFINE m == Msg("start", c, nextId, o, "start")
  <2>1. PostCommand(m) /\ stopAnswered' = stopAnswered
    BY <1>4 DEF StartTracking
  <2>2. PostsStart(m)
    BY <1>4 DEF StartTracking, PostsStart
  <2> HIDE DEF m
  <2> QED
    BY <2>1, <2>2
<1>5. ASSUME NEW c \in Clients, NEW id \in Ids, NEW o \in Requests, UpdateTrackingOptions(c, id, o)
      PROVE  \E m : Fits(m)
  BY <1>5 DEF UpdateTrackingOptions, PostsUpdate, clientVars
<1>6. ASSUME NEW c \in Clients, NEW id \in Ids, StopTracking(c, id) PROVE \E m : Fits(m)
  BY <1>6 DEF StopTracking, MayCommand, PostsStop, clientVars
<1>7. ASSUME ObservePower \/ ChangeConfig PROVE \E m : Fits(m)
  BY <1>7 DEF ObservePower, ChangeConfig, PostsOther, clientVars, historyVars
<1> QED
  BY <1>2, <1>3, <1>4, <1>5, <1>6, <1>7 DEF ClientStep

\* Requests come behind the open that an unreachable engine waits for.
LEMMA OpenKept ==
  ASSUME TypeOK, Timely, NEW s \in Seq(ApiCalls), Request(s), link' = link
  PROVE  link' = "down" => apiQ' # << >> /\ Head(apiQ').op = "open"
<1>1. apiQ \in Seq(ApiCalls) /\ apiQ' = apiQ \o s
  BY DEF TypeOK, Request
<1>2. apiQ # << >> => apiQ \o s # << >> /\ Head(apiQ \o s) = Head(apiQ)
  BY <1>1, ConcatProperties, HeadTailProperties
<1> QED
  BY <1>1, <1>2 DEF Timely

LEMMA TimelyClient ==
  ASSUME TypeOK, TimeOnly, Timely, ClientStep
  PROVE  Timely'
<1>1. PICK m \in Messages :
        PostCommand(m) /\ (PostsStart(m) \/ PostsUpdate(m) \/ PostsStop(m) \/ PostsOther(m))
  BY ClientPosts
<1>2. m \in TimeMessages
  BY <1>1 DEF PostsStart, PostsUpdate, PostsStop, PostsOther, TimeMessages, TimeOnly, ReplyKinds
<1>3. msgQ \in Seq(TimeMessages) /\ msgQ' = Append(msgQ, m)
  BY <1>1 DEF Timely, PostCommand, Post
<1>4. msgQ' \in Seq(TimeMessages)
  BY <1>2, <1>3, AppendProperties
<1>5. Calm'
  BY CalmClient DEF Timely
<1>6. UNCHANGED <<pending, link, apiQ>>
  BY <1>1 DEF PostCommand, engineVars
<1> QED
  BY <1>4, <1>5, <1>6 DEF Timely

\* The adapter thread.
LEMMA TimelyAdapter ==
  ASSUME TypeOK, Timely,
         TimelySimple \/ TimelyPlan \/ SweepTimeBased \/ TimelyRestart \/ TimelyReplies
  PROVE  Timely'
<1>1. /\ UNCHANGED <<pending, link>>
      /\ msgQ' = msgQ \/ \E k : Receive(k)
      /\ (\E s \in Seq(ApiCalls) : Request(s)) \/ apiQ' = apiQ
  <2>1. CASE TimelySimple
    BY <2>1 DEF TimelySimple, SaveClient, SavePowerStateCallback, StartWithoutCallbacks, UnknownId,
                ReplyReport, BeginRemove, EraseClient, Begin, AdapterKeeps, engineVars
  <2>2. CASE TimelyPlan
    <3>1. PICK plan \in Honest(RepliesOf(msg.id, msg.cmd)) : Follow(plan, msg)
      BY <2>2, PlanEffect
    <3>2. plan.calls \in Seq(ApiCalls) /\ Request(plan.calls)
      BY <3>1 DEF Honest, PlansOf, CallsFor, Follow
    <3> QED
      BY <2>2, <3>2 DEF TimelyPlan, StartTimeBased, UpdateTimeBased, StopTimeBased, Begin,
                        AdapterKeeps, engineVars
  <2>3. CASE SweepTimeBased
    <3>0. PICK id : \E plan \in Honest(RepliesOf(id, "remove")) : Request(plan.calls)
      BY <2>3, SweepEffect
    <3>1. PICK plan \in Honest(RepliesOf(id, "remove")) : Request(plan.calls)
      BY <3>0
    <3>2. plan.calls \in Seq(ApiCalls)
      BY <3>1 DEF Honest, PlansOf, CallsFor
    <3> QED
      BY <2>3, <3>1, <3>2 DEF SweepTimeBased, AdapterKeeps, engineVars
  <2>4. CASE TimelyRestart
    <3>1. PICK s \in Seq(IdleCalls) : Request(s)
      BY <2>4, RestartEffect
    <3>2. s \in Seq(ApiCalls)
      BY DEF IdleCalls
    <3> QED
      BY <2>4, <3>1, <3>2, RestartEffect
  <2>5. CASE TimelyReplies
    BY <2>5 DEF TimelyReplies, ReplyStarted, ReplyRestore, AdapterKeeps, engineVars
  <2> QED
    BY <2>1, <2>2, <2>3, <2>4, <2>5
<1>2. Calm'
  <2>1. Calm
    BY DEF Timely
  <2>2. CASE TimelySimple
    BY <2>1, <2>2, CalmSimple DEF TimelySimple
  <2>3. CASE TimelyPlan
    <3>1. msg.k \in {"start", "update"} => ~msg.opts.distance
      BY <2>3, TimelyReceive
      DEF TimelyPlan, StartTimeBased, UpdateTimeBased, StopTimeBased, Begin, TimeMessages
    <3> QED
      BY <2>1, <2>3, <3>1, CalmPlan DEF TimelyPlan
  <2>4. CASE SweepTimeBased
    BY <2>1, <2>4, CalmSweep
  <2>5. CASE TimelyRestart
    BY <2>1, <2>5, CalmRestart DEF TimelyRestart
  <2>6. CASE TimelyReplies
    BY <2>1, <2>6, CalmReply DEF TimelyReplies
  <2> QED
    BY <2>2, <2>3, <2>4, <2>5, <2>6
<1>3. msgQ' \in Seq(TimeMessages)
  BY <1>1, TimelyReceive DEF Timely
<1>4. link' = "down" => apiQ' # << >> /\ Head(apiQ').op = "open"
  BY <1>1, OpenKept DEF Timely
<1> QED
  BY <1>1, <1>2, <1>3, <1>4 DEF Timely

LEMMA TimelyEnd ==
  ASSUME TypeOK, Timely, EndRestart
  PROVE  /\ Timely' /\ msgQ' = msgQ
         /\ UNCHANGED <<owner, nextId, clientData, sessions, apiQ, engine, stopAnswered>>
<1>1. msgQ' = msgQ /\ pending' = << >>
  BY ConcatEmptySeq DEF EndRestart, Timely
<1>2. UNCHANGED <<owner, nextId, clientData, sessions, apiQ, engine, link, stopAnswered>>
  BY DEF EndRestart, AdapterKeeps, clientVars, sessionVars, engineVars, historyVars
<1>3. sweep'.left = {}
  BY DEF EndRestart, Idling
<1> QED
  BY <1>1, <1>2, <1>3 DEF Timely, Calm, NoDistance

\* What the LocApi thread does.
TimelyPost ==
  \/ msgQ' = msgQ
  \/ \E m \in TimeMessages :
       /\ msgQ' = Append(msgQ, m)
       /\ \/ m = Plain("engineUp")
          \/ m.k \in ReplyKinds /\ m.id = Head(apiQ).reply.id /\ m.cmd = Head(apiQ).reply.cmd

LEMMA TimelyServe ==
  ASSUME TypeOK, Timely, ~MayFail, LocApiStep
  PROVE  /\ Timely' /\ TimelyPost
         /\ apiQ # << >> /\ apiQ' = Tail(apiQ)
         /\ UNCHANGED <<owner, nextId, clientData, sessions, stopAnswered>>
         /\ engine' = CASE Head(apiQ).op = "startTime" ->
                             [on |-> TRUE, interval |-> Head(apiQ).opts.interval,
                              power |-> Head(apiQ).opts.power]
                        [] Head(apiQ).op = "stopFix" -> Off
                        [] OTHER -> engine
<1>1. /\ apiQ # << >> /\ apiQ' = Tail(apiQ)
      /\ UNCHANGED <<owner, nextId, clientData, sessions, pending, stopAnswered>>
  BY DEF LocApiStep, OpenLink, Serve, EngineKeeps, clientVars, sessionVars, historyVars
<1>2. Calm'
  BY CalmLocApi DEF Timely
<1>3. CASE OpenLink
  <2>1. Plain("engineUp") \in TimeMessages
    BY DEF Plain, Msg, TimeMessages, Messages, CommandKinds, ClientKinds, SessionKinds, ReplyKinds,
           OptionsKinds, Cmds
  <2>2. msgQ' = Append(msgQ, Plain("engineUp")) /\ link' = "up" /\ engine' = engine
    BY <1>3 DEF OpenLink, Post
  <2>3. msgQ' \in Seq(TimeMessages)
    BY <2>1, <2>2, AppendProperties DEF Timely
  <2>4. Head(apiQ).op # "startTime" /\ Head(apiQ).op # "stopFix"
    BY <1>3 DEF OpenLink
  <2> QED
    BY <1>1, <1>2, <2>1, <2>2, <2>3, <2>4 DEF Timely, TimelyPost
<1>4. CASE \E ok \in BOOLEAN : Serve(ok)
  <2>1. Serve(TRUE) /\ link = "up"
    BY <1>4, NothingFails
  <2> DEFINE call == Head(apiQ)
             m    == [call.reply EXCEPT !.ok = TRUE]
  <2>2. call \in ApiCalls
    BY <1>1 DEF TypeOK
  <2>3. /\ m \in TimeMessages /\ m.k \in ReplyKinds
        /\ m.id = call.reply.id /\ m.cmd = call.reply.cmd
    BY <2>2 DEF ApiCalls, TimeMessages, Messages, ReplyKinds
  <2>4. msgQ' = msgQ \/ msgQ' = Append(msgQ, m)
    BY <2>1 DEF Serve, Post
  <2>5. engine' = CASE call.op = "startTime" ->
                         [on |-> TRUE, interval |-> call.opts.interval, power |-> call.opts.power]
                    [] call.op = "stopFix" -> Off
                    [] OTHER -> engine
    BY <2>1 DEF Serve, Perform
  <2>6. link' = link
    BY <2>1 DEF Serve
  <2> HIDE DEF m
  <2>7. msgQ' \in Seq(TimeMessages)
    BY <2>3, <2>4, AppendProperties DEF Timely
  <2>8. TimelyPost
    BY <2>3, <2>4 DEF TimelyPost
  <2> QED
    BY <1>1, <1>2, <2>1, <2>5, <2>6, <2>7, <2>8 DEF Timely
<1> QED
  BY <1>3, <1>4 DEF LocApiStep

-----------------------------------------------------------------------------
(* The idle engine is off, or told to go off *)

LEMMA OffAppend ==
  ASSUME NEW X, NEW q \in Seq(X), NEW call \in X, call.op = "stopFix", NEW e
  PROVE  OffAt(q \o <<call>>, e)
<1> DEFINE r == q \o <<call>>
<1>1. /\ Len(q) + 1 \in DOMAIN r /\ r[Len(q) + 1] = call
      /\ \A m \in DOMAIN r : ~(m > Len(q) + 1)
  <2>1. <<call>> \in Seq(X) /\ Len(<<call>>) = 1 /\ <<call>>[1] = call
    OBVIOUS
  <2>2. Len(r) = Len(q) + 1 /\ DOMAIN r = 1 .. Len(r) /\ Len(q) \in Nat /\ r[Len(q) + 1] = call
    BY <2>1, ConcatProperties
  <2> HIDE DEF r
  <2> QED
    BY <2>2
<1> HIDE DEF r
<1>2. OffAt(r, e)
  BY <1>1 DEF OffAt
<1> QED
  BY <1>2 DEF r

LEMMA OffTail ==
  ASSUME NEW X, NEW q \in Seq(X), q # << >>, NEW e, NEW f, OffAt(q, e),
         Head(q).op = "stopFix" => f = Off,
         ~Drives(Head(q)) => f = e
  PROVE  OffAt(Tail(q), f)
<1> DEFINE r == Tail(q)
<1>1. /\ Len(q) \in Nat \ {0} /\ DOMAIN q = 1 .. Len(q)
      /\ DOMAIN r = 1 .. Len(q) - 1
      /\ \A n \in 1 .. Len(q) - 1 : r[n] = q[n + 1]
      /\ Head(q) = q[1]
  BY HeadTailProperties
<1> HIDE DEF r
<1>2. ASSUME NEW n \in DOMAIN q, q[n].op = "stopFix", \A m \in DOMAIN q : m > n => ~Drives(q[m])
      PROVE  OffAt(r, f)
  <2>1. CASE n = 1
    <3>1. \A m \in DOMAIN r : ~Drives(r[m])
      BY <1>1, <1>2, <2>1
    <3>2. f = Off
      BY <1>1, <1>2, <2>1
    <3> QED
      BY <3>1, <3>2 DEF OffAt, Off
  <2>2. CASE n # 1
    <3>1. n - 1 \in DOMAIN r /\ r[n - 1] = q[n]
      BY <1>1, <2>2
    <3>2. \A m \in DOMAIN r : m > n - 1 => ~Drives(r[m])
      BY <1>1, <1>2
    <3> QED
      BY <1>2, <3>1, <3>2 DEF OffAt
  <2> QED
    BY <2>1, <2>2
<1>3. ASSUME \A n \in DOMAIN q : ~Drives(q[n]), ~e.on
      PROVE  OffAt(r, f)
  <2>1. \A m \in DOMAIN r : ~Drives(r[m])
    BY <1>1, <1>3
  <2>2. ~Drives(Head(q))
    BY <1>1, <1>3
  <2> QED
    BY <1>3, <2>1, <2>2 DEF OffAt
<1> QED
  BY <1>2, <1>3 DEF OffAt, r

\* The stop of the last session stops the engine.
LEMMA LastStop ==
  ASSUME TypeOK, NEW c \in Clients, NEW id \in TimeIds, NEW cmd \in Cmds, TimeIds \ {id} = {},
         NEW plan \in StopPlans(c, id, cmd), Request(plan.calls)
  PROVE  OffAt(apiQ', engine')
<1> DEFINE report == Msg("report", c, id, NoOptions, cmd)
           call   == Call("stopFix", NoOptions, report)
<1>1. plan.calls = <<call>>
  BY DEF StopPlans, StopEngine
<1>2. report \in Messages /\ report.k = "report"
  BY SessionType, ReplyType DEF ReplyKinds, OptionsKinds
<1> HIDE DEF report
<1>3. call \in ApiCalls /\ call.op = "stopFix"
  BY <1>2 DEF Call, ApiCalls, Ops, ReplyKinds
<1> HIDE DEF call
<1>4. apiQ \in Seq(ApiCalls) /\ apiQ' = apiQ \o <<call>>
  BY <1>1 DEF TypeOK, Request
<1> QED
  BY <1>3, <1>4, OffAppend

LEMMA RestingKept ==
  ASSUME TypeOK, Timely, ~MayFail, Resting, TimelyStep
  PROVE  Resting'
<1>1. CASE UNCHANGED <<sessions, apiQ, engine>>
  BY <1>1 DEF Resting, TimeIds, In
<1>2. CASE ClientStep
  <2>1. PICK m : PostCommand(m)
    BY <1>2, ClientPosts
  <2> QED
    BY <1>1, <2>1 DEF PostCommand, sessionVars, engineVars
<1>3. CASE TimelySimple
  <2>1. UNCHANGED <<sessions, apiQ, engine>>
    BY <1>3
    DEF TimelySimple, SaveClient, SavePowerStateCallback, StartWithoutCallbacks, UnknownId,
        ReplyReport, BeginRemove, EraseClient, AdapterKeeps, engineVars, sessionVars
  <2> QED
    BY <1>1, <2>1
<1>4. CASE TimelyPlan
  <2> SUFFICES ASSUME TimeIds' = {} PROVE OffAt(apiQ', engine')
    BY DEF Resting
  <2>1. StopTimeBased /\ msg.id \in TimeIds /\ TimeIds \ {msg.id} = {} /\ Receive("stop")
    BY <1>4, PlanEffect
  <2>2. msg.client \in Clients /\ msg.cmd \in Cmds
    BY <2>1, TimelyReceive, MessageFields DEF ClientKinds, SessionKinds
  <2>3. PICK plan \in StopPlans(msg.client, msg.id, msg.cmd) : Follow(plan, msg)
    BY <2>1 DEF StopTimeBased
  <2> QED
    BY <2>1, <2>2, <2>3, LastStop DEF Follow
<1>5. CASE SweepTimeBased
  <2> SUFFICES ASSUME TimeIds' = {} PROVE OffAt(apiQ', engine')
    BY DEF Resting
  <2>1. PICK id \in TimeIds :
          /\ \E plan \in StopPlans(sweep.client, id, "remove") : Request(plan.calls)
          /\ TimeIds \ {id} = {} /\ sweep.client \in Clients
    BY <1>5, SweepEffect
  <2> QED
    BY <2>1, LastStop DEF Cmds
<1>6. CASE TimelyRestart
  BY <1>6, RestartEffect DEF Resting, TimeIds, In
<1>7. CASE EndRestart
  BY <1>1, <1>7, TimelyEnd
<1>8. CASE TimelyReplies
  <2>1. engine' = engine
    BY <1>8 DEF TimelyReplies, ReplyStarted, ReplyRestore, AdapterKeeps, engineVars
  <2> QED
    BY <1>1, <1>8, <2>1, AnswersKeepSessions
<1>9. CASE LocApiStep
  <2>1. /\ apiQ # << >> /\ apiQ' = Tail(apiQ) /\ sessions' = sessions
        /\ engine' = CASE Head(apiQ).op = "startTime" ->
                            [on |-> TRUE, interval |-> Head(apiQ).opts.interval,
                             power |-> Head(apiQ).opts.power]
                       [] Head(apiQ).op = "stopFix" -> Off
                       [] OTHER -> engine
    BY <1>9, TimelyServe
  <2>2. /\ Head(apiQ).op = "stopFix" => engine' = Off
        /\ ~Drives(Head(apiQ)) => engine' = engine
    BY <2>1 DEF Drives
  <2>3. OffAt(apiQ, engine) => OffAt(apiQ', engine')
    BY <2>1, <2>2, OffTail DEF TypeOK
  <2> QED
    BY <2>1, <2>3 DEF Resting, TimeIds, In
<1> QED
  BY <1>2, <1>3, <1>4, <1>5, <1>6, <1>7, <1>8, <1>9 DEF TimelyStep

-----------------------------------------------------------------------------
(* What a step of the adapter does to sessions and answers *)

\* The message being handled is about a stop command.
AboutStop == msg.cmd = "stop" /\ msg.k \in {"start", "update", "stop"} \cup ReplyKinds

\* Requests whose answers are about a stop are old, or made for R.
StopsAsked(R) ==
  \A n \in DOMAIN apiQ' : apiQ'[n].reply.cmd = "stop" =>
    (\E m \in DOMAIN apiQ : apiQ[m] = apiQ'[n]) \/ apiQ'[n].reply.id \in R

\* A client is forgotten when it has no sessions.
KnowsOwners ==
  \A c \in Clients : clientData[c] # "absent" =>
    clientData'[c] # "absent" \/ OwnedBy(c, TimeIds)' = {}

\* A step that takes a message, and one that does not.
Handled(k) ==
  /\ Receive(k) /\ UNCHANGED <<owner, nextId>> /\ KnowsOwners
  /\ StopsAsked(IF AboutStop THEN {msg.id} ELSE {})
  /\ \A id \in stopAnswered' : id \in stopAnswered \/ (AboutStop /\ id = msg.id)
  /\ k = "stop" => msg.id \notin TimeIds'
  /\ \A id \in TimeIds' : \/ id \in TimeIds
                          \/ k = "start" /\ id = msg.id /\ clientData[msg.client] = "tracking"
Aside ==
  /\ msgQ' = msgQ /\ UNCHANGED <<owner, nextId>> /\ KnowsOwners
  /\ StopsAsked({})
  /\ stopAnswered' = stopAnswered
  /\ TimeIds' \subseteq TimeIds

LEMMA SameRequests == ASSUME NEW R, apiQ' = apiQ PROVE StopsAsked(R)
BY DEF StopsAsked

LEMMA NewRequests ==
  ASSUME TypeOK, NEW R, NEW C, C \subseteq ApiCalls, NEW s \in Seq(C), Request(s),
         \A call \in C : call.reply.cmd = "stop" => call.reply.id \in R
  PROVE  StopsAsked(R)
<1>1. apiQ \in Seq(ApiCalls) /\ apiQ' = apiQ \o s
  BY DEF TypeOK, Request
<1>2. /\ DOMAIN apiQ' = 1 .. Len(apiQ) + Len(s) /\ Len(apiQ) \in Nat /\ Len(s) \in Nat
      /\ DOMAIN apiQ = 1 .. Len(apiQ)
      /\ \A n \in 1 .. Len(apiQ) : apiQ'[n] = apiQ[n]
      /\ \A n \in 1 .. Len(s) : apiQ'[Len(apiQ) + n] = s[n] /\ s[n] \in C
  BY <1>1, ConcatProperties
<1>3. ASSUME NEW n \in DOMAIN apiQ', n > Len(apiQ) PROVE apiQ'[n] \in C
  <2>1. n - Len(apiQ) \in 1 .. Len(s) /\ Len(apiQ) + (n - Len(apiQ)) = n
    BY <1>2, <1>3
  <2> QED
    BY <1>2, <2>1
<1>4. ASSUME NEW n \in DOMAIN apiQ', ~(n > Len(apiQ)) 
      PROVE  \E m \in DOMAIN apiQ : apiQ[m] = apiQ'[n]
  BY <1>2, <1>4
<1> QED
  BY <1>3, <1>4 DEF StopsAsked

LEMMA ReportAnswers ==
  ASSUME NEW ok, Report(msg, ok), msg.k \in {"start", "update", "stop"} \cup ReplyKinds
  PROVE  \A id \in stopAnswered' : id \in stopAnswered \/ (AboutStop /\ id = msg.id)
BY DEF Report, AboutStop, historyVars

LEMMA OwnersKept ==
  ASSUME TypeOK, \/ clientData' = clientData
                 \/ SaveClient
                 \/ EraseClient
  PROVE  KnowsOwners
<1>1. CASE SaveClient
  <2>1. \A c \in Clients : \/ clientData'[c] = clientData[c]
                            \/ clientData'[c] \in {"tracking", "other"}
    BY <1>1 DEF SaveClient, TypeOK
  <2> QED
    BY <2>1 DEF KnowsOwners
<1>2. CASE EraseClient
  <2>1. \A c \in Clients : c # sweep.client => clientData'[c] = clientData[c]
    BY <1>2 DEF EraseClient, TypeOK
  <2>2. OwnedBy(sweep.client, TimeIds) = {} /\ UNCHANGED <<owner, sessions>>
    BY <1>2 DEF EraseClient, sessionVars, AdapterKeeps, clientVars
  <2>3. OwnedBy(sweep.client, TimeIds') = {} /\ owner' = owner
    BY <2>2 DEF OwnedBy, TimeIds, In
  <2>4. \A c \in Clients : c = sweep.client => OwnedBy(c, TimeIds)' = {}
    BY <2>3 DEF OwnedBy
  <2> QED
    BY <2>1, <2>4 DEF KnowsOwners
<1>3. CASE clientData' = clientData
  BY <1>3 DEF KnowsOwners
<1> QED
  BY <1>1, <1>2, <1>3

LEMMA SimpleEffect ==
  ASSUME TypeOK, Timely, TimelySimple
  PROVE  Aside \/ \E k : Handled(k)
<1>1. UNCHANGED <<sessions, apiQ, owner, nextId>>
  BY DEF TimelySimple, SaveClient, SavePowerStateCallback, StartWithoutCallbacks, UnknownId,
         ReplyReport, BeginRemove, EraseClient, AdapterKeeps, clientVars, sessionVars
<1>2. TimeIds' = TimeIds /\ \A R : StopsAsked(R)
  BY <1>1, SameRequests DEF TimeIds, In
<1>3. KnowsOwners
  BY OwnersKept
  DEF TimelySimple, SavePowerStateCallback, StartWithoutCallbacks, UnknownId, ReplyReport,
      BeginRemove
<1>4. CASE EraseClient
  <2>1. msgQ' = msgQ /\ stopAnswered' = stopAnswered
    BY <1>4 DEF EraseClient, historyVars
  <2> QED
    BY <1>1, <1>2, <1>3, <2>1 DEF Aside
<1>5. CASE SaveClient \/ SavePowerStateCallback \/ StartWithoutCallbacks \/ BeginRemove
  <2>1. \E k \in {"add", "observe", "start", "remove"} : Receive(k)
    BY <1>5 DEF SaveClient, SavePowerStateCallback, StartWithoutCallbacks, BeginRemove, Begin
  <2>2. stopAnswered' = stopAnswered
    BY <1>5
    DEF SaveClient, SavePowerStateCallback, StartWithoutCallbacks, BeginRemove, Silence, historyVars
  <2> QED
    BY <1>1, <1>2, <1>3, <2>1, <2>2 DEF Handled
<1>6. CASE UnknownId("update") \/ UnknownId("stop") \/ ReplyReport
  <2>1. PICK k \in {"update", "stop", "report"} :
          Receive(k) /\ (k # "report" => msg.id \notin TimeIds)
    BY <1>6 DEF UnknownId, ReplyReport, Begin
  <2>2. msg.k \in {"start", "update", "stop"} \cup ReplyKinds
    BY <2>1 DEF Receive, msg, ReplyKinds
  <2>3. \A id \in stopAnswered' : id \in stopAnswered \/ (AboutStop /\ id = msg.id)
    BY <1>6, <2>2, ReportAnswers DEF UnknownId, ReplyReport
  <2> QED
    BY <1>1, <1>2, <1>3, <2>1, <2>3 DEF Handled
<1> QED
  BY <1>4, <1>5, <1>6 DEF TimelySimple

LEMMA PlannedEffect ==
  ASSUME TypeOK, Timely, TimelyPlan
  PROVE  \E k : Handled(k)
<1>1. PICK plan \in Honest(RepliesOf(msg.id, msg.cmd)) : Follow(plan, msg)
  BY PlanEffect
<1>2. UNCHANGED <<owner, nextId, clientData>>
  BY DEF TimelyPlan, StartTimeBased, UpdateTimeBased, StopTimeBased, AdapterKeeps, clientVars
<1>3. PICK k \in {"start", "update", "stop"} :
        /\ Receive(k)
        /\ k = "stop" => msg.id \notin TimeIds'
        /\ \A id \in TimeIds' : \/ id \in TimeIds
                                \/ k = "start" /\ id = msg.id /\ clientData[msg.client] = "tracking"
  BY PlanEffect
<1>4. AboutStop <=> msg.cmd = "stop"
  BY <1>3 DEF AboutStop, Receive, msg
<1>5. StopsAsked(IF AboutStop THEN {msg.id} ELSE {})
  <2> DEFINE C == CallsFor(RepliesOf(msg.id, msg.cmd))
  <2>1. plan.calls \in Seq(C) /\ Request(plan.calls) /\ C \subseteq ApiCalls
    BY <1>1 DEF Honest, PlansOf, Follow, CallsFor
  <2>2. \A call \in C : call.reply.id = msg.id /\ call.reply.cmd = msg.cmd
    BY DEF CallsFor, RepliesOf
  <2> HIDE DEF C
  <2> QED
    BY <1>4, <2>1, <2>2, NewRequests
<1>6. \A id \in stopAnswered' : id \in stopAnswered \/ (AboutStop /\ id = msg.id)
  <2>1. msg.k \in {"start", "update", "stop"}
    BY <1>3 DEF Receive, msg
  <2> QED
    BY <1>1, <2>1, ReportAnswers DEF Follow, historyVars
<1>7. KnowsOwners
  BY <1>2, OwnersKept
<1> QED
  BY <1>2, <1>3, <1>5, <1>6, <1>7 DEF Handled

LEMMA AdapterEffect ==
  ASSUME TypeOK, Timely,
         \/ TimelySimple \/ TimelyPlan \/ SweepTimeBased \/ TimelyRestart \/ EndRestart
         \/ TimelyReplies
  PROVE  Aside \/ \E k : Handled(k)
<1>1. CASE TimelySimple \/ TimelyPlan
  BY <1>1, SimpleEffect, PlannedEffect
<1>2. CASE SweepTimeBased
  <2>0. PICK id \in TimeIds :
          /\ \E plan \in Honest(RepliesOf(id, "remove")) : Request(plan.calls)
          /\ TimeIds' = TimeIds \ {id} /\ stopAnswered' = stopAnswered
    BY <1>2, SweepEffect
  <2>1. PICK plan \in Honest(RepliesOf(id, "remove")) : Request(plan.calls)
    BY <2>0
  <2> DEFINE C == CallsFor(RepliesOf(id, "remove"))
  <2>2. plan.calls \in Seq(C) /\ C \subseteq ApiCalls
    BY DEF Honest, PlansOf, CallsFor
  <2>3. \A call \in C : call.reply.cmd # "stop"
    BY DEF CallsFor, RepliesOf
  <2> HIDE DEF C
  <2>4. StopsAsked({})
    BY <2>1, <2>2, <2>3, NewRequests
  <2>5. UNCHANGED <<owner, nextId, clientData, msgQ>>
    BY <1>2 DEF SweepTimeBased, AdapterKeeps, clientVars
  <2>6. KnowsOwners
    BY <2>5, OwnersKept
  <2> QED
    BY <2>0, <2>4, <2>5, <2>6 DEF Aside
<1>3. CASE TimelyRestart
  <2>1. PICK s \in Seq(IdleCalls) : Request(s)
    BY <1>3, RestartEffect
  <2>2. \A R : StopsAsked(R)
    <3>1. IdleCalls \subseteq ApiCalls /\ \A call \in IdleCalls : call.reply.cmd # "stop"
      BY DEF IdleCalls
    <3> QED
      BY <2>1, <3>1, NewRequests
  <2>3. /\ TimeIds' = TimeIds /\ stopAnswered' = stopAnswered
        /\ msgQ' = msgQ \/ \E k \in {"engineUp", "config"} : Receive(k)
        /\ UNCHANGED <<owner, nextId, clientData>>
    BY <1>3, RestartEffect DEF TimeIds, In
  <2>4. KnowsOwners
    BY <2>3, OwnersKept
  <2> QED
    BY <2>2, <2>3, <2>4 DEF Aside, Handled
<1>4. CASE EndRestart
  <2>1. UNCHANGED <<msgQ, owner, nextId, clientData, sessions, apiQ, stopAnswered>>
    BY <1>4, TimelyEnd
  <2>2. KnowsOwners /\ StopsAsked({}) /\ TimeIds' = TimeIds
    BY <2>1, OwnersKept, SameRequests DEF TimeIds, In
  <2> QED
    BY <2>1, <2>2 DEF Aside
<1>5. CASE TimelyReplies
  <2>1. PICK k \in ReplyKinds : Receive(k)
    BY <1>5, AnswersKeepSessions
  <2>2. sessions' = sessions /\ apiQ' = apiQ /\ Report(msg, msg.ok)
    BY <1>5, AnswersKeepSessions
  <2>3. UNCHANGED <<owner, nextId, clientData>>
    BY <1>5 DEF TimelyReplies, ReplyStarted, ReplyRestore, AdapterKeeps, clientVars
  <2>4. \A id \in stopAnswered' : id \in stopAnswered \/ (AboutStop /\ id = msg.id)
    BY <2>1, <2>2, ReportAnswers DEF Receive, msg
  <2>5. KnowsOwners /\ (\A R : StopsAsked(R)) /\ TimeIds' = TimeIds
    BY <2>2, <2>3, OwnersKept, SameRequests DEF TimeIds, In
  <2>6. k # "stop"
    BY <2>1 DEF ReplyKinds
  <2> QED
    BY <2>1, <2>3, <2>4, <2>5, <2>6 DEF Handled
<1> QED
  BY <1>1, <1>2, <1>3, <1>4, <1>5

-----------------------------------------------------------------------------
(* Stopped sessions stay over *)

\* What was over stays over when no session is saved but by a start.
LEMMA OverReceive ==
  ASSUME TypeOK, NEW k, Handled(k), NEW id, id \in Over
  PROVE  id \in Over'
<1>1. /\ msgQ # << >> /\ msgQ' = Tail(msgQ) /\ msgQ[1].k = k /\ msg = msgQ[1]
      /\ 1 \in DOMAIN msgQ
      /\ \A n \in DOMAIN msgQ' : n + 1 \in DOMAIN msgQ /\ msgQ'[n] = msgQ[n + 1]
  BY HeadTailProperties DEF Handled, Receive, msg, TypeOK
<1>2. ~Coming(id)'
  BY <1>1 DEF Over, Coming
<1>3. id \notin TimeIds'
  BY <1>1 DEF Over, Coming, Handled
<1> QED
  BY <1>2, <1>3 DEF Over, Handled

LEMMA OrderedHandled ==
  ASSUME TypeOK, Ordered, NEW k, Handled(k)
  PROVE  Ordered'
<1>1. /\ msgQ # << >> /\ msgQ' = Tail(msgQ) /\ msgQ[1].k = k /\ msg = msgQ[1]
      /\ 1 \in DOMAIN msgQ /\ DOMAIN msgQ = 1 .. Len(msgQ)
      /\ \A n \in DOMAIN msgQ' : n \in Nat \ {0} /\ n + 1 \in DOMAIN msgQ /\ msgQ'[n] = msgQ[n + 1]
  BY HeadTailProperties DEF Handled, Receive, msg, TypeOK
<1>2. nextId' = nextId
  BY DEF Handled
<1>3. Over \subseteq Over'
  BY OverReceive
\* When a message about a stop is handled its session is over.
<1>4. ASSUME AboutStop PROVE msg.id \in Over'
  <2>1. msg.cmd = "stop" /\ msg.k \in {"stop"} \cup ReplyKinds
    BY <1>1, <1>4 DEF AboutStop, Ordered
  <2>2. CASE msg.k = "stop"
    <3>1. msg.id \in Ids /\ msg.id < nextId
      <4>1. msg \in Messages
        BY <1>1 DEF TypeOK
      <4> QED
        BY <1>1, <2>2, <4>1, MessageFields DEF Ordered, SessionKinds
    <3>2. msg.id \notin TimeIds'
      BY <1>1, <2>2 DEF Handled
    <3>3. \A n \in DOMAIN msgQ' : ~(msgQ'[n].k = "start" /\ msgQ'[n].id = msg.id)
      BY <1>1, <2>2 DEF Ordered
    <3> QED
      BY <1>2, <3>1, <3>2, <3>3 DEF Over, Coming
  <2>3. CASE msg.k \in ReplyKinds
    BY <1>1, <1>3, <2>1, <2>3 DEF Ordered
  <2> QED
    BY <2>1, <2>2, <2>3
<1>5. stopAnswered' \subseteq Over'
  BY <1>3, <1>4 DEF Ordered, Handled
<1>6. \A n \in DOMAIN apiQ' : apiQ'[n].reply.cmd = "stop" => apiQ'[n].reply.id \in Over'
  BY <1>3, <1>4 DEF Ordered, Handled, StopsAsked
<1>7. \A n \in DOMAIN msgQ' : msgQ'[n].k \in ReplyKinds /\ msgQ'[n].cmd = "stop"
                              => msgQ'[n].id \in Over'
  BY <1>1, <1>3 DEF Ordered
<1>8. \A n \in DOMAIN msgQ' : msgQ'[n].k \in {"start", "update"} => msgQ'[n].cmd # "stop"
  BY <1>1 DEF Ordered
<1>9. ASSUME NEW n \in DOMAIN msgQ', msgQ'[n].k = "stop"
      PROVE  /\ msgQ'[n].id < nextId'
             /\ \A m \in DOMAIN msgQ' :
                  m > n => ~(msgQ'[m].k = "start" /\ msgQ'[m].id = msgQ'[n].id)
  <2>1. msgQ[n + 1].k = "stop" /\ n + 1 \in DOMAIN msgQ
    BY <1>1, <1>9
  <2>2. \A m \in DOMAIN msgQ' : m > n => m + 1 > n + 1
    BY <1>1
  <2> QED
    BY <1>1, <1>2, <2>1, <2>2 DEF Ordered
<1> QED
  BY <1>5, <1>6, <1>7, <1>8, <1>9 DEF Ordered

LEMMA OrderedAside ==
  ASSUME Ordered, Aside
  PROVE  Ordered'
<1>1. Over \subseteq Over'
  BY DEF Over, Coming, Aside
<1>2. \A n \in DOMAIN apiQ' : apiQ'[n].reply.cmd = "stop" => apiQ'[n].reply.id \in Over'
  BY <1>1 DEF Ordered, Aside, StopsAsked
<1> QED
  BY <1>1, <1>2 DEF Ordered, Aside

\* Appending m to the queue.
LEMMA QueueGrows ==
  ASSUME TypeOK, NEW m \in Messages, msgQ' = Append(msgQ, m)
  PROVE  /\ DOMAIN msgQ' = DOMAIN msgQ \cup {Len(msgQ) + 1}
         /\ \A n \in DOMAIN msgQ : msgQ'[n] = msgQ[n] /\ n < Len(msgQ) + 1 /\ n \in Nat
         /\ msgQ'[Len(msgQ) + 1] = m /\ Len(msgQ) \in Nat
         /\ \A n \in DOMAIN msgQ : msgQ[n] \in Messages
<1>1. msgQ \in Seq(Messages)
  BY DEF TypeOK
<1> QED
  BY <1>1, AppendProperties

LEMMA OrderedClient ==
  ASSUME TypeOK, Ordered, Owned, ClientStep
  PROVE  Ordered'
<1>1. PICK m \in Messages :
         /\ PostCommand(m) /\ stopAnswered' = stopAnswered
         /\ \/ PostsStart(m)
            \/ /\ PostsUpdate(m) \/ PostsStop(m) \/ PostsOther(m)
               /\ UNCHANGED <<owner, nextId>>
  BY ClientPosts
<1> DEFINE last == Len(msgQ) + 1
<1>2. /\ DOMAIN msgQ' = DOMAIN msgQ \cup {last}
      /\ \A n \in DOMAIN msgQ : msgQ'[n] = msgQ[n] /\ n < last /\ n \in Nat /\ msgQ[n] \in Messages
      /\ msgQ'[last] = m /\ last \in Nat
  BY <1>1, QueueGrows DEF PostCommand, Post
<1> HIDE DEF last
<1>3. TimeIds' = TimeIds /\ apiQ' = apiQ
  BY <1>1 DEF PostCommand, sessionVars, TimeIds, In
<1>4. nextId \in Nat /\ nextId' \in {nextId, nextId + 1}
  BY <1>1 DEF TypeOK, PostsStart
<1>5. Over \subseteq Over'
  <2> SUFFICES ASSUME NEW id \in Over PROVE id \in Over'
    OBVIOUS
  <2>1. id \in Nat /\ id < nextId
    BY DEF Over, Ids
  <2>2. ~(m.k = "start" /\ m.id = id)
    BY <1>1, <1>4, <2>1 DEF PostsStart, PostsUpdate, PostsStop, PostsOther
  <2>3. ~Coming(id)'
    BY <1>2, <2>2 DEF Over, Coming
  <2> QED
    BY <1>3, <1>4, <2>1, <2>3 DEF Over
<1>6. m.k \notin ReplyKinds /\ (m.k \in {"start", "update"} => m.cmd # "stop")
  BY <1>1 DEF PostsStart, PostsUpdate, PostsStop, PostsOther, ReplyKinds
<1>7. m.k = "stop" => m.id < nextId
  <2> SUFFICES ASSUME m.k = "stop" PROVE m.id < nextId
    OBVIOUS
  <2>1. m.id \in Ids /\ owner[m.id] \in Clients
    BY <1>1 DEF PostsStart, PostsUpdate, PostsStop, PostsOther
  <2>2. owner[m.id] # NoClient
    BY <2>1, ConstantsAssumption
  <2>3. ~(m.id >= nextId)
    BY <2>1, <2>2 DEF Owned
  <2> QED
    BY <1>4, <2>1, <2>3 DEF Ids
<1>8. ASSUME NEW n \in DOMAIN msgQ', msgQ'[n].k = "stop"
      PROVE  /\ msgQ'[n].id < nextId'
             /\ \A j \in DOMAIN msgQ' :
                  j > n => ~(msgQ'[j].k = "start" /\ msgQ'[j].id = msgQ'[n].id)
  <2>1. CASE n = last
    <3>1. m.id < nextId /\ m.id \in Nat
      BY <1>1, <1>2, <1>7, <1>8, <2>1 DEF PostsStart, PostsUpdate, PostsStop, PostsOther, Ids
    <3>2. \A j \in DOMAIN msgQ' : ~(j > n)
      BY <1>2, <2>1
    <3> QED
      BY <1>2, <1>4, <2>1, <3>1, <3>2
  <2>2. CASE n \in DOMAIN msgQ
    <3>1. msgQ[n].k = "stop" /\ msgQ[n].id < nextId /\ msgQ[n].id \in Nat
      <4>1. msgQ[n].k = "stop" /\ msgQ[n] \in Messages
        BY <1>2, <1>8, <2>2
      <4> QED
        BY <2>2, <4>1, MessageFields DEF Ordered, SessionKinds, Ids
    <3>2. ~(m.k = "start" /\ m.id = msgQ[n].id)
      BY <1>1, <1>4, <3>1 DEF PostsStart, PostsUpdate, PostsStop, PostsOther
    <3> QED
      BY <1>2, <1>4, <2>2, <3>1, <3>2 DEF Ordered
  <2> QED
    BY <1>2, <2>1, <2>2
<1>9. stopAnswered' \subseteq Over'
  BY <1>1, <1>5 DEF Ordered
<1>10. \A n \in DOMAIN apiQ' : apiQ'[n].reply.cmd = "stop" => apiQ'[n].reply.id \in Over'
  BY <1>3, <1>5 DEF Ordered
<1>11. \A n \in DOMAIN msgQ' : msgQ'[n].k \in ReplyKinds /\ msgQ'[n].cmd = "stop"
                               => msgQ'[n].id \in Over'
  BY <1>2, <1>5, <1>6 DEF Ordered
<1>12. \A n \in DOMAIN msgQ' : msgQ'[n].k \in {"start", "update"} => msgQ'[n].cmd # "stop"
  BY <1>2, <1>6 DEF Ordered
<1> QED
  BY <1>8, <1>9, <1>10, <1>11, <1>12 DEF Ordered

LEMMA OrderedServe ==
  ASSUME TypeOK, Timely, ~MayFail, Ordered, LocApiStep
  PROVE  Ordered'
<1>1. /\ apiQ # << >> /\ apiQ' = Tail(apiQ)
      /\ UNCHANGED <<nextId, sessions, stopAnswered>>
      /\ TimelyPost
  BY TimelyServe
<1>2. /\ Head(apiQ) = apiQ[1] /\ 1 \in DOMAIN apiQ
      /\ \A n \in DOMAIN apiQ' : n + 1 \in DOMAIN apiQ /\ apiQ'[n] = apiQ[n + 1]
  BY <1>1, HeadTailProperties DEF TypeOK
<1>3. TimeIds' = TimeIds
  BY <1>1 DEF TimeIds, In
<1>4. CASE msgQ' = msgQ
  <2>1. Over \subseteq Over'
    BY <1>1, <1>3, <1>4 DEF Over, Coming
  <2> QED
    BY <1>1, <1>2, <1>4, <2>1 DEF Ordered
<1>5. ASSUME NEW m \in Messages, msgQ' = Append(msgQ, m),
             \/ m = Plain("engineUp")
             \/ m.k \in ReplyKinds /\ m.id = apiQ[1].reply.id /\ m.cmd = apiQ[1].reply.cmd
      PROVE  Ordered'
  <2> DEFINE last == Len(msgQ) + 1
  <2>1. /\ DOMAIN msgQ' = DOMAIN msgQ \cup {last}
        /\ \A n \in DOMAIN msgQ : msgQ'[n] = msgQ[n] /\ n < last /\ n \in Nat
        /\ msgQ'[last] = m /\ last \in Nat
    BY <1>5, QueueGrows
  <2> HIDE DEF last
  <2>2. m.k \notin {"start", "update", "stop"}
    BY <1>5 DEF Plain, Msg, ReplyKinds
  <2>3. m.k \in ReplyKinds => m.id = apiQ[1].reply.id /\ m.cmd = apiQ[1].reply.cmd
    BY <1>5 DEF Plain, Msg, ReplyKinds
  <2>4. Over \subseteq Over'
    BY <1>1, <1>3, <2>1, <2>2 DEF Over, Coming
  <2>5. stopAnswered' \subseteq Over'
    BY <1>1, <2>4 DEF Ordered
  <2>6. \A n \in DOMAIN apiQ' : apiQ'[n].reply.cmd = "stop" => apiQ'[n].reply.id \in Over'
    BY <1>2, <2>4 DEF Ordered
  <2>7. \A n \in DOMAIN msgQ' : msgQ'[n].k \in ReplyKinds /\ msgQ'[n].cmd = "stop"
                                => msgQ'[n].id \in Over'
    BY <1>2, <2>1, <2>3, <2>4 DEF Ordered
  <2>8. \A n \in DOMAIN msgQ' : msgQ'[n].k \in {"start", "update"} => msgQ'[n].cmd # "stop"
    BY <2>1, <2>2 DEF Ordered
  <2>9. ASSUME NEW n \in DOMAIN msgQ', msgQ'[n].k = "stop"
        PROVE  /\ msgQ'[n].id < nextId'
               /\ \A j \in DOMAIN msgQ' :
                    j > n => ~(msgQ'[j].k = "start" /\ msgQ'[j].id = msgQ'[n].id)
    BY <1>1, <2>1, <2>2, <2>9 DEF Ordered
  <2> QED
    BY <2>5, <2>6, <2>7, <2>8, <2>9 DEF Ordered
<1>6. TimeMessages \subseteq Messages
  BY DEF TimeMessages
<1> QED
  BY <1>1, <1>2, <1>4, <1>5, <1>6 DEF TimelyPost

LEMMA OrderedKept ==
  ASSUME TypeOK, Timely, ~MayFail, Ordered, Owned, TimelyStep
  PROVE  Ordered'
BY OrderedClient, OrderedServe, OrderedAside, OrderedHandled, AdapterEffect DEF TimelyStep

-----------------------------------------------------------------------------
(* Sessions have owners *)

LEMMA OwnedHandled ==
  ASSUME TypeOK, Owned, NEW k, Handled(k)
  PROVE  Owned'
<1>1. /\ msgQ[1].k = k /\ msg = msgQ[1] /\ 1 \in DOMAIN msgQ /\ msg \in Messages
      /\ \A n \in DOMAIN msgQ' : n + 1 \in DOMAIN msgQ /\ msgQ'[n] = msgQ[n + 1]
  BY HeadTailProperties DEF Handled, Receive, msg, TypeOK
<1>2. owner' = owner /\ nextId' = nextId
  BY DEF Handled
<1>3. ASSUME NEW id \in TimeIds'
      PROVE  owner[id] \in Clients /\ clientData'[owner[id]] # "absent"
  <2>1. owner[id] \in Clients /\ clientData[owner[id]] # "absent"
    <3>1. CASE id \in TimeIds
      BY <3>1 DEF Owned
    <3>2. CASE k = "start" /\ id = msg.id /\ clientData[msg.client] = "tracking"
      <4>1. msg.client \in Clients
        BY <1>1, <3>2, MessageFields DEF ClientKinds, SessionKinds
      <4>2. owner[msg.id] = msg.client
        BY <1>1, <3>2 DEF Owned
      <4> QED
        BY <3>2, <4>1, <4>2
    <3> QED
      BY <3>1, <3>2 DEF Handled
  <2>2. id \in OwnedBy(owner[id], TimeIds)'
    BY <1>2, <1>3 DEF OwnedBy
  <2> QED
    BY <2>1, <2>2 DEF Handled, KnowsOwners
<1>4. \A n \in DOMAIN msgQ' : msgQ'[n].k = "start" => owner[msgQ'[n].id] = msgQ'[n].client
  BY <1>1 DEF Owned
<1> QED
  BY <1>2, <1>3, <1>4 DEF Owned

LEMMA OwnedAside ==
  ASSUME TypeOK, Owned, Aside
  PROVE  Owned'
<1>1. UNCHANGED <<owner, nextId, msgQ>>
  BY DEF Aside
<1>2. ASSUME NEW id \in TimeIds'
      PROVE  owner[id] \in Clients /\ clientData'[owner[id]] # "absent"
  <2>1. owner[id] \in Clients /\ clientData[owner[id]] # "absent"
    BY <1>2 DEF Owned, Aside
  <2>2. id \in OwnedBy(owner[id], TimeIds)'
    BY <1>1, <1>2 DEF OwnedBy
  <2> QED
    BY <2>1, <2>2 DEF Aside, KnowsOwners
<1> QED
  BY <1>1, <1>2 DEF Owned

LEMMA OwnedClient ==
  ASSUME TypeOK, Owned, ClientStep
  PROVE  Owned'
<1>1. PICK m \in Messages :
         /\ PostCommand(m)
         /\ \/ PostsStart(m)
            \/ /\ PostsUpdate(m) \/ PostsStop(m) \/ PostsOther(m)
               /\ UNCHANGED <<owner, nextId>>
  BY ClientPosts
<1> DEFINE last == Len(msgQ) + 1
<1>2. /\ DOMAIN msgQ' = DOMAIN msgQ \cup {last}
      /\ \A n \in DOMAIN msgQ : msgQ'[n] = msgQ[n] /\ msgQ[n] \in Messages
      /\ msgQ'[last] = m
  BY <1>1, QueueGrows DEF PostCommand, Post
<1> HIDE DEF last
<1>3. TimeIds' = TimeIds /\ clientData' = clientData
  BY <1>1 DEF PostCommand, sessionVars, TimeIds, In
<1>4. CASE PostsStart(m)
  <2>1. /\ nextId \in Ids /\ nextId' = nextId + 1 /\ m.id = nextId /\ m.client \in Clients
        /\ owner' = [owner EXCEPT ![nextId] = m.client]
        /\ owner \in [Ids -> Clients \cup {NoClient}] /\ nextId \in Nat
    BY <1>4 DEF PostsStart, TypeOK, Ids
  <2>2. owner[nextId] = NoClient /\ NoClient \notin Clients
    BY <2>1, ConstantsAssumption DEF Owned
  <2>3. \A i \in Ids : i >= nextId' => owner'[i] = NoClient
    BY <2>1 DEF Owned, Ids
  <2>4. \A i \in Ids : owner[i] \in Clients => owner'[i] = owner[i]
    BY <2>1, <2>2
  <2>5. \A id \in TimeIds' : owner'[id] \in Clients /\ clientData'[owner'[id]] # "absent"
    BY <1>3, <2>4, SessionType DEF Owned
  <2>6. ASSUME NEW n \in DOMAIN msgQ', msgQ'[n].k = "start"
        PROVE  owner'[msgQ'[n].id] = msgQ'[n].client
    <3>1. CASE n = last
      BY <1>2, <2>1, <3>1
    <3>2. CASE n \in DOMAIN msgQ
      <4>1. msgQ[n].client \in Clients /\ msgQ[n].id \in Ids
        BY <1>2, <2>6, <3>2, MessageFields DEF ClientKinds, SessionKinds
      <4>2. owner[msgQ[n].id] = msgQ[n].client
        BY <1>2, <2>6, <3>2 DEF Owned
      <4> QED
        BY <1>2, <2>4, <3>2, <4>1, <4>2
    <3> QED
      BY <1>2, <3>1, <3>2
  <2> QED
    BY <2>3, <2>5, <2>6 DEF Owned
<1>5. CASE (PostsUpdate(m) \/ PostsStop(m) \/ PostsOther(m)) /\ UNCHANGED <<owner, nextId>>
  <2>1. m.k # "start"
    BY <1>5 DEF PostsUpdate, PostsStop, PostsOther
  <2>2. \A n \in DOMAIN msgQ' : msgQ'[n].k = "start" => owner'[msgQ'[n].id] = msgQ'[n].client
    BY <1>2, <1>5, <2>1 DEF Owned
  <2> QED
    BY <1>3, <1>5, <2>2 DEF Owned
<1> QED
  BY <1>1, <1>4, <1>5

LEMMA OwnedServe ==
  ASSUME TypeOK, Timely, ~MayFail, Owned, LocApiStep
  PROVE  Owned'
<1>1. UNCHANGED <<owner, nextId, clientData>> /\ TimeIds' = TimeIds /\ TimelyPost
  BY TimelyServe DEF TimeIds, In
<1>2. CASE msgQ' = msgQ
  BY <1>1, <1>2 DEF Owned
<1>3. ASSUME NEW m \in Messages, msgQ' = Append(msgQ, m), m.k # "start"
      PROVE  Owned'
  <2>1. \A n \in DOMAIN msgQ' : msgQ'[n].k = "start" => n \in DOMAIN msgQ /\ msgQ'[n] = msgQ[n]
    BY <1>3, QueueGrows
  <2>2. \A n \in DOMAIN msgQ' : msgQ'[n].k = "start" => owner[msgQ'[n].id] = msgQ'[n].client
    BY <2>1 DEF Owned
  <2> QED
    BY <1>1, <2>2 DEF Owned
<1>4. \A m \in TimeMessages : m \in Messages
  BY DEF TimeMessages
<1>5. ASSUME NEW m, m = Plain("engineUp") \/ m.k \in ReplyKinds PROVE m.k # "start"
  BY <1>5 DEF Plain, Msg, ReplyKinds
<1> QED
  BY <1>1, <1>2, <1>3, <1>4, <1>5 DEF TimelyPost

LEMMA OwnedKept ==
  ASSUME TypeOK, Timely, ~MayFail, Owned, TimelyStep
  PROVE  Owned'
BY OwnedClient, OwnedServe, OwnedAside, OwnedHandled, AdapterEffect DEF TimelyStep

-----------------------------------------------------------------------------
(* The step *)

\* The environment never gets its resets back.
LEMMA ResetsSpent ==
  ASSUME TypeOK, budget.resets <= Budget.resets, [Next]_vars
  PROVE  /\ budget'.resets <= Budget.resets
         /\ NeverReset' => NeverReset /\ ~ModemReset
<1>1. budget \in Budgets /\ Budget \in Budgets
  BY ConstantsAssumption DEF TypeOK
<1>2. /\ budget.resets \in Nat /\ Budget.resets \in Nat
      /\ DOMAIN budget = Limits /\ "resets" \in Limits
  BY <1>1 DEF Budgets, Limits
<1>3. ASSUME NEW what, what # "resets", Spend(what)
      PROVE  budget'.resets = budget.resets
  BY <1>2, <1>3 DEF Spend
<1>4. CASE ModemReset
  BY <1>2, <1>4 DEF ModemReset, Spend, NeverReset
<1>5. CASE budget'.resets = budget.resets
  <2>1. ~ModemReset
    BY <1>2, <1>5 DEF ModemReset, Spend
  <2> QED
    BY <1>5, <2>1 DEF NeverReset
<1>6. CASE ClientStep
  BY <1>3, <1>5, <1>6
  DEF ClientStep, AddClient, UpdateCallbacks, RemoveClient, StartTracking, UpdateTrackingOptions,
      StopTracking, ObservePower, ChangeConfig
<1>7. CASE AdapterStep
  <2>1. budget' = budget
    BY <1>7 DEF AdapterStep, SaveClient, SavePowerStateCallback, Postpone, StartWithoutCallbacks,
      StartDistanceBased, StartTimeBased, UnknownId, TimeToDistance, DistanceToTime,
      UpdateTimeBased, UpdateDistanceBased, StopTimeBased, StopDistanceBased, BeginRemove,
      SweepTimeBased, SweepDistanceBased, EraseClient, EngineUp, ApplyConfig,
      RestartDistanceBased, EndRestart, ReplyReport, ReplyStarted, ReplyRestore,
      ReplyDistanceStopped, ReplyDistanceSwept, ReplySwitchToTime, ReplyDistanceRestart,
      ReplyDistanceSave, AdapterKeeps
  <2> QED
    BY <1>5, <2>1
<1>8. CASE NHzRequirement
  BY <1>3, <1>5, <1>8 DEF NHzRequirement
<1>9. CASE LocApiStep
  BY <1>5, <1>9 DEF LocApiStep, OpenLink, Serve
<1>10. CASE UNCHANGED vars
  BY <1>5, <1>10 DEF vars
<1> QED
  BY <1>4, <1>6, <1>7, <1>8, <1>9, <1>10 DEF Next

LEMMA TimelyKept ==
  ASSUME TypeOK, TimeOnly, Timely, ~MayFail, TimelyStep
  PROVE  Timely'
BY TimelyClient, TimelyAdapter, TimelyEnd, TimelyServe DEF TimelyStep

LEMMA SteadyNext ==
  ASSUME ~MayFail, TimeOnly, TypeOK, Steady, [Next]_vars
  PROVE  Steady'
<1>1. budget'.resets <= Budget.resets /\ (NeverReset' => NeverReset /\ ~ModemReset)
  BY ResetsSpent DEF Steady
<1> SUFFICES ASSUME NeverReset'
             PROVE  (Timely /\ Resting /\ Ordered /\ Owned)'
  BY <1>1 DEF Steady
<1>2. Timely /\ Resting /\ Ordered /\ Owned /\ ~ModemReset
  BY <1>1 DEF Steady
<1>3. CASE Next
  <2>1. TimelyStep
    BY <1>2, <1>3, TimelySteps
  <2> QED
    BY <1>2, <2>1, TimelyKept, RestingKept, OrderedKept, OwnedKept
<1>4. CASE UNCHANGED vars
  <2>1. UNCHANGED <<owner, nextId, msgQ, pending, clientData, sessions, sweep, apiQ, link, engine,
                    stopAnswered>>
    BY <1>4 DEF vars, clientVars, sessionVars, engineVars, historyVars
  <2>2. Timely'
    BY <1>2, <2>1 DEF Timely, Calm, NoDistance
  <2>3. TimeIds' = TimeIds
    BY <2>1 DEF TimeIds, In
  <2>4. Resting' /\ Ordered' /\ Owned'
    BY <1>2, <2>1, <2>3 DEF Resting, Ordered, Over, Coming, Owned
  <2> QED
    BY <2>2, <2>4
<1> QED
  BY <1>3, <1>4

LEMMA SteadyInit == Init => Steady
<1> SUFFICES ASSUME Init PROVE Steady
  OBVIOUS
<1>1. TimeIds = {} /\ NoDistance(sessions)
  BY NoSessionsEmpty DEF Init, NoSessions, TimeIds, In, NoDistance
<1>2. Open \in SafeCalls /\ Open.op = "open" /\ Open.reply.cmd = "none"
  BY SafeIgnore, IgnoreType
  DEF Open, Call, SafeCalls, ApiCalls, Ops, ReplyKinds, Ignore, Msg
<1>3. Calm
  BY <1>1, <1>2 DEF Calm, Init, Idling
<1>4. Timely
  BY <1>2, <1>3 DEF Timely, Init
<1>5. Resting
  BY <1>2 DEF Resting, OffAt, Init, Drives, Off
<1>6. Ordered /\ Owned
  BY <1>1, <1>2 DEF Ordered, Owned, Init
<1>7. budget.resets <= Budget.resets
  BY ConstantsAssumption DEF Init, Budgets, Limits
<1> QED
  BY <1>4, <1>5, <1>6, <1>7 DEF Steady

\* What the invariant says of a system at rest, and of answered stops.
LEMMA SteadyGives ==
  ASSUME TypeOK, Steady
  PROVE  EngineOffWhenIdle /\ StoppedStaysStopped /\ RemovedLeavesNothing
<1>1. NeverReset => DistIds = {}
  BY CalmSessions DEF Steady, Timely
<1>2. EngineOffWhenIdle
  BY DEF Steady, EngineOffWhenIdle, AtRest, Resting, OffAt
<1>3. StoppedStaysStopped
  BY <1>1 DEF Steady, StoppedStaysStopped, Ordered, Over
<1>4. RemovedLeavesNothing
  BY <1>1 DEF Steady, RemovedLeavesNothing, Owned
<1> QED
  BY <1>2, <1>3, <1>4

LEMMA SpecIsSteady ==
  ASSUME ~MayFail, TimeOnly
  PROVE  Spec => [](TypeOK /\ Steady)
<1>1. Init => TypeOK /\ Steady
  BY TypeInit, SteadyInit
<1>2. TypeOK /\ Steady /\ [Next]_vars => (TypeOK /\ Steady)'
  BY TypeNext, SteadyNext
<1> QED
  BY <1>1, <1>2, PTL DEF Spec

\* When no session is left and nothing is on its way, the engine is off: the last
\* stop, or the sweep of a removed client, has stopped it (stopTimeBasedTrackingMultiplex
\* counts the other sessions), and no restart has started it again.
THEOREM IdleEngineIsOff ==
  ASSUME ~MayFail, TimeOnly
  PROVE  Spec => []EngineOffWhenIdle
BY SpecIsSteady, SteadyGives, PTL

\* A session whose stop was answered is gone for good, whatever clients, restarts
\* and answers do in between.
THEOREM StopsAreFinal ==
  ASSUME ~MayFail, TimeOnly
  PROVE  Spec => []StoppedStaysStopped
BY SpecIsSteady, SteadyGives, PTL

\* stopClientSessions leaves no session of a destroyed client.
THEOREM NoOrphans ==
  ASSUME ~MayFail, TimeOnly
  PROVE  Spec => []RemovedLeavesNothing
BY SpecIsSteady, SteadyGives, PTL

=============================================================================
