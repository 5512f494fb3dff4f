------------------------------ MODULE Batching ------------------------------
(***************************************************************************)
(* gps/batching/BatchingAdapter.cpp: batching sessions, which the engine   *)
(* runs side by side, and trips, which are multiplexed onto the one        *)
(* outdoor trip batch of the engine.  Clients post commands on the         *)
(* adapter's queue msgQ, the adapter's thread posts calls on the queue of  *)
(* the LocApi, apiQ, and each answer comes back on msgQ as the lambda that *)
(* the call was given.                                                     *)
(*                                                                         *)
(* Of the options of a session its mode is kept, of a trip also distance   *)
(* and interval.  Left out: reports of locations and getBatchedLocations,  *)
(* which change nothing, the answers to the clients, accuracy, timeout and *)
(* batch sizes, and the options the commands reject.                       *)
(***************************************************************************)
EXTENDS Integers, Sequences, FiniteSets, Functions

CONSTANTS
  Clients,      \* LocationAPI objects with a batching callback
  MaxSessions,  \* bound: session ids are handed out from 1 up to MaxSessions
  Plain,        \* options of a session without trips that a client may ask for
  Trips,        \* options of a trip
  Width,        \* distances are unsigned numbers modulo Width
  MaxCommands,  \* bound: commands of the clients
  MaxRefusals,  \* bound: calls the engine refuses while it is up
  MaxResets,    \* bound: restarts of the engine
  MaxQueue      \* bound: clients post only while msgQ is shorter than this

Ids       == 1 .. MaxSessions
Distances == 0 .. Width - 1
Modes     == {"routine", "noReport", "trip"}
Options   == [mode : Modes, distance : Distances, tbf : Distances]
Routine   == [mode |-> "routine", distance |-> 0, tbf |-> 0]  \* BatchingOptions()
Query     == Width        \* no distance yet: the engine will fill it in

ASSUME BatchingAssumption ==
  /\ MaxSessions \in Nat /\ Width \in Nat \ {0}
  /\ MaxCommands \in Nat /\ MaxRefusals \in Nat /\ MaxResets \in Nat /\ MaxQueue \in Nat
  /\ Plain \subseteq {o \in Options : o.mode # "trip"}
  /\ Trips \subseteq {o \in Options : o.mode = "trip"}

VARIABLES
  live,       \* clients that still give commands
  clientData, \* mClientData
  owner,      \* the client each handed out id belongs to
  msgQ, pending, apiQ,
  capsKnown,  \* mIsEngineCapabilitiesKnown
  saved,      \* mBatchingSessions: id -> mode
  trips,      \* mTripSessions
  ongoing,    \* mOngoingTripDistance, mOngoingTripTBFInterval
  dropped,    \* mTripWithOngoingTripDistanceDropped, mTripWithOngoingTBFDropped
  batchFull,  \* is LOC_API_ADAPTER_BIT_BATCH_FULL in mEvtMask
  sweep,      \* stopClientSessions in the middle of its loop
  link, plain, trip,                 \* the engine
  commands, refusals, resets,        \* bounds
  astray,     \* history: the last trip was stopped twice, or when it was gone, or a
              \* trip joined a batch that had ended or never started, or whose start
              \* or stop was not answered yet
  unserved    \* history: a call was refused that the adapter does not make up for

clientVars  == <<live, owner, commands>>
adapterVars == <<saved, trips, ongoing, dropped, batchFull, astray>>
engineVars  == <<link, plain, trip, refusals, resets, unserved>>
vars == <<clientVars, msgQ, pending, apiQ, capsKnown, clientData, adapterVars, sweep,
          engineVars>>

-----------------------------------------------------------------------------
(* Messages, and unsigned arithmetic *)

Msg(k, id, o, acc) ==
  [k |-> k, id |-> id, opts |-> o, acc |-> acc, was |-> "routine", again |-> FALSE, ok |-> TRUE]
StopMsg(k, id, o, was, again) ==
  [k |-> k, id |-> id, opts |-> o, acc |-> 0, was |-> was, again |-> again, ok |-> TRUE]
Ignore == Msg("ignore", 0, Routine, 0)   \* also a lambda that only reports to the client
Remove(c) == [k |-> "remove", client |-> c]

Call(op, id, o, reply) == [op |-> op, id |-> id, opts |-> o, reply |-> reply]

Minus(a, b) == (a - b) % Width
Plus(a, b)  == (a + b) % Width

Without(f, i) == Restrict(f, DOMAIN f \ {i})
With(f, i, v) == [j \in DOMAIN f \cup {i} |-> IF j = i THEN v ELSE f[j]]

\* autoReportBatchingSessionsCount; a trip may count twice.
AutoReports(s)  == {i \in DOMAIN s : s[i] # "noReport"}
Reported(s, t)  == AutoReports(s) # {} \/ DOMAIN t # {}
OneReport(s, t) == Cardinality(AutoReports(s)) + Cardinality(DOMAIN t) = 1

\* The least of S, or 0.
Least(S) ==
  LET least == {m \in S : \A n \in S : m <= n}
  IN  IF least = {} THEN 0 ELSE CHOOSE m \in least : TRUE

\* The scan for the smallest of r over the trips t, in the order of the map: a
\* 0 found on the way counts as "none yet".
Smallest(t, r) == Least({r[i] : i \in {j \in DOMAIN t : \A k \in DOMAIN t : k >= j => r[k] # 0}})

Remaining(t)   == [i \in DOMAIN t |-> Minus(t[i].distance, t[i].soFar)]
Intervals(t)   == [i \in DOMAIN t |-> t[i].tbf]
Needs(t)       == [mode |-> "trip", distance |-> Smallest(t, Remaining(t)),
                   tbf |-> Smallest(t, Intervals(t))]
Ongoing(o)     == [distance |-> o.distance, tbf |-> o.tbf]
NoTrip         == [distance |-> 0, tbf |-> 0]

\* A trip that starts when the ongoing batch has seen acc.
NewTrip(o, acc) ==
  [joined |-> acc, soFar |-> 0, base |-> 0, distance |-> o.distance, tbf |-> o.tbf]

-----------------------------------------------------------------------------
(* Clients *)

PostCommand(m) ==
  /\ commands < MaxCommands /\ commands' = commands + 1
  /\ Len(msgQ) < MaxQueue
  /\ msgQ' = Append(msgQ, m)
  /\ UNCHANGED <<pending, apiQ, capsKnown, clientData, adapterVars, sweep, engineVars>>

StartBatchingCommand(c, o) ==
  LET id == Cardinality(DOMAIN owner) + 1
  IN  /\ c \in live
      /\ id \in Ids
      /\ owner' = With(owner, id, c)
      /\ PostCommand(Msg("start", id, o, 0))
      /\ UNCHANGED live

UpdateBatchingOptionsCommand(id, o) ==
  /\ owner[id] \in live
  /\ PostCommand(Msg("update", id, o, 0))
  /\ UNCHANGED <<live, owner>>

StopBatchingCommand(id) ==
  /\ owner[id] \in live
  /\ PostCommand(Msg("stop", id, Routine, 0))
  /\ UNCHANGED <<live, owner>>

\* LocationAPI::destroy
Destroy(c) ==
  /\ c \in live
  /\ live' = live \ {c}
  /\ PostCommand(Remove(c))
  /\ UNCHANGED owner

-----------------------------------------------------------------------------
(* The adapter's thread *)

AtHead(k)  == sweep = {} /\ msgQ # << >> /\ Head(msgQ).k = k
Receive(k) == AtHead(k) /\ msgQ' = Tail(msgQ) /\ UNCHANGED <<clientVars, sweep, engineVars>>

\* A command, once the capabilities of the engine are known, and a lambda.
Command(k) ==
  /\ Receive(k) /\ capsKnown
  /\ UNCHANGED <<pending, capsKnown, clientData>>
Reply(k) == Receive(k) /\ UNCHANGED <<pending, capsKnown, clientData>>

\* Until then commands are put aside.
SetAside ==
  /\ \E k \in {"start", "update", "stop"} : Receive(k)
  /\ ~ capsKnown
  /\ pending' = Append(pending, Head(msgQ))
  /\ UNCHANGED <<apiQ, capsKnown, clientData, adapterVars>>

\* startBatching, with mBatchingSessions s, the events b and the calls q so far.
StartPlain(s, t, b, q, id, o) ==
  /\ saved' = With(s, id, o.mode)
  /\ trips' = t
  /\ batchFull' = (b \/ (o.mode # "noReport" /\ ~ Reported(s, t)))
  /\ apiQ' = Append(q, Call("start", id, o, Msg("started", id, o, 0)))

\* startTripBatchingMultiplex: the first trip starts the batch, others ask how
\* far it has come.
StartTrip(s, t, b, q, id, o) ==
  IF DOMAIN t = {}
  THEN /\ saved' = With(s, id, "trip")
       /\ trips' = With(t, id, NewTrip(o, 0))
       /\ batchFull' = (b \/ ~ Reported(s, t))
       /\ apiQ' = Append(q, Call("startTrip", id, o, Msg("tripStarted", id, o, 0)))
  ELSE /\ saved' = s /\ trips' = t /\ batchFull' = b
       /\ apiQ' = Append(q, Call("query", id, o, Msg("joins", id, o, Query)))

Start(s, t, b, q, id, o) ==
  IF o.mode = "trip" THEN StartTrip(s, t, b, q, id, o) ELSE StartPlain(s, t, b, q, id, o)

\* stopBatching; next is what to start then, if again.
StopPlain(id, next, again) ==
  /\ saved' = Without(saved, id)
  /\ apiQ' = Append(apiQ, Call("stop", id, next, StopMsg("stopped", id, next, saved[id], again)))
  /\ UNCHANGED <<trips, ongoing, dropped, batchFull, astray>>

\* Which of the flags a trip sets when it goes; read from freed or foreign
\* memory, any.
Drops(t) == {[distance |-> dropped.distance \/ t.distance = ongoing.distance,
              tbf |-> dropped.tbf \/ t.tbf = ongoing.tbf]}
AnyDrops == {d \in [distance : BOOLEAN, tbf : BOOLEAN] :
               /\ dropped.distance => d.distance
               /\ dropped.tbf => d.tbf}

\* restartTripBatching with trips t left, acc = Query if it is to be asked for.
AskAgain(t, acc) == Call("query", 0, Routine, Msg("replan", 0, Needs(t), acc))

\* stopTripBatchingMultiplexCommon
StopTrip(id, next, again, b) ==
  LET left  == Without(trips, id)
      calls == IF DOMAIN left = {} THEN apiQ ELSE Append(apiQ, AskAgain(left, Query))
  IN  /\ dropped' \in IF id \in DOMAIN trips THEN Drops(trips[id]) ELSE AnyDrops
      /\ astray' = (astray \/ id \notin DOMAIN trips)
      /\ ongoing' = IF DOMAIN left = {} THEN NoTrip ELSE ongoing
      /\ IF again
         THEN Start(Without(saved, id), left, b, calls, id, next)
         ELSE saved' = saved /\ trips' = left /\ batchFull' = b /\ apiQ' = calls

\* A start or a stop of the batch is not answered yet.
UnderWay(k) ==
  \/ \E n \in DOMAIN apiQ : apiQ[n].reply.k = k
  \/ \E n \in DOMAIN msgQ : msgQ[n].k = k

\* stopTripBatchingMultiplex: the last trip stops the batch first.
LeaveTrip(id, next, again) ==
  IF Cardinality(DOMAIN trips) = 1
  THEN /\ apiQ' = Append(apiQ, Call("stopTrip", id, next,
                                    StopMsg("tripStopped", id, next, "trip", again)))
       /\ astray' = (astray \/ UnderWay("tripStopped"))
       /\ UNCHANGED <<saved, trips, ongoing, dropped, batchFull>>
  ELSE StopTrip(id, next, again, batchFull)

StartBatching ==
  /\ Command("start")
  /\ LET m == Head(msgQ)
     IN  IF owner[m.id] \in clientData
         THEN /\ Start(saved, trips, batchFull, apiQ, m.id, m.opts)
              /\ UNCHANGED <<ongoing, dropped, astray>>
         ELSE UNCHANGED <<apiQ, adapterVars>>

\* The stop of a session, for good or to start it again.
Leave(id, next, again) ==
  CASE id \notin DOMAIN saved -> UNCHANGED <<apiQ, adapterVars>>
    [] id \in DOMAIN saved \cap DOMAIN trips -> LeaveTrip(id, next, again)
    [] OTHER -> StopPlain(id, next, again)

UpdateBatchingOptions ==
  Command("update") /\ LET m == Head(msgQ) IN Leave(m.id, m.opts, TRUE)

StopBatching ==
  Command("stop") /\ LET m == Head(msgQ) IN Leave(m.id, Routine, FALSE)

\* LocAdapterBase::removeClientCommand: stopClientSessions goes through the
\* sessions of the client in the order of their ids ...
RemoveClient ==
  /\ AtHead("remove")
  /\ sweep' = {i \in DOMAIN saved : owner[i] = Head(msgQ).client} \cup {0}
  /\ UNCHANGED <<clientVars, msgQ, pending, apiQ, capsKnown, clientData, adapterVars, engineVars>>

SweepSession ==
  \E id \in sweep \ {0} :
    /\ \A i \in sweep \ {0} : id <= i
    /\ IF saved[id] = "trip" THEN LeaveTrip(id, Routine, FALSE) ELSE StopPlain(id, Routine, FALSE)
    /\ sweep' = sweep \ {id}
    /\ UNCHANGED <<clientVars, msgQ, pending, capsKnown, clientData, engineVars>>

\* ... and eraseClient registers for the events anew.
Swept ==
  /\ sweep = {0}
  /\ sweep' = {}
  /\ clientData' = clientData \ {Head(msgQ).client}
  /\ batchFull' = Reported(saved, trips)
  /\ msgQ' = Tail(msgQ)
  /\ UNCHANGED <<clientVars, pending, apiQ, capsKnown, saved, trips, ongoing, dropped, astray,
                 engineVars>>

\* Mutant: keeps the session of a refused start.
Started_kept ==
  Reply("started") /\ UNCHANGED <<apiQ, adapterVars>>

\* The answers to startBatching ...
Started ==
  /\ Reply("started")
  /\ LET m == Head(msgQ)
         s == IF m.ok THEN saved ELSE Without(saved, m.id)
     IN  /\ saved' = s
         /\ batchFull' = (batchFull /\ (m.ok \/ m.opts.mode = "noReport" \/ Reported(s, trips)))
  /\ UNCHANGED <<apiQ, trips, ongoing, dropped, astray>>

\* Mutant: gives up the registration without looking at the other sessions.
Stopped_unregistered ==
  /\ Reply("stopped")
  /\ LET m == Head(msgQ)
     IN  CASE ~ m.ok -> saved' = With(saved, m.id, m.opts.mode) /\ UNCHANGED <<apiQ, trips, batchFull>>
           [] m.ok /\ m.again -> Start(saved, trips, FALSE, apiQ, m.id, m.opts)
           [] OTHER -> batchFull' = FALSE /\ UNCHANGED <<apiQ, saved, trips>>
  /\ UNCHANGED <<ongoing, dropped, astray>>

\* ... stopBatching ...
Stopped ==
  /\ Reply("stopped")
  /\ LET m == Head(msgQ)
         b == batchFull /\ (m.was = "noReport" \/ Reported(saved, trips))
     IN  CASE ~ m.ok -> /\ saved' = With(saved, m.id, m.opts.mode)
                        /\ UNCHANGED <<apiQ, trips, batchFull>>
           [] m.ok /\ m.again -> Start(saved, trips, b, apiQ, m.id, m.opts)
           [] OTHER -> batchFull' = b /\ UNCHANGED <<apiQ, saved, trips>>
  /\ UNCHANGED <<ongoing, dropped, astray>>

\* ... startOutdoorTripBatching ...
TripStarted ==
  /\ Reply("tripStarted")
  /\ LET m == Head(msgQ)
     IN  IF m.ok
         THEN /\ ongoing' = Ongoing(m.opts)
              /\ UNCHANGED <<saved, trips, batchFull, astray>>
         ELSE /\ saved' = Without(saved, m.id)
              /\ trips' = Without(trips, m.id)
              /\ batchFull' = (batchFull /\ Reported(saved', trips'))
              /\ astray' = (astray \/ DOMAIN trips' # {})
              /\ UNCHANGED ongoing
  /\ UNCHANGED <<apiQ, dropped>>

\* ... to the question how far the batch has come, for a new trip ...
Joins ==
  /\ Reply("joins")
  /\ LET m     == Head(msgQ)
         o     == m.opts
         left  == IF m.ok THEN Minus(ongoing.distance, m.acc) ELSE ongoing.distance
         near  == o.distance < left
         often == o.tbf < ongoing.tbf
         t     == IF m.ok THEN With(trips, m.id, NewTrip(o, m.acc)) ELSE trips
         plan  == [mode |-> "trip", distance |-> IF near THEN o.distance ELSE left,
                   tbf |-> IF often THEN o.tbf ELSE ongoing.tbf]
     IN  IF near \/ often
         THEN /\ ongoing' = Ongoing(plan)
              /\ trips' = [i \in DOMAIN t |-> [t[i] EXCEPT !.joined = 0, !.base = t[i].soFar]]
              /\ apiQ' = Append(apiQ, Call("startTrip", 0, plan, Ignore))
         ELSE trips' = t /\ UNCHANGED <<apiQ, ongoing>>
  /\ astray' = (astray \/ DOMAIN trips = {} \/ UnderWay("tripStarted") \/ UnderWay("tripStopped"))
  /\ UNCHANGED <<saved, dropped, batchFull>>

\* ... and stopOutdoorTripBatching.
TripStopped ==
  /\ Reply("tripStopped")
  /\ LET m == Head(msgQ)
     IN  StopTrip(m.id, m.opts, m.again, batchFull /\ ~ (m.ok /\ OneReport(saved, trips)))

\* Trips that the distance acc of the batch completes.
Moved(t, acc)    == [i \in DOMAIN t |-> [t[i] EXCEPT !.soFar = Plus(t[i].base, Minus(acc, t[i].joined))]]
Completed(t)     == {i \in DOMAIN t : t[i].distance <= t[i].soFar}

\* reportCompletedTripsEvent.  The flags are set from a trip that is erased.
CompletedTrips ==
  /\ Reply("completed")
  /\ LET m     == Head(msgQ)
         moved == Moved(trips, m.acc)
         left  == Restrict(moved, DOMAIN trips \ Completed(moved))
     IN  /\ trips' = left
         /\ dropped' \in IF Completed(moved) = {} THEN {dropped} ELSE AnyDrops
         /\ CASE Completed(moved) = {} -> UNCHANGED <<apiQ, ongoing, batchFull>>
              [] Completed(moved) = DOMAIN trips /\ DOMAIN trips # {} ->
                   /\ apiQ' = Append(apiQ, Call("stopTrip", 0, Routine, Ignore))
                   /\ ongoing' = NoTrip
                   /\ batchFull' = (batchFull /\ Reported(saved, left))
              [] OTHER -> /\ apiQ' = Append(apiQ, AskAgain(left, m.acc))
                          /\ UNCHANGED <<ongoing, batchFull>>
  /\ UNCHANGED <<saved, astray>>

\* The second half of restartTripBatching.
Replan ==
  /\ Reply("replan")
  /\ LET m     == Head(msgQ)
         need  == m.opts
         left  == Minus(ongoing.distance, m.acc)
         fresh == dropped.distance \/ left = 0
         near  == IF fresh THEN need.distance # 0 ELSE need.distance < left
         often == \/ need.tbf < ongoing.tbf
                  \/ need.tbf # ongoing.tbf /\ dropped.tbf
         plan  == [mode |-> "trip",
                   distance |-> IF near THEN need.distance ELSE ongoing.distance,
                   tbf |-> IF often THEN need.tbf ELSE ongoing.tbf]
     IN  IF near \/ often
         THEN apiQ' = Append(apiQ, Call("startTrip", 0, plan, Msg("replanned", 0, plan, m.acc)))
         ELSE UNCHANGED apiQ
  /\ UNCHANGED adapterVars

Replanned ==
  /\ Reply("replanned")
  /\ LET m     == Head(msgQ)
         moved == Moved(trips, m.acc)
     IN  IF m.ok
         THEN /\ trips' = [i \in DOMAIN trips |->
                             [moved[i] EXCEPT !.joined = 0, !.base = moved[i].soFar]]
              /\ ongoing' = Ongoing(m.opts)
         ELSE UNCHANGED <<trips, ongoing>>
  /\ UNCHANGED <<apiQ, saved, dropped, batchFull, astray>>

\* handleEngineUpEvent: restartSessions starts every saved session and the
\* batch of the trips, and the commands put aside are posted again.  The loop
\* that should reset what the trips have joined works on copies.
InOrder(S) ==   \* by client, and then by id
  {ids \in [1 .. Cardinality(S) -> S] :
     \A m, n \in DOMAIN ids :
       m < n => ids[m] # ids[n] /\ (owner[ids[m]] = owner[ids[n]] => ids[m] < ids[n])}
Again(i) == Call("start", i, [mode |-> saved[i], distance |-> 0, tbf |-> 0], Ignore)

EngineUp ==
  /\ AtHead("engineUp")
  /\ capsKnown' = TRUE
  /\ msgQ' = Tail(msgQ) \o pending
  /\ pending' = << >>
  /\ batchFull' = (batchFull \/ Reported(saved, trips))
  /\ \E ids \in InOrder({i \in DOMAIN saved : saved[i] # "trip"}) :
       LET calls == apiQ \o [n \in DOMAIN ids |-> Again(ids[n])]
           need  == Needs(trips)
       IN  IF DOMAIN trips = {}
           THEN apiQ' = calls /\ UNCHANGED ongoing
           ELSE /\ apiQ' = Append(calls, Call("startTrip", 0, need, Msg("resumed", 0, need, 0)))
                /\ ongoing' = Ongoing(need)
  /\ UNCHANGED <<clientVars, clientData, saved, trips, dropped, astray, sweep, engineVars>>

Resumed ==
  /\ Reply("resumed")
  /\ ongoing' = IF Head(msgQ).ok THEN ongoing ELSE NoTrip
  /\ UNCHANGED <<apiQ, saved, trips, dropped, batchFull, astray>>

-----------------------------------------------------------------------------
(* The LocApi thread and the engine *)

NoBatch == [on |-> FALSE, distance |-> 0, tbf |-> 0, acc |-> 0]

\* The lambda of a call, with what the engine says.
Answer(m, ok, acc) == [m EXCEPT !.ok = ok, !.acc = IF m.acc = Query THEN acc ELSE m.acc]

Serve(answer) ==
  /\ apiQ # << >>
  /\ apiQ' = Tail(apiQ)
  /\ msgQ' = IF answer.k = "ignore" THEN msgQ ELSE Append(msgQ, answer)
  /\ UNCHANGED <<clientVars, pending, capsKnown, clientData, adapterVars, sweep, link, resets>>

Accept ==
  LET c == Head(apiQ)
  IN  /\ link
      /\ Serve(Answer(c.reply, TRUE, trip.acc))
      /\ plain' = CASE c.op = "start" -> With(plain, c.id, c.opts.mode)
                    [] c.op = "stop"  -> Without(plain, c.id)
                    [] OTHER -> plain
      /\ trip' = CASE c.op = "startTrip" -> [on |-> TRUE, distance |-> c.opts.distance,
                                             tbf |-> c.opts.tbf, acc |-> 0]
                   [] c.op = "stopTrip" -> NoBatch
                   [] OTHER -> trip
      /\ UNCHANGED <<refusals, unserved>>

\* Only a refused start is made up for, unless the restart of an engine that came
\* up before overlaps it: the session is erased, and restarted all the same.
MadeUpFor(c) ==
  /\ c.reply.k \in {"started", "tripStarted"}
  /\ \A n \in 2 .. Len(apiQ) : apiQ[n].op # c.op
  /\ \A n \in DOMAIN msgQ : msgQ[n].k # "engineUp"

Refuse ==
  LET c == Head(apiQ)
  IN  /\ \/ ~ link /\ UNCHANGED refusals
         \/ refusals < MaxRefusals /\ refusals' = refusals + 1
      /\ \E acc \in {0, trip.distance} : Serve(Answer(c.reply, FALSE, acc))
      /\ unserved' = (unserved \/ ~ MadeUpFor(c))
      /\ UNCHANGED <<plain, trip>>

\* The engine counts up to the distance of the batch and reports it.
Travel ==
  /\ trip.on /\ trip.acc < trip.distance
  /\ trip' = [trip EXCEPT !.acc = @ + 1]
  /\ msgQ' = IF trip.acc + 1 = trip.distance
             THEN Append(msgQ, Msg("completed", 0, Routine, trip.distance)) ELSE msgQ
  /\ UNCHANGED <<clientVars, pending, apiQ, capsKnown, clientData, adapterVars, sweep, link, plain,
                 refusals, resets, unserved>>

EngineDown ==
  /\ link /\ resets < MaxResets
  /\ resets' = resets + 1
  /\ link' = FALSE
  /\ plain' = << >>
  /\ trip' = NoBatch
  /\ UNCHANGED <<clientVars, msgQ, pending, apiQ, capsKnown, clientData, adapterVars, sweep,
                 refusals, unserved>>

OpenLink ==
  /\ ~ link
  /\ link' = TRUE
  /\ msgQ' = Append(msgQ, Msg("engineUp", 0, Routine, 0))
  /\ UNCHANGED <<clientVars, pending, apiQ, capsKnown, clientData, adapterVars, sweep, plain, trip,
                 refusals, resets, unserved>>

-----------------------------------------------------------------------------
Init ==
  /\ live = Clients /\ clientData = Clients /\ owner = << >>
  /\ msgQ = << >> /\ pending = << >> /\ apiQ = << >>
  /\ capsKnown = FALSE
  /\ saved = << >> /\ trips = << >> /\ ongoing = NoTrip
  /\ dropped = [distance |-> FALSE, tbf |-> FALSE]
  /\ batchFull = FALSE
  /\ sweep = {}
  /\ link = FALSE /\ plain = << >> /\ trip = NoBatch
  /\ commands = 0 /\ refusals = 0 /\ resets = 0
  /\ astray = FALSE /\ unserved = FALSE

ClientNext ==
  \/ \E c \in Clients : Destroy(c) \/ \E o \in Plain \cup Trips : StartBatchingCommand(c, o)
  \/ \E id \in DOMAIN owner :
       \/ StopBatchingCommand(id)
       \/ \E o \in Plain \cup Trips : UpdateBatchingOptionsCommand(id, o)

AdapterNext ==
  \/ SetAside \/ StartBatching \/ UpdateBatchingOptions \/ StopBatching
  \/ RemoveClient \/ SweepSession \/ Swept
  \/ Started \/ Stopped \/ TripStarted \/ Joins \/ TripStopped \/ CompletedTrips
  \/ Replan \/ Replanned \/ EngineUp \/ Resumed

EngineNext == Accept \/ Refuse \/ Travel \/ EngineDown \/ OpenLink

Next == ClientNext \/ AdapterNext \/ EngineNext
Spec == Init /\ [][Next]_vars

-----------------------------------------------------------------------------
(* Properties *)

TripRecords == [joined : Distances, soFar : Distances, base : Distances,
                distance : Distances, tbf : Distances]
Commands    == {"start", "update", "stop"}
SessionAnswers == {"started", "stopped", "tripStarted", "joins", "tripStopped"}
BatchAnswers   == {"ignore", "replan", "replanned", "resumed"}
Typed(K, I, A) == [k : K, id : I, opts : Options, acc : A, was : Modes, again : BOOLEAN, ok : BOOLEAN]
Asked       == Typed(Commands, Ids, Distances)
Messages    == Typed(Commands \cup SessionAnswers, Ids, Distances)
               \cup Typed(BatchAnswers \cup {"completed", "engineUp"}, {0}, Distances)
Removals    == [k : {"remove"}, client : Clients]
Replies     == Typed(SessionAnswers, Ids, Distances \cup {Query})
               \cup Typed(BatchAnswers, {0}, Distances \cup {Query})
Calls       == [op : {"start", "stop"}, id : Ids, opts : Options, reply : Replies]
               \cup [op : {"startTrip", "stopTrip", "query"}, id : Ids \cup {0}, opts : Options,
                     reply : Replies]
Pairs(S)    == [distance : S, tbf : S]
Partial(f, S) == DOMAIN f \subseteq Ids /\ f \in [DOMAIN f -> S]

\* Types; every distance stays within its width.
TypeOK ==
  /\ live \subseteq Clients /\ clientData \subseteq Clients
  /\ Partial(owner, Clients)
  /\ msgQ \in Seq(Messages \cup Removals) /\ pending \in Seq(Asked)
  /\ apiQ \in Seq(Calls)
  /\ Partial(saved, Modes) /\ Partial(trips, TripRecords)
  /\ ongoing \in Pairs(Distances) /\ dropped \in Pairs(BOOLEAN)
  /\ sweep \subseteq DOMAIN saved \cup {0} /\ (sweep # {} => msgQ # << >>)
  /\ Partial(plain, Modes)
  /\ trip \in [on : BOOLEAN, distance : Distances, tbf : Distances, acc : Distances]
  /\ {capsKnown, batchFull, link, astray, unserved} \subseteq BOOLEAN
  /\ commands \in 0 .. MaxCommands /\ refusals \in 0 .. MaxRefusals
  /\ resets \in 0 .. MaxResets

Regular == ~ unserved /\ ~ astray

AtRest == msgQ = << >> /\ apiQ = << >> /\ pending = << >> /\ sweep = {} /\ link /\ capsKnown

\* While a session waits for the batch full event, the adapter is registered
\* for it: no stop, failed start, completed trip or removed client takes the
\* registration from the sessions that are left (updateEvtMask, wherever it is
\* called).  Unless the engine refused a stop, or a trip was stopped twice.
BatchFullRegistered ==
  Regular /\ Reported(saved, trips) => batchFull

\* When everything is handled, the engine runs exactly the sessions the adapter
\* has saved, in their mode, and batches for the trips, whatever was started,
\* changed and stopped while calls were under way and the engine restarted.
SessionsBatched ==
  AtRest /\ Regular =>
    /\ plain = RestrictValues(saved, LAMBDA mode : mode # "trip")
    /\ DOMAIN trips # {} => trip.on
=============================================================================
