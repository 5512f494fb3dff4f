--------------------------- MODULE Batching_proof ---------------------------
(***************************************************************************)
(* For every number of clients, sessions, distances and bounds: the types  *)
(* of the batching adapter, that no session that waits for the batch full  *)
(* event loses the registration for it, that the engine runs what the      *)
(* adapter has saved, and that a client can stop the session the adapter   *)
(* has saved for it.                                                       *)
(***************************************************************************)
EXTENDS BatchingSessions, FiniteSetTheorems, TLAPS

-----------------------------------------------------------------------------
(* What the operators return *)

\* Unsigned arithmetic stays within its width.
LEMMA Unsigned ==
  ASSUME NEW a \in Distances, NEW b \in Distances
  PROVE  Minus(a, b) \in Distances /\ Plus(a, b) \in Distances /\ 0 \in Distances
  BY BatchingAssumption DEF Minus, Plus, Distances

LEMMA LeastTyped ==
  ASSUME NEW S, S \subseteq Distances
  PROVE  Least(S) \in Distances
  <1> DEFINE least == {m \in S : \A n \in S : m <= n}
  <1>1. least = {} => Least(S) = 0
    BY DEF Least
  <1>2. least # {} => Least(S) \in least
    BY DEF Least
  <1>3. least \subseteq Distances
    OBVIOUS
  <1>4. 0 \in Distances
    BY BatchingAssumption DEF Distances
  <1> QED BY <1>1, <1>2, <1>3, <1>4

LEMMA SmallestTyped ==
  ASSUME NEW t, NEW r, \A i \in DOMAIN t : r[i] \in Distances
  PROVE  Smallest(t, r) \in Distances
  <1> DEFINE tail == {j \in DOMAIN t : \A k \in DOMAIN t : k >= j => r[k] # 0}
  <1>1. {r[i] : i \in tail} \subseteq Distances
    OBVIOUS
  <1> HIDE DEF tail
  <1>2. Least({r[i] : i \in tail}) \in Distances
    BY <1>1, LeastTyped
  <1> QED BY <1>2 DEF Smallest, tail

LEMMA NeedsTyped ==
  ASSUME NEW t, Partial(t, TripRecords)
  PROVE  Needs(t) \in Options
  <1>0. \A i \in DOMAIN t : t[i] \in TripRecords
    BY DEF Partial
  <1>1. \A i \in DOMAIN t : Remaining(t)[i] \in Distances
    BY <1>0, Unsigned DEF Remaining, TripRecords
  <1>2. \A i \in DOMAIN t : Intervals(t)[i] \in Distances
    BY <1>0 DEF Intervals, TripRecords
  <1>3. Smallest(t, Remaining(t)) \in Distances /\ Smallest(t, Intervals(t)) \in Distances
    BY <1>1, <1>2, SmallestTyped
  <1> QED BY <1>3 DEF Needs, Options, Modes

LEMMA WithTyped ==
  ASSUME NEW S, NEW f, Partial(f, S), NEW i \in Ids, NEW v \in S
  PROVE  Partial(With(f, i, v), S) /\ DOMAIN With(f, i, v) = DOMAIN f \cup {i}
  BY DEF Partial, With

LEMMA WithoutTyped ==
  ASSUME NEW S, NEW f, Partial(f, S), NEW i
  PROVE  Partial(Without(f, i), S) /\ DOMAIN Without(f, i) = DOMAIN f \ {i}
  BY DEF Partial, Without, Restrict

\* The domains are finite, so that counting them makes sense.
LEMMA PartialFinite ==
  ASSUME NEW S, NEW f, Partial(f, S)
  PROVE  IsFiniteSet(DOMAIN f)
  <1>1. IsFiniteSet(Ids)
    BY FS_Interval, BatchingAssumption DEF Ids
  <1> QED BY <1>1, FS_Subset DEF Partial

LEMMA RoutineTyped == Routine \in Options /\ 0 \in Distances /\ Ignore \in Replies
  BY BatchingAssumption
  DEF Routine, Options, Modes, Distances, Ignore, Msg, Replies, Typed, BatchAnswers

LEMMA MsgTyped ==
  ASSUME NEW o \in Options, NEW acc \in Distances
  PROVE  /\ \A id \in Ids, k \in Commands : Msg(k, id, o, acc) \in Asked
         /\ \A k \in {"completed", "engineUp"} : Msg(k, 0, o, acc) \in Messages
  BY DEF Msg, Asked, Messages, Typed, Modes

LEMMA ReplyTyped ==
  ASSUME NEW o \in Options, NEW acc \in Distances \cup {Query}
  PROVE  /\ \A id \in Ids, k \in SessionAnswers : Msg(k, id, o, acc) \in Replies
         /\ \A k \in BatchAnswers : Msg(k, 0, o, acc) \in Replies
  BY DEF Msg, Replies, Typed, Modes

LEMMA StopReplyTyped ==
  ASSUME NEW o \in Options, NEW id \in Ids, NEW was \in Modes, NEW again \in BOOLEAN
  PROVE  \A k \in {"stopped", "tripStopped"} : StopMsg(k, id, o, was, again) \in Replies
  BY BatchingAssumption DEF StopMsg, Replies, Typed, SessionAnswers, Distances

LEMMA CallTyped ==
  ASSUME NEW o \in Options, NEW m \in Replies
  PROVE  /\ \A id \in Ids, op \in {"start", "stop"} : Call(op, id, o, m) \in Calls
         /\ \A id \in Ids \cup {0}, op \in {"startTrip", "stopTrip", "query"} :
              Call(op, id, o, m) \in Calls
  BY DEF Call, Calls

-----------------------------------------------------------------------------
(* What the handlers do to the variables of the adapter *)

Core ==
  /\ Partial(saved, Modes) /\ Partial(trips, TripRecords)
  /\ ongoing \in Pairs(Distances) /\ dropped \in Pairs(BOOLEAN)
  /\ batchFull \in BOOLEAN /\ astray \in BOOLEAN
  /\ apiQ \in Seq(Calls)

LEMMA NewTripTyped ==
  ASSUME NEW o \in Options, NEW acc \in Distances
  PROVE  NewTrip(o, acc) \in TripRecords
  BY RoutineTyped DEF NewTrip, Options, TripRecords

LEMMA StartTyped ==
  ASSUME NEW s, NEW t, NEW b \in BOOLEAN, NEW q \in Seq(Calls), NEW id \in Ids, NEW o \in Options,
         Partial(s, Modes), Partial(t, TripRecords), Start(s, t, b, q, id, o)
  PROVE  /\ Partial(saved', Modes) /\ Partial(trips', TripRecords)
         /\ batchFull' \in BOOLEAN /\ apiQ' \in Seq(Calls)
  <1>1. o.mode \in Modes
    BY DEF Options
  <1>2. CASE o.mode # "trip"
    <2>1. StartPlain(s, t, b, q, id, o)
      BY <1>2 DEF Start
    <2>2. Partial(saved', Modes) /\ Partial(trips', TripRecords)
      BY <2>1, <1>1, WithTyped DEF StartPlain
    <2>3. Msg("started", id, o, 0) \in Replies
      BY ReplyTyped, RoutineTyped DEF SessionAnswers
    <2>4. Call("start", id, o, Msg("started", id, o, 0)) \in Calls
      BY <2>3, CallTyped
    <2>5. apiQ' \in Seq(Calls)
      BY <2>1, <2>4 DEF StartPlain
    <2>6. batchFull' \in BOOLEAN
      BY <2>1 DEF StartPlain
    <2> QED BY <2>2, <2>5, <2>6
  <1>3. CASE o.mode = "trip" /\ DOMAIN t = {}
    <2>1. /\ saved' = With(s, id, "trip")
          /\ trips' = With(t, id, NewTrip(o, 0))
          /\ batchFull' = (b \/ ~ Reported(s, t))
          /\ apiQ' = Append(q, Call("startTrip", id, o, Msg("tripStarted", id, o, 0)))
      BY <1>3 DEF Start, StartTrip
    <2>2. Partial(saved', Modes) /\ Partial(trips', TripRecords)
      BY <2>1, <1>1, <1>3, WithTyped, NewTripTyped, RoutineTyped
    <2>3. Msg("tripStarted", id, o, 0) \in Replies
      BY ReplyTyped, RoutineTyped DEF SessionAnswers
    <2>4. Call("startTrip", id, o, Msg("tripStarted", id, o, 0)) \in Calls
      BY <2>3, CallTyped
    <2>5. apiQ' \in Seq(Calls)
      BY <2>1, <2>4
    <2>6. batchFull' \in BOOLEAN
      BY <2>1
    <2> QED BY <2>2, <2>5, <2>6
  <1>4. CASE o.mode = "trip" /\ DOMAIN t # {}
    <2>1. /\ saved' = s /\ trips' = t /\ batchFull' = b
          /\ apiQ' = Append(q, Call("query", id, o, Msg("joins", id, o, Query)))
      BY <1>4 DEF Start, StartTrip
    <2>3. Msg("joins", id, o, Query) \in Replies
      BY ReplyTyped DEF SessionAnswers
    <2>4. Call("query", id, o, Msg("joins", id, o, Query)) \in Calls
      BY <2>3, CallTyped
    <2>5. apiQ' \in Seq(Calls)
      BY <2>1, <2>4
    <2> QED BY <2>1, <2>5
  <1> QED BY <1>2, <1>3, <1>4

LEMMA StopPlainTyped ==
  ASSUME Core, NEW id \in DOMAIN saved, NEW next \in Options, NEW again \in BOOLEAN,
         StopPlain(id, next, again)
  PROVE  Core' /\ saved' = Without(saved, id) /\ trips' = trips /\ batchFull' = batchFull
                /\ astray' = astray
  <1>1. id \in Ids /\ saved[id] \in Modes
    BY DEF Core, Partial
  <1>2. StopMsg("stopped", id, next, saved[id], again) \in Replies
    BY <1>1, StopReplyTyped
  <1>3. Call("stop", id, next, StopMsg("stopped", id, next, saved[id], again)) \in Calls
    BY <1>1, <1>2, CallTyped
  <1>4. apiQ' \in Seq(Calls)
    BY <1>3 DEF StopPlain, Core
  <1>5. Partial(saved', Modes)
    BY WithoutTyped DEF StopPlain, Core
  <1> QED BY <1>4, <1>5 DEF StopPlain, Core

LEMMA AskAgainTyped ==
  ASSUME NEW t, Partial(t, TripRecords), NEW acc \in Distances \cup {Query}
  PROVE  AskAgain(t, acc) \in Calls
  <1>1. Msg("replan", 0, Needs(t), acc) \in Replies
    BY NeedsTyped, ReplyTyped DEF BatchAnswers
  <1> QED BY <1>1, CallTyped, RoutineTyped DEF AskAgain

LEMMA DropsTyped ==
  ASSUME Core
  PROVE  AnyDrops \subseteq Pairs(BOOLEAN) /\ \A t : Drops(t) \subseteq Pairs(BOOLEAN)
  <1>1. AnyDrops \subseteq Pairs(BOOLEAN)
    BY DEF AnyDrops, Pairs
  <1>2. ASSUME NEW t
        PROVE  Drops(t) \subseteq Pairs(BOOLEAN)
    BY DEF Drops, Pairs
  <1> QED BY <1>1, <1>2

LEMMA StopTripTyped ==
  ASSUME Core, NEW id \in Ids, NEW next \in Options, NEW again \in BOOLEAN, NEW b \in BOOLEAN,
         StopTrip(id, next, again, b)
  PROVE  Core'
  <1> DEFINE left  == Without(trips, id)
             calls == IF DOMAIN left = {} THEN apiQ ELSE Append(apiQ, AskAgain(left, Query))
  <1>1. Partial(left, TripRecords)
    BY WithoutTyped DEF Core
  <1>2. AskAgain(left, Query) \in Calls
    BY <1>1, AskAgainTyped
  <1>3. calls \in Seq(Calls)
    BY <1>2 DEF Core
  <1>4. dropped' \in Pairs(BOOLEAN)
    BY DropsTyped DEF StopTrip
  <1>5. astray' \in BOOLEAN
    BY DEF StopTrip
  <1>6. ongoing' \in Pairs(Distances)
    BY RoutineTyped DEF StopTrip, Core, NoTrip, Pairs
  <1>7. CASE again
    <2>1. Start(Without(saved, id), left, b, calls, id, next)
      BY <1>7 DEF StopTrip
    <2>2. Partial(Without(saved, id), Modes)
      BY WithoutTyped DEF Core
    <2> HIDE DEF left, calls
    <2>3. /\ Partial(saved', Modes) /\ Partial(trips', TripRecords)
          /\ batchFull' \in BOOLEAN /\ apiQ' \in Seq(Calls)
      BY <1>1, <1>3, <2>1, <2>2, StartTyped
    <2> QED BY <1>4, <1>5, <1>6, <2>3 DEF Core
  <1>8. CASE ~ again
    <2>1. saved' = saved /\ trips' = left /\ batchFull' = b /\ apiQ' = calls
      BY <1>8 DEF StopTrip
    <2> HIDE DEF left, calls
    <2> QED BY <1>1, <1>3, <1>4, <1>5, <1>6, <2>1 DEF Core
  <1> QED BY <1>7, <1>8

LEMMA LeaveTripTyped ==
  ASSUME Core, NEW id \in Ids, NEW next \in Options, NEW again \in BOOLEAN,
         LeaveTrip(id, next, again)
  PROVE  Core'
  <1>1. CASE Cardinality(DOMAIN trips) = 1
    <2>1. StopMsg("tripStopped", id, next, "trip", again) \in Replies
      BY StopReplyTyped DEF Modes
    <2>2. Call("stopTrip", id, next, StopMsg("tripStopped", id, next, "trip", again)) \in Calls
      BY <2>1, CallTyped
    <2>3. apiQ' \in Seq(Calls)
      BY <1>1, <2>2 DEF LeaveTrip, Core
    <2>4. astray' \in BOOLEAN
      BY <1>1 DEF LeaveTrip
    <2> QED BY <1>1, <2>3, <2>4 DEF LeaveTrip, Core
  <1>2. CASE Cardinality(DOMAIN trips) # 1
    BY <1>2, StopTripTyped DEF LeaveTrip, Core
  <1> QED BY <1>1, <1>2

LEMMA LeaveTyped ==
  ASSUME Core, NEW id, NEW next \in Options, NEW again \in BOOLEAN, Leave(id, next, again)
  PROVE  Core'
  <1>1. CASE id \notin DOMAIN saved
    BY <1>1 DEF Leave, Core, adapterVars
  <1>2. CASE id \in DOMAIN saved \cap DOMAIN trips
    <2>1. id \in Ids
      BY <1>2 DEF Core, Partial
    <2>2. LeaveTrip(id, next, again)
      BY <1>2 DEF Leave
    <2> QED BY <2>1, <2>2, LeaveTripTyped
  <1>3. CASE id \in DOMAIN saved /\ id \notin DOMAIN trips
    <2>1. StopPlain(id, next, again)
      BY <1>3 DEF Leave
    <2> QED BY <1>3, <2>1, StopPlainTyped
  <1> QED BY <1>1, <1>2, <1>3

-----------------------------------------------------------------------------
(* Messages *)

Queued == Seq(Messages \cup Removals)

Rest ==
  /\ live \subseteq Clients /\ clientData \subseteq Clients
  /\ Partial(owner, Clients)
  /\ msgQ \in Queued /\ pending \in Seq(Asked)
  /\ sweep \subseteq DOMAIN saved \cup {0} /\ (sweep # {} => msgQ # << >>)
  /\ Partial(plain, Modes)
  /\ trip \in [on : BOOLEAN, distance : Distances, tbf : Distances, acc : Distances]
  /\ {capsKnown, link, unserved} \subseteq BOOLEAN
  /\ commands \in 0 .. MaxCommands /\ refusals \in 0 .. MaxRefusals
  /\ resets \in 0 .. MaxResets

LEMMA Parts == TypeOK <=> Core /\ Rest
  <1>1. {capsKnown, batchFull, link, astray, unserved} \subseteq BOOLEAN
          <=> batchFull \in BOOLEAN /\ astray \in BOOLEAN /\ {capsKnown, link, unserved} \subseteq BOOLEAN
    OBVIOUS
  <1> QED BY <1>1 DEF TypeOK, Core, Rest, Queued

LEMMA PartsPrimed == Core' /\ Rest' => TypeOK'
  <1>1. {capsKnown', batchFull', link', astray', unserved'} \subseteq BOOLEAN
          <=> batchFull' \in BOOLEAN /\ astray' \in BOOLEAN /\ {capsKnown', link', unserved'} \subseteq BOOLEAN
    OBVIOUS
  <1> QED BY <1>1 DEF TypeOK, Core, Rest, Queued

SessionMessage(m) == m \in Typed(Commands \cup SessionAnswers, Ids, Distances)
BatchMessage(m)   == m \in Typed(BatchAnswers \cup {"completed", "engineUp"}, {0}, Distances)

\* What the message taken is, by its kind.
LEMMA HeadTyped ==
  ASSUME Rest, NEW k, AtHead(k)
  PROVE  /\ Head(msgQ).k = k /\ Tail(msgQ) \in Queued
         /\ k \in Commands \cup SessionAnswers => SessionMessage(Head(msgQ))
         /\ k \in BatchAnswers \cup {"completed", "engineUp"} => BatchMessage(Head(msgQ))
  <1>1. msgQ # << >> /\ Head(msgQ).k = k
    BY DEF AtHead
  <1>2. Head(msgQ) \in Messages \cup Removals /\ Tail(msgQ) \in Queued
    BY <1>1 DEF Rest, Queued
  <1>3. Head(msgQ) \in Removals => k = "remove"
    BY <1>1 DEF Removals
  <1>4. SessionMessage(Head(msgQ)) => k \in Commands \cup SessionAnswers
    BY <1>1 DEF SessionMessage, Typed
  <1>5. BatchMessage(Head(msgQ)) => k \in BatchAnswers \cup {"completed", "engineUp"}
    BY <1>1 DEF BatchMessage, Typed
  <1>6. "remove" \notin Commands \cup SessionAnswers \cup BatchAnswers \cup {"completed", "engineUp"}
    BY DEF Commands, SessionAnswers, BatchAnswers
  <1>7. (Commands \cup SessionAnswers) \cap (BatchAnswers \cup {"completed", "engineUp"}) = {}
    BY DEF Commands, SessionAnswers, BatchAnswers
  <1> QED BY <1>1, <1>2, <1>3, <1>4, <1>5, <1>6, <1>7 DEF SessionMessage, BatchMessage, Messages

LEMMA SessionFields ==
  ASSUME NEW m, SessionMessage(m)
  PROVE  /\ m.k \in Commands \cup SessionAnswers /\ m.id \in Ids /\ m.opts \in Options
         /\ m.acc \in Distances /\ m.was \in Modes /\ m.again \in BOOLEAN /\ m.ok \in BOOLEAN
  BY DEF SessionMessage, Typed

LEMMA BatchFields ==
  ASSUME NEW m, BatchMessage(m)
  PROVE  m.opts \in Options /\ m.acc \in Distances /\ m.ok \in BOOLEAN
  BY DEF BatchMessage, Typed

\* Outside the adapter nothing is touched by a command or a lambda.
LEMMA ReceiveRest ==
  ASSUME Rest, NEW k, Receive(k), UNCHANGED <<pending, capsKnown, clientData>>
  PROVE  Rest' /\ UNCHANGED <<clientVars, sweep, engineVars>>
  <1>1. Tail(msgQ) \in Queued
    BY HeadTyped DEF Receive
  <1>2. sweep = {}
    BY DEF Receive, AtHead
  <1> QED BY <1>1, <1>2 DEF Rest, Receive, clientVars, engineVars

-----------------------------------------------------------------------------
(* Records of trips *)

LEMMA OngoingTyped ==
  ASSUME NEW o \in Options
  PROVE  Ongoing(o) \in Pairs(Distances)
  BY DEF Ongoing, Options, Pairs

LEMMA RecordTyped ==
  ASSUME NEW r \in TripRecords, NEW d \in Distances
  PROVE  [r EXCEPT !.soFar = d] \in TripRecords /\ [r EXCEPT !.joined = 0, !.base = r.soFar] \in TripRecords
  BY RoutineTyped DEF TripRecords

LEMMA MovedTyped ==
  ASSUME NEW t, Partial(t, TripRecords), NEW acc \in Distances
  PROVE  Partial(Moved(t, acc), TripRecords) /\ DOMAIN Moved(t, acc) = DOMAIN t
  <1>1. ASSUME NEW i \in DOMAIN t
        PROVE  [t[i] EXCEPT !.soFar = Plus(t[i].base, Minus(acc, t[i].joined))] \in TripRecords
    <2>1. t[i] \in TripRecords
      BY DEF Partial
    <2>2. t[i].base \in Distances /\ t[i].joined \in Distances
      BY <2>1 DEF TripRecords
    <2>3. Plus(t[i].base, Minus(acc, t[i].joined)) \in Distances
      BY <2>2, Unsigned
    <2> QED BY <2>1, <2>3, RecordTyped
  <1> QED BY <1>1 DEF Moved, Partial

LEMMA RebasedTyped ==
  ASSUME NEW t, Partial(t, TripRecords)
  PROVE  Partial([i \in DOMAIN t |-> [t[i] EXCEPT !.joined = 0, !.base = t[i].soFar]], TripRecords)
  <1>1. ASSUME NEW i \in DOMAIN t
        PROVE  [t[i] EXCEPT !.joined = 0, !.base = t[i].soFar] \in TripRecords
    <2>1. t[i] \in TripRecords
      BY DEF Partial
    <2> QED BY <2>1, RecordTyped, RoutineTyped
  <1> QED BY <1>1 DEF Partial

LEMMA AnswerTyped ==
  ASSUME NEW m \in Replies, NEW ok \in BOOLEAN, NEW acc \in Distances
  PROVE  /\ Answer(m, ok, acc) \in Messages
         /\ Answer(m, ok, acc).k = m.k /\ Answer(m, ok, acc).ok = ok
  <1>1. m.acc \in Distances \cup {Query}
    BY DEF Replies, Typed
  <1>2. (IF m.acc = Query THEN acc ELSE m.acc) \in Distances
    BY <1>1
  <1>3. CASE m \in Typed(SessionAnswers, Ids, Distances \cup {Query})
    BY <1>2, <1>3 DEF Answer, Messages, Typed
  <1>4. CASE m \in Typed(BatchAnswers, {0}, Distances \cup {Query})
    BY <1>2, <1>4 DEF Answer, Messages, Typed
  <1> QED BY <1>3, <1>4 DEF Replies

-----------------------------------------------------------------------------
(* The handlers keep the types *)

LEMMA CommandsTyped ==
  ASSUME Core, Rest, StartBatching \/ UpdateBatchingOptions \/ StopBatching
  PROVE  Core' /\ Rest'
  <1> DEFINE m == Head(msgQ)
  <1>1. CASE StartBatching
    <2>1. Command("start")
      BY <1>1 DEF StartBatching
    <2>2. Rest' /\ m.id \in Ids /\ m.opts \in Options
      BY <2>1, ReceiveRest, HeadTyped, SessionFields DEF Command, Receive, Commands
    <2>3. CASE owner[m.id] \in clientData
      <3>1. /\ Start(saved, trips, batchFull, apiQ, m.id, m.opts)
            /\ UNCHANGED <<ongoing, dropped, astray>>
        BY <1>1, <2>3 DEF StartBatching
      <3> HIDE DEF m
      <3> QED BY <2>2, <3>1, StartTyped DEF Core
    <2>4. CASE owner[m.id] \notin clientData
      BY <1>1, <2>2, <2>4 DEF StartBatching, Core, adapterVars
    <2> QED BY <2>3, <2>4
  <1>2. CASE UpdateBatchingOptions
    <2>1. Command("update") /\ Leave(m.id, m.opts, TRUE)
      BY <1>2 DEF UpdateBatchingOptions
    <2>2. Rest' /\ m.opts \in Options
      BY <2>1, ReceiveRest, HeadTyped, SessionFields DEF Command, Receive, Commands
    <2> HIDE DEF m
    <2> QED BY <2>1, <2>2, LeaveTyped
  <1>3. CASE StopBatching
    <2>1. Command("stop") /\ Leave(m.id, Routine, FALSE)
      BY <1>3 DEF StopBatching
    <2>2. Rest'
      BY <2>1, ReceiveRest DEF Command
    <2> HIDE DEF m
    <2> QED BY <2>1, <2>2, LeaveTyped, RoutineTyped
  <1> QED BY <1>1, <1>2, <1>3

LEMMA StartAnswersTyped ==
  ASSUME Core, Rest, Started \/ Stopped \/ TripStarted
  PROVE  Core' /\ Rest'
  <1> DEFINE m == Head(msgQ)
  <1>1. CASE Started
    <2>1. Reply("started") /\ UNCHANGED <<apiQ, trips, ongoing, dropped, astray>>
      BY <1>1 DEF Started
    <2>2. Rest'
      BY <2>1, ReceiveRest DEF Reply
    <2>3. saved' = saved \/ saved' = Without(saved, m.id)
      BY <1>1 DEF Started
    <2>4. Partial(saved, Modes) /\ Partial(Without(saved, m.id), Modes)
      BY WithoutTyped DEF Core
    <2>6. Partial(saved', Modes)
      BY <2>3, <2>4
    <2>5. batchFull' \in BOOLEAN
      BY <1>1 DEF Started
    <2> QED BY <2>1, <2>2, <2>5, <2>6 DEF Core
  <1>2. CASE Stopped
    <2>1. Reply("stopped") /\ UNCHANGED <<ongoing, dropped, astray>>
      BY <1>2 DEF Stopped
    <2>2. /\ Rest' /\ m.id \in Ids /\ m.opts \in Options /\ m.again \in BOOLEAN
          /\ m.ok \in BOOLEAN
      BY <2>1, ReceiveRest, HeadTyped, SessionFields DEF Reply, Receive, SessionAnswers
    <2> DEFINE b == batchFull /\ (m.was = "noReport" \/ Reported(saved, trips))
    <2>3. b \in BOOLEAN
      OBVIOUS
    <2>4. CASE ~ m.ok
      <3>1. saved' = With(saved, m.id, m.opts.mode) /\ UNCHANGED <<apiQ, trips, batchFull>>
        BY <1>2, <2>4 DEF Stopped
      <3>2. m.opts.mode \in Modes
        BY <2>2 DEF Options
      <3>3. Partial(saved', Modes)
        BY <2>2, <3>1, <3>2, WithTyped DEF Core
      <3> QED BY <2>1, <2>2, <3>1, <3>3 DEF Core
    <2>5. CASE m.ok /\ m.again
      <3>1. Start(saved, trips, b, apiQ, m.id, m.opts)
        BY <1>2, <2>5 DEF Stopped
      <3> HIDE DEF b, m
      <3> QED BY <2>1, <2>2, <2>3, <3>1, StartTyped DEF Core
    <2>6. CASE m.ok /\ ~ m.again
      <3>1. batchFull' = b /\ UNCHANGED <<apiQ, saved, trips>>
        BY <1>2, <2>6 DEF Stopped
      <3> HIDE DEF b, m
      <3> QED BY <2>1, <2>2, <2>3, <3>1 DEF Core
    <2> QED BY <2>4, <2>5, <2>6
  <1>3. CASE TripStarted
    <2>1. Reply("tripStarted") /\ UNCHANGED <<apiQ, dropped>>
      BY <1>3 DEF TripStarted
    <2>2. Rest' /\ m.opts \in Options
      BY <2>1, ReceiveRest, HeadTyped, SessionFields DEF Reply, Receive, SessionAnswers
    <2>3. CASE m.ok
      <3>1. ongoing' = Ongoing(m.opts) /\ UNCHANGED <<saved, trips, batchFull, astray>>
        BY <1>3, <2>3 DEF TripStarted
      <3> HIDE DEF m
      <3> QED BY <2>1, <2>2, <3>1, OngoingTyped DEF Core
    <2>4. CASE ~ m.ok
      <3>1. /\ saved' = Without(saved, m.id) /\ trips' = Without(trips, m.id)
            /\ UNCHANGED ongoing
        BY <1>3, <2>4 DEF TripStarted
      <3>2. batchFull' \in BOOLEAN /\ astray' \in BOOLEAN
        BY <1>3, <2>4 DEF TripStarted
      <3>3. Partial(saved', Modes) /\ Partial(trips', TripRecords)
        BY <3>1, WithoutTyped DEF Core
      <3> QED BY <2>1, <2>2, <3>1, <3>2, <3>3 DEF Core
    <2> QED BY <2>3, <2>4
  <1> QED BY <1>1, <1>2, <1>3

LEMMA JoinsTyped ==
  ASSUME Core, Rest, Joins
  PROVE  Core' /\ Rest'
  <1> DEFINE m     == Head(msgQ)
             o     == m.opts
             left  == IF m.ok THEN Minus(ongoing.distance, m.acc) ELSE ongoing.distance
             near  == o.distance < left
             often == o.tbf < ongoing.tbf
             t     == IF m.ok THEN With(trips, m.id, NewTrip(o, m.acc)) ELSE trips
             plan  == [mode |-> "trip", distance |-> IF near THEN o.distance ELSE left,
                       tbf |-> IF often THEN o.tbf ELSE ongoing.tbf]
  <1>1. Reply("joins") /\ UNCHANGED <<saved, dropped, batchFull>>
    BY DEF Joins
  <1>2. Rest' /\ m.id \in Ids /\ o \in Options /\ m.acc \in Distances
    BY <1>1, ReceiveRest, HeadTyped, SessionFields DEF Reply, Receive, SessionAnswers
  <1>3. IF near \/ often
        THEN /\ ongoing' = Ongoing(plan)
             /\ trips' = [i \in DOMAIN t |-> [t[i] EXCEPT !.joined = 0, !.base = t[i].soFar]]
             /\ apiQ' = Append(apiQ, Call("startTrip", 0, plan, Ignore))
        ELSE trips' = t /\ UNCHANGED <<apiQ, ongoing>>
    BY DEF Joins
  <1>4. astray' \in BOOLEAN
    BY DEF Joins
  <1> HIDE DEF m
  <1>5. Partial(t, TripRecords)
    BY <1>2, WithTyped, NewTripTyped DEF Core
  <1>6. left \in Distances
    BY <1>2, Unsigned DEF Core, Pairs
  <1>7. o.distance \in Distances /\ o.tbf \in Distances /\ ongoing.tbf \in Distances
    BY <1>2 DEF Options, Core, Pairs
  <1> HIDE DEF o, left, near, often, t
  <1>8. plan \in Options
    BY <1>6, <1>7 DEF Options, Modes
  <1> HIDE DEF plan
  <1>9. Call("startTrip", 0, plan, Ignore) \in Calls
    BY <1>8, CallTyped, RoutineTyped
  <1>10. CASE near \/ often
    <2>1. Partial(trips', TripRecords)
      BY <1>3, <1>5, <1>10, RebasedTyped
    <2>2. ongoing' \in Pairs(Distances)
      BY <1>3, <1>8, <1>10, OngoingTyped
    <2>3. apiQ' = Append(apiQ, Call("startTrip", 0, plan, Ignore))
      BY <1>3, <1>10
    <2>4. apiQ' \in Seq(Calls)
      BY <1>9, <2>3 DEF Core
    <2> QED BY <1>1, <1>2, <1>4, <2>1, <2>2, <2>4 DEF Core
  <1>11. CASE ~ (near \/ often)
    BY <1>1, <1>2, <1>3, <1>4, <1>5, <1>11 DEF Core
  <1> QED BY <1>10, <1>11

LEMMA RestrictTyped ==
  ASSUME NEW S, NEW f, Partial(f, S), NEW D, D \subseteq DOMAIN f
  PROVE  Partial(Restrict(f, D), S) /\ DOMAIN Restrict(f, D) = D
  BY DEF Partial, Restrict

LEMMA TripAnswersTyped ==
  ASSUME Core, Rest, TripStopped \/ CompletedTrips
  PROVE  Core' /\ Rest'
  <1> DEFINE m == Head(msgQ)
  <1>1. CASE TripStopped
    <2> DEFINE b == batchFull /\ ~ (m.ok /\ OneReport(saved, trips))
    <2>1. Reply("tripStopped") /\ StopTrip(m.id, m.opts, m.again, b)
      BY <1>1 DEF TripStopped
    <2>2. Rest' /\ m.id \in Ids /\ m.opts \in Options /\ m.again \in BOOLEAN
      BY <2>1, ReceiveRest, HeadTyped, SessionFields DEF Reply, Receive, SessionAnswers
    <2>3. b \in BOOLEAN
      OBVIOUS
    <2> HIDE DEF b, m
    <2> QED BY <2>1, <2>2, <2>3, StopTripTyped
  <1>2. CASE CompletedTrips
    <2> DEFINE moved == Moved(trips, m.acc)
               left  == Restrict(moved, DOMAIN trips \ Completed(moved))
    <2>1. /\ Reply("completed") /\ UNCHANGED <<saved, astray>>
          /\ trips' = left
          /\ dropped' \in IF Completed(moved) = {} THEN {dropped} ELSE AnyDrops
      BY <1>2 DEF CompletedTrips
    <2>2. Rest' /\ m.acc \in Distances
      BY <2>1, ReceiveRest, HeadTyped, BatchFields DEF Reply, Receive
    <2>3. Partial(left, TripRecords)
      <3> HIDE DEF m
      <3> QED BY <2>2, MovedTyped, RestrictTyped DEF Core
    <2>4. dropped' \in Pairs(BOOLEAN)
      BY <2>1, DropsTyped DEF Core
    <2>5. CASE Completed(moved) = {}
      <3>1. UNCHANGED <<apiQ, ongoing, batchFull>>
        BY <1>2, <2>5 DEF CompletedTrips
      <3> HIDE DEF left
      <3> QED BY <2>1, <2>2, <2>3, <2>4, <3>1 DEF Core
    <2>6. CASE Completed(moved) # {} /\ Completed(moved) = DOMAIN trips
      <3>1. /\ apiQ' = Append(apiQ, Call("stopTrip", 0, Routine, Ignore))
            /\ ongoing' = NoTrip
            /\ batchFull' = (batchFull /\ Reported(saved, left))
        BY <1>2, <2>6 DEF CompletedTrips
      <3>2. Call("stopTrip", 0, Routine, Ignore) \in Calls
        BY CallTyped, RoutineTyped
      <3>3. apiQ' \in Seq(Calls) /\ ongoing' \in Pairs(Distances) /\ batchFull' \in BOOLEAN
        BY <3>1, <3>2, RoutineTyped DEF Core, NoTrip, Pairs
      <3> HIDE DEF left
      <3> QED BY <2>1, <2>2, <2>3, <2>4, <3>3 DEF Core
    <2>7. CASE Completed(moved) # {} /\ Completed(moved) # DOMAIN trips
      <3>1. apiQ' = Append(apiQ, AskAgain(left, m.acc)) /\ UNCHANGED <<ongoing, batchFull>>
        BY <1>2, <2>7 DEF CompletedTrips
      <3> HIDE DEF left, m
      <3>2. AskAgain(left, m.acc) \in Calls
        BY <2>2, <2>3, AskAgainTyped
      <3> QED BY <2>1, <2>2, <2>3, <2>4, <3>1, <3>2 DEF Core
    <2> QED BY <2>5, <2>6, <2>7
  <1> QED BY <1>1, <1>2

LEMMA PlansTyped ==
  ASSUME Core, Rest, Replan \/ Replanned \/ Resumed
  PROVE  Core' /\ Rest'
  <1> DEFINE m == Head(msgQ)
  <1>1. CASE Replan
    <2> DEFINE need  == m.opts
               left  == Minus(ongoing.distance, m.acc)
               fresh == dropped.distance \/ left = 0
               near  == IF fresh THEN need.distance # 0 ELSE need.distance < left
               often == \/ need.tbf < ongoing.tbf
                        \/ need.tbf # ongoing.tbf /\ dropped.tbf
               plan  == [mode |-> "trip",
                         distance |-> IF near THEN need.distance ELSE ongoing.distance,
                         tbf |-> IF often THEN need.tbf ELSE ongoing.tbf]
    <2>1. Reply("replan") /\ UNCHANGED adapterVars
      BY <1>1 DEF Replan
    <2>2. Rest' /\ need \in Options /\ m.acc \in Distances
      BY <2>1, ReceiveRest, HeadTyped, BatchFields DEF Reply, Receive, BatchAnswers
    <2>3. \/ apiQ' = Append(apiQ, Call("startTrip", 0, plan, Msg("replanned", 0, plan, m.acc)))
          \/ UNCHANGED apiQ
      BY <1>1 DEF Replan
    <2> HIDE DEF m
    <2>4. need.distance \in Distances /\ need.tbf \in Distances
      BY <2>2 DEF Options
    <2>5. ongoing.distance \in Distances /\ ongoing.tbf \in Distances
      BY DEF Core, Pairs
    <2> HIDE DEF need, near, often
    <2>6. plan \in Options
      BY <2>4, <2>5 DEF Options, Modes
    <2> HIDE DEF plan
    <2>7. Msg("replanned", 0, plan, m.acc) \in Replies
      BY <2>2, <2>6, ReplyTyped DEF BatchAnswers
    <2>8. Call("startTrip", 0, plan, Msg("replanned", 0, plan, m.acc)) \in Calls
      BY <2>6, <2>7, CallTyped
    <2>9. apiQ' \in Seq(Calls)
      BY <2>3, <2>8 DEF Core
    <2> QED BY <2>1, <2>2, <2>9 DEF Core, adapterVars
  <1>2. CASE Replanned
    <2> DEFINE moved == Moved(trips, m.acc)
    <2>1. Reply("replanned") /\ UNCHANGED <<apiQ, saved, dropped, batchFull, astray>>
      BY <1>2 DEF Replanned
    <2>2. Rest' /\ m.opts \in Options /\ m.acc \in Distances
      BY <2>1, ReceiveRest, HeadTyped, BatchFields DEF Reply, Receive, BatchAnswers
    <2>3. CASE m.ok
      <3>1. /\ trips' = [i \in DOMAIN trips |-> [moved[i] EXCEPT !.joined = 0, !.base = moved[i].soFar]]
            /\ ongoing' = Ongoing(m.opts)
        BY <1>2, <2>3 DEF Replanned
      <3> HIDE DEF m
      <3>2. Partial(moved, TripRecords) /\ DOMAIN moved = DOMAIN trips
        BY <2>2, MovedTyped DEF Core
      <3> HIDE DEF moved
      <3>3. Partial(trips', TripRecords)
        BY <3>1, <3>2, RebasedTyped
      <3> QED BY <2>1, <2>2, <3>1, <3>3, OngoingTyped DEF Core
    <2>4. CASE ~ m.ok
      <3>1. UNCHANGED <<trips, ongoing>>
        BY <1>2, <2>4 DEF Replanned
      <3> QED BY <2>1, <2>2, <3>1 DEF Core
    <2> QED BY <2>3, <2>4
  <1>3. CASE Resumed
    <2>1. Reply("resumed") /\ UNCHANGED <<apiQ, saved, trips, dropped, batchFull, astray>>
      BY <1>3 DEF Resumed
    <2>2. Rest'
      BY <2>1, ReceiveRest DEF Reply
    <2>3. ongoing' = ongoing \/ ongoing' = NoTrip
      BY <1>3 DEF Resumed
    <2>4. ongoing' \in Pairs(Distances)
      BY <2>3, RoutineTyped DEF Core, NoTrip, Pairs
    <2> QED BY <2>1, <2>2, <2>4 DEF Core
  <1> QED BY <1>1, <1>2, <1>3

LEMMA InOrderTyped ==
  ASSUME NEW S, S \subseteq Ids, NEW ids \in InOrder(S)
  PROVE  ids \in Seq(S)
  <1>1. IsFiniteSet(S)
    <2>1. IsFiniteSet(Ids)
      BY FS_Interval, BatchingAssumption DEF Ids
    <2> QED BY <2>1, FS_Subset
  <1>2. Cardinality(S) \in Nat
    BY <1>1, FS_CardinalityType
  <1>3. ids \in [1 .. Cardinality(S) -> S]
    BY DEF InOrder
  <1> QED BY <1>2, <1>3

LEMMA EngineUpTyped ==
  ASSUME Core, Rest, EngineUp
  PROVE  Core' /\ Rest'
  <1> DEFINE need == Needs(trips)
             S    == {i \in DOMAIN saved : saved[i] # "trip"}
  <1>1. PICK ids \in InOrder(S) :
          LET calls == apiQ \o [n \in DOMAIN ids |-> Again(ids[n])]
          IN  IF DOMAIN trips = {}
              THEN apiQ' = calls /\ UNCHANGED ongoing
              ELSE /\ apiQ' = Append(calls, Call("startTrip", 0, need, Msg("resumed", 0, need, 0)))
                   /\ ongoing' = Ongoing(need)
    BY DEF EngineUp
  <1> DEFINE again == [n \in DOMAIN ids |-> Again(ids[n])]
             calls == apiQ \o again
  <1>2. ASSUME NEW i \in DOMAIN saved
        PROVE  Again(i) \in Calls
    <2>1. i \in Ids /\ saved[i] \in Modes
      BY DEF Core, Partial
    <2>2. [mode |-> saved[i], distance |-> 0, tbf |-> 0] \in Options
      BY <2>1, RoutineTyped DEF Options
    <2> QED BY <2>1, <2>2, CallTyped, RoutineTyped DEF Again
  <1>3. ids \in Seq(S)
    BY InOrderTyped DEF Core, Partial
  <1>4. again \in Seq(Calls)
    <2>1. ids \in [1 .. Len(ids) -> S] /\ Len(ids) \in Nat /\ DOMAIN ids = 1 .. Len(ids)
      BY <1>3
    <2>2. again \in [1 .. Len(ids) -> Calls]
      BY <1>2, <2>1
    <2> QED BY <2>1, <2>2
  <1>5. calls \in Seq(Calls)
    BY <1>4 DEF Core
  <1>6. need \in Options
    BY NeedsTyped DEF Core
  <1>7. Msg("resumed", 0, need, 0) \in Replies
    BY <1>6, ReplyTyped, RoutineTyped DEF BatchAnswers
  <1>8. Call("startTrip", 0, need, Msg("resumed", 0, need, 0)) \in Calls
    BY <1>6, <1>7, CallTyped
  <1>9. apiQ' \in Seq(Calls) /\ ongoing' \in Pairs(Distances)
    <2> HIDE DEF need
    <2>1. CASE DOMAIN trips = {}
      <3>1. apiQ' = calls /\ ongoing' = ongoing
        BY <1>1, <2>1
      <3> HIDE DEF again, calls
      <3> QED BY <1>5, <3>1 DEF Core
    <2>2. CASE DOMAIN trips # {}
      <3>1. /\ apiQ' = Append(calls, Call("startTrip", 0, need, Msg("resumed", 0, need, 0)))
            /\ ongoing' = Ongoing(need)
        BY <1>1, <2>2
      <3> HIDE DEF again, calls
      <3> QED BY <1>5, <1>6, <1>8, <3>1, OngoingTyped
    <2> QED BY <2>1, <2>2
  <1>10. /\ UNCHANGED <<clientVars, clientData, saved, trips, dropped, astray, sweep, engineVars>>
         /\ msgQ' = Tail(msgQ) \o pending /\ pending' = << >> /\ capsKnown' = TRUE
         /\ batchFull' = (batchFull \/ Reported(saved, trips))
         /\ AtHead("engineUp")
    BY DEF EngineUp
  <1>11. batchFull' \in BOOLEAN
    BY <1>10
  <1>12. Core'
    BY <1>9, <1>10, <1>11 DEF Core
  <1>13. Asked \subseteq Messages \cup Removals
    BY DEF Asked, Messages, Typed
  <1>14. pending \in Queued
    BY <1>13 DEF Rest, Queued
  <1>15. msgQ' \in Queued /\ pending' \in Seq(Asked)
    BY <1>10, <1>14, HeadTyped DEF Queued
  <1>16. sweep = {}
    BY <1>10 DEF AtHead
  <1> QED BY <1>10, <1>12, <1>15, <1>16 DEF Rest, clientVars, engineVars

\* Commands put aside, and the removal of a client.
LEMMA RemovalTyped ==
  ASSUME Core, Rest, SetAside \/ RemoveClient \/ SweepSession \/ Swept
  PROVE  Core' /\ Rest'
  <1>1. CASE SetAside
    <2>1. PICK k \in Commands : Receive(k)
      BY <1>1 DEF SetAside, Commands
    <2>2. SessionMessage(Head(msgQ)) /\ Head(msgQ).k = k /\ Tail(msgQ) \in Queued
      BY <2>1, HeadTyped DEF Receive
    <2>3. Head(msgQ) \in Asked
      BY <2>1, <2>2 DEF SessionMessage, Typed, Asked
    <2>4. /\ pending' = Append(pending, Head(msgQ)) /\ msgQ' = Tail(msgQ)
          /\ UNCHANGED <<apiQ, capsKnown, clientData, adapterVars, clientVars, sweep, engineVars>>
          /\ sweep = {}
      BY <1>1, <2>1 DEF SetAside, Receive, AtHead
    <2>5. pending' \in Seq(Asked)
      BY <2>3, <2>4 DEF Rest
    <2>6. Core'
      BY <2>4 DEF Core, adapterVars
    <2> QED BY <2>2, <2>4, <2>5, <2>6 DEF Rest, clientVars, engineVars, adapterVars
  <1>2. CASE RemoveClient
    <2>1. /\ AtHead("remove") /\ sweep' \subseteq DOMAIN saved \cup {0}
          /\ UNCHANGED <<clientVars, msgQ, pending, apiQ, capsKnown, clientData, adapterVars,
                         engineVars>>
      BY <1>2 DEF RemoveClient
    <2>2. Core'
      BY <2>1 DEF Core, adapterVars
    <2> QED BY <2>1, <2>2 DEF Rest, AtHead, clientVars, adapterVars, engineVars
  <1>3. CASE SweepSession
    <2>1. PICK id \in sweep \ {0} :
            /\ IF saved[id] = "trip" THEN LeaveTrip(id, Routine, FALSE)
                                     ELSE StopPlain(id, Routine, FALSE)
            /\ sweep' = sweep \ {id}
            /\ UNCHANGED <<clientVars, msgQ, pending, capsKnown, clientData, engineVars>>
      BY <1>3 DEF SweepSession
    <2>2. id \in DOMAIN saved /\ id \in Ids
      BY DEF Rest, Core, Partial
    <2>3. Core' /\ (saved' = saved \/ saved' = Without(saved, id))
      <3>1. CASE saved[id] = "trip"
        <4>1. LeaveTrip(id, Routine, FALSE)
          BY <2>1, <3>1
        <4>2. saved' = saved
          BY <4>1 DEF LeaveTrip, StopTrip
        <4> QED BY <2>2, <4>1, <4>2, LeaveTripTyped, RoutineTyped
      <3>2. CASE saved[id] # "trip"
        <4>1. StopPlain(id, Routine, FALSE)
          BY <2>1, <3>2
        <4> QED BY <2>2, <4>1, StopPlainTyped, RoutineTyped
      <3> QED BY <3>1, <3>2
    <2>4. DOMAIN saved \ {id} \subseteq DOMAIN saved'
      BY <2>3, WithoutTyped DEF Core
    <2>5. sweep' \subseteq DOMAIN saved' \cup {0}
      BY <2>1, <2>4 DEF Rest
    <2> QED BY <2>1, <2>3, <2>5 DEF Rest, clientVars, engineVars
  <1>4. CASE Swept
    <2>1. /\ sweep = {0} /\ sweep' = {} /\ msgQ' = Tail(msgQ)
          /\ clientData' = clientData \ {Head(msgQ).client}
          /\ batchFull' = Reported(saved, trips)
          /\ UNCHANGED <<clientVars, pending, apiQ, capsKnown, saved, trips, ongoing, dropped,
                         astray, engineVars>>
      BY <1>4 DEF Swept
    <2>2. msgQ' \in Queued
      BY <2>1 DEF Rest, Queued
    <2>3. batchFull' \in BOOLEAN
      BY <2>1 DEF Reported
    <2>4. Core'
      BY <2>1, <2>3 DEF Core
    <2> QED BY <2>1, <2>2, <2>4 DEF Rest, clientVars, engineVars
  <1> QED BY <1>1, <1>2, <1>3, <1>4

-----------------------------------------------------------------------------
(* Clients, the engine, and the type invariant *)

LEMMA PostTyped ==
  ASSUME Core, Rest, NEW m \in Messages \cup Removals, PostCommand(m)
  PROVE  /\ Core' /\ msgQ' \in Queued /\ msgQ' # << >> /\ commands' \in 0 .. MaxCommands
         /\ UNCHANGED <<pending, capsKnown, clientData, saved, sweep, engineVars>>
  <1>1. /\ commands < MaxCommands /\ commands' = commands + 1 /\ msgQ' = Append(msgQ, m)
        /\ UNCHANGED <<pending, apiQ, capsKnown, clientData, adapterVars, sweep, engineVars>>
    BY DEF PostCommand
  <1>2. msgQ' \in Queued /\ msgQ' # << >>
    BY <1>1 DEF Rest, Queued
  <1>3. commands' \in 0 .. MaxCommands
    BY <1>1, BatchingAssumption DEF Rest
  <1> QED BY <1>1, <1>2, <1>3 DEF Core, adapterVars

LEMMA ClientsTyped ==
  ASSUME Core, Rest, ClientNext
  PROVE  Core' /\ Rest'
  <1>0. Plain \cup Trips \subseteq Options
    BY BatchingAssumption
  <1>1. Asked \subseteq Messages
    BY DEF Asked, Messages, Typed
  <1>2. ASSUME NEW c \in Clients, Destroy(c)
        PROVE  Core' /\ Rest'
    <2>1. Remove(c) \in Removals
      BY DEF Remove, Removals
    <2> QED BY <1>2, <2>1, PostTyped DEF Destroy, Rest, engineVars
  <1>3. ASSUME NEW c \in Clients, NEW o \in Plain \cup Trips, StartBatchingCommand(c, o)
        PROVE  Core' /\ Rest'
    <2> DEFINE id == Cardinality(DOMAIN owner) + 1
    <2>1. /\ id \in Ids /\ owner' = With(owner, id, c) /\ live' = live
          /\ PostCommand(Msg("start", id, o, 0))
      BY <1>3 DEF StartBatchingCommand
    <2> HIDE DEF id
    <2>2. Msg("start", id, o, 0) \in Messages
      BY <1>0, <1>1, <2>1, MsgTyped, RoutineTyped DEF Commands
    <2>3. Partial(owner', Clients)
      BY <2>1, WithTyped DEF Rest
    <2> QED BY <2>1, <2>2, <2>3, PostTyped DEF Rest, engineVars
  <1>4. ASSUME NEW id \in DOMAIN owner,
               StopBatchingCommand(id) \/ \E o \in Plain \cup Trips : UpdateBatchingOptionsCommand(id, o)
        PROVE  Core' /\ Rest'
    <2>1. id \in Ids
      BY DEF Rest, Partial
    <2>2. UNCHANGED <<live, owner>>
      BY <1>4 DEF StopBatchingCommand, UpdateBatchingOptionsCommand
    <2>3. PICK m \in Messages : PostCommand(m)
      <3>1. Msg("stop", id, Routine, 0) \in Messages
        BY <1>1, <2>1, MsgTyped, RoutineTyped DEF Commands
      <3>2. \A o \in Plain \cup Trips : Msg("update", id, o, 0) \in Messages
        BY <1>0, <1>1, <2>1, MsgTyped, RoutineTyped DEF Commands
      <3> QED BY <1>4, <3>1, <3>2 DEF StopBatchingCommand, UpdateBatchingOptionsCommand
    <2> QED BY <2>2, <2>3, PostTyped DEF Rest, engineVars
  <1> QED BY <1>2, <1>3, <1>4 DEF ClientNext

LEMMA ServeTyped ==
  ASSUME Core, Rest, NEW ok \in BOOLEAN, NEW acc \in Distances,
         Serve(Answer(Head(apiQ).reply, ok, acc))
  PROVE  /\ Core' /\ Head(apiQ) \in Calls
         /\ msgQ' \in Queued /\ (sweep # {} => msgQ' # << >>)
         /\ UNCHANGED <<clientVars, pending, capsKnown, clientData, saved, sweep, link, resets>>
  <1> DEFINE answer == Answer(Head(apiQ).reply, ok, acc)
  <1>1. /\ apiQ # << >> /\ apiQ' = Tail(apiQ)
        /\ msgQ' = IF answer.k = "ignore" THEN msgQ ELSE Append(msgQ, answer)
        /\ UNCHANGED <<clientVars, pending, capsKnown, clientData, adapterVars, sweep, link, resets>>
    BY DEF Serve
  <1>2. Head(apiQ) \in Calls /\ apiQ' \in Seq(Calls)
    BY <1>1 DEF Core
  <1>3. Head(apiQ).reply \in Replies
    BY <1>2 DEF Calls
  <1>4. answer \in Messages
    BY <1>3, AnswerTyped
  <1> HIDE DEF answer
  <1>5. msgQ' \in Queued /\ (sweep # {} => msgQ' # << >>)
    <2>1. Append(msgQ, answer) \in Queued /\ Append(msgQ, answer) # << >>
      BY <1>4 DEF Rest, Queued
    <2> QED BY <1>1, <2>1 DEF Rest
  <1> QED BY <1>1, <1>2, <1>5 DEF Core, adapterVars

LEMMA EngineTyped ==
  ASSUME Core, Rest, EngineNext
  PROVE  Core' /\ Rest'
  <1> DEFINE c == Head(apiQ)
  <1>0. trip.acc \in Distances /\ trip.distance \in Distances /\ 0 \in Distances
    BY RoutineTyped DEF Rest
  <1>1. CASE Accept
    <2>1. /\ Serve(Answer(c.reply, TRUE, trip.acc))
          /\ UNCHANGED <<refusals, unserved>>
      BY <1>1 DEF Accept
    <2>2. /\ Core' /\ c \in Calls
          /\ msgQ' \in Queued /\ (sweep # {} => msgQ' # << >>)
          /\ UNCHANGED <<clientVars, pending, capsKnown, clientData, saved, sweep, link, resets>>
      BY <1>0, <2>1, ServeTyped
    <2>3. \/ plain' = plain
          \/ c.op = "start" /\ plain' = With(plain, c.id, c.opts.mode)
          \/ plain' = Without(plain, c.id)
      BY <1>1 DEF Accept
    <2>4. \/ trip' = trip \/ trip' = NoBatch
          \/ trip' = [on |-> TRUE, distance |-> c.opts.distance, tbf |-> c.opts.tbf, acc |-> 0]
      BY <1>1 DEF Accept
    <2> HIDE DEF c
    <2>5. c.opts \in Options /\ (c.op = "start" => c.id \in Ids)
      BY <2>2 DEF Calls
    <2>6. c.opts.mode \in Modes /\ c.opts.distance \in Distances /\ c.opts.tbf \in Distances
      BY <2>5 DEF Options
    <2>7. Partial(plain', Modes)
      <3>1. Partial(plain, Modes) /\ Partial(Without(plain, c.id), Modes)
        BY WithoutTyped DEF Rest
      <3>2. CASE c.op = "start" /\ plain' = With(plain, c.id, c.opts.mode)
        BY <2>5, <2>6, <3>1, <3>2, WithTyped
      <3> QED BY <2>3, <3>1, <3>2
    <2>8. trip' \in [on : BOOLEAN, distance : Distances, tbf : Distances, acc : Distances]
      <3>1. NoBatch \in [on : BOOLEAN, distance : Distances, tbf : Distances, acc : Distances]
        BY <1>0 DEF NoBatch
      <3>2. [on |-> TRUE, distance |-> c.opts.distance, tbf |-> c.opts.tbf, acc |-> 0]
              \in [on : BOOLEAN, distance : Distances, tbf : Distances, acc : Distances]
        BY <1>0, <2>6
      <3> QED BY <2>4, <3>1, <3>2 DEF Rest
    <2> QED BY <2>1, <2>2, <2>7, <2>8 DEF Rest, clientVars
  <1>2. CASE Refuse
    <2>1. PICK acc \in {0, trip.distance} : Serve(Answer(c.reply, FALSE, acc))
      BY <1>2 DEF Refuse
    <2>2. /\ Core' /\ msgQ' \in Queued /\ (sweep # {} => msgQ' # << >>)
          /\ UNCHANGED <<clientVars, pending, capsKnown, clientData, saved, sweep, link, resets>>
      BY <1>0, <2>1, ServeTyped
    <2>3. /\ UNCHANGED refusals \/ (refusals < MaxRefusals /\ refusals' = refusals + 1)
          /\ UNCHANGED <<plain, trip>>
      BY <1>2 DEF Refuse
    <2>4. unserved' \in BOOLEAN
      BY <1>2 DEF Refuse
    <2>5. refusals' \in 0 .. MaxRefusals
      BY <2>3, BatchingAssumption DEF Rest
    <2> QED BY <2>2, <2>3, <2>4, <2>5 DEF Rest, clientVars
  <1>3. CASE Travel
    <2>1. /\ trip.acc < trip.distance /\ trip' = [trip EXCEPT !.acc = @ + 1]
          /\ msgQ' = IF trip.acc + 1 = trip.distance
                     THEN Append(msgQ, Msg("completed", 0, Routine, trip.distance)) ELSE msgQ
          /\ UNCHANGED <<clientVars, pending, apiQ, capsKnown, clientData, adapterVars, sweep, link,
                         plain, refusals, resets, unserved>>
      BY <1>3 DEF Travel
    <2>2. trip.acc + 1 \in Distances
      BY <1>0, <2>1, BatchingAssumption DEF Distances
    <2>3. Msg("completed", 0, Routine, trip.distance) \in Messages
      BY <1>0, MsgTyped, RoutineTyped
    <2>4. trip' \in [on : BOOLEAN, distance : Distances, tbf : Distances, acc : Distances]
      BY <2>1, <2>2 DEF Rest
    <2>5. msgQ' \in Queued /\ (sweep # {} => msgQ' # << >>)
      <3>1. /\ Append(msgQ, Msg("completed", 0, Routine, trip.distance)) \in Queued
            /\ Append(msgQ, Msg("completed", 0, Routine, trip.distance)) # << >>
        BY <2>3 DEF Rest, Queued
      <3> QED BY <2>1, <3>1 DEF Rest
    <2>6. Core'
      BY <2>1 DEF Core, adapterVars
    <2> QED BY <2>1, <2>4, <2>5, <2>6 DEF Rest, clientVars, adapterVars
  <1>4. CASE EngineDown
    <2>1. /\ link' = FALSE /\ plain' = << >> /\ trip' = NoBatch /\ resets' = resets + 1
          /\ resets < MaxResets
          /\ UNCHANGED <<clientVars, msgQ, pending, apiQ, capsKnown, clientData, adapterVars, sweep,
                         refusals, unserved>>
      BY <1>4 DEF EngineDown
    <2>2. Partial(plain', Modes)
      BY <2>1 DEF Partial
    <2>3. trip' \in [on : BOOLEAN, distance : Distances, tbf : Distances, acc : Distances]
      BY <1>0, <2>1 DEF NoBatch
    <2>4. resets' \in 0 .. MaxResets
      BY <2>1, BatchingAssumption DEF Rest
    <2>5. Core'
      BY <2>1 DEF Core, adapterVars
    <2> QED BY <2>1, <2>2, <2>3, <2>4, <2>5 DEF Rest, clientVars, adapterVars
  <1>5. CASE OpenLink
    <2>1. /\ link' = TRUE /\ msgQ' = Append(msgQ, Msg("engineUp", 0, Routine, 0))
          /\ UNCHANGED <<clientVars, pending, apiQ, capsKnown, clientData, adapterVars, sweep, plain,
                         trip, refusals, resets, unserved>>
      BY <1>5 DEF OpenLink
    <2>2. Msg("engineUp", 0, Routine, 0) \in Messages
      BY MsgTyped, RoutineTyped
    <2>3. msgQ' \in Queued /\ msgQ' # << >>
      BY <2>1, <2>2 DEF Rest, Queued
    <2>4. Core'
      BY <2>1 DEF Core, adapterVars
    <2> QED BY <2>1, <2>3, <2>4 DEF Rest, clientVars, adapterVars
  <1> QED BY <1>1, <1>2, <1>3, <1>4, <1>5 DEF EngineNext

LEMMA InitTyped ==
  ASSUME Init
  PROVE  TypeOK
  <1>1. \A S : Partial(<< >>, S)
    BY DEF Partial
  <1>2. 0 \in 0 .. MaxCommands /\ 0 \in 0 .. MaxRefusals /\ 0 \in 0 .. MaxResets
    BY BatchingAssumption
  <1>3. Core
    <2>1. Partial(saved, Modes) /\ Partial(trips, TripRecords)
      BY <1>1 DEF Init
    <2>2. ongoing \in Pairs(Distances) /\ dropped \in Pairs(BOOLEAN)
      BY RoutineTyped DEF Init, NoTrip, Pairs
    <2>3. apiQ \in Seq(Calls)
      BY DEF Init
    <2>4. batchFull \in BOOLEAN /\ astray \in BOOLEAN
      BY DEF Init
    <2> QED BY <2>1, <2>2, <2>3, <2>4 DEF Core
  <1>4. Rest
    <2>1. Partial(owner, Clients) /\ Partial(plain, Modes)
      BY <1>1 DEF Init
    <2>2. trip \in [on : BOOLEAN, distance : Distances, tbf : Distances, acc : Distances]
      BY RoutineTyped DEF Init, NoBatch
    <2>3. msgQ \in Queued /\ pending \in Seq(Asked)
      BY DEF Init, Queued
    <2>4. /\ live \subseteq Clients /\ clientData \subseteq Clients
          /\ sweep = {} /\ {capsKnown, link, unserved} \subseteq BOOLEAN
          /\ commands = 0 /\ refusals = 0 /\ resets = 0
      BY DEF Init
    <2> QED BY <1>2, <2>1, <2>2, <2>3, <2>4 DEF Rest
  <1> QED BY <1>3, <1>4, Parts

LEMMA StepTyped ==
  ASSUME TypeOK, [Next]_vars
  PROVE  TypeOK'
  <1>0. Core /\ Rest
    BY Parts
  <1>1. CASE ClientNext
    BY <1>0, <1>1, ClientsTyped, PartsPrimed
  <1>2. CASE AdapterNext
    <2>1. Core' /\ Rest'
      BY <1>0, <1>2, RemovalTyped, CommandsTyped, StartAnswersTyped, JoinsTyped, TripAnswersTyped,
         PlansTyped, EngineUpTyped DEF AdapterNext
    <2> QED BY <2>1, PartsPrimed
  <1>3. CASE EngineNext
    BY <1>0, <1>3, EngineTyped, PartsPrimed
  <1>4. CASE UNCHANGED vars
    <2>1. Core' /\ Rest'
      BY <1>0, <1>4 DEF vars, clientVars, adapterVars, engineVars, Core, Rest
    <2> QED BY <2>1, PartsPrimed
  <1> QED BY <1>1, <1>2, <1>3, <1>4 DEF Next

\* Every session id, message and call the batching adapter handles is well
\* formed, and the distances of its trips stay in the width of an unsigned
\* number, for any clients and options.
THEOREM TypeCorrect == Spec => []TypeOK
  <1>1. Init => TypeOK
    BY InitTyped
  <1>2. TypeOK /\ [Next]_vars => TypeOK'
    BY StepTyped
  <1> QED BY <1>1, <1>2, PTL DEF Spec

-----------------------------------------------------------------------------
(* The registration for the batch full event *)

\* s and t would be reported to only if b.
Full(s, t, b) == Reported(s, t) => b

LEMMA ReportedTypes == \A s, t : Reported(s, t) \in BOOLEAN
  BY DEF Reported

\* Sessions that go take reports away, and only one that reports brings some.
LEMMA Fewer ==
  ASSUME NEW s, NEW t, NEW u, DOMAIN u \subseteq DOMAIN t, NEW id
  PROVE  /\ Reported(s, u) => Reported(s, t)
         /\ Reported(Without(s, id), u) => Reported(s, t)
  <1>1. AutoReports(Without(s, id)) \subseteq AutoReports(s)
    BY DEF AutoReports, Without, Restrict
  <1> QED BY <1>1 DEF Reported

LEMMA More ==
  ASSUME NEW s, NEW t, NEW id
  PROVE  Reported(With(s, id, "noReport"), t) => Reported(s, t)
  <1>1. AutoReports(With(s, id, "noReport")) \subseteq AutoReports(s)
    BY DEF AutoReports, With
  <1> QED BY <1>1 DEF Reported

LEMMA StartFull ==
  ASSUME NEW s, NEW t, NEW b \in BOOLEAN, NEW q, NEW id, NEW o,
         Full(s, t, b), Start(s, t, b, q, id, o)
  PROVE  Full(saved', trips', batchFull')
  <1>1. CASE o.mode = "noReport"
    <2>1. saved' = With(s, id, "noReport") /\ trips' = t /\ batchFull' = b
      BY <1>1 DEF Start, StartPlain
    <2> QED BY <2>1, More DEF Full
  <1>2. CASE o.mode \notin {"noReport", "trip"}
    <2>1. batchFull' = (b \/ ~ Reported(s, t))
      BY <1>2 DEF Start, StartPlain
    <2> QED BY <2>1 DEF Full
  <1>3. CASE o.mode = "trip" /\ DOMAIN t = {}
    <2>1. batchFull' = (b \/ ~ Reported(s, t))
      BY <1>3 DEF Start, StartTrip
    <2> QED BY <2>1 DEF Full
  <1>4. CASE o.mode = "trip" /\ DOMAIN t # {}
    <2>1. saved' = s /\ trips' = t /\ batchFull' = b
      BY <1>4 DEF Start, StartTrip
    <2> QED BY <2>1 DEF Full
  <1> QED BY <1>1, <1>2, <1>3, <1>4

LEMMA StopTripFull ==
  ASSUME NEW id, NEW next, NEW again \in BOOLEAN, NEW b \in BOOLEAN,
         StopTrip(id, next, again, b), Full(saved, Without(trips, id), b)
  PROVE  Full(saved', trips', batchFull')
  <1> DEFINE left  == Without(trips, id)
             calls == IF DOMAIN left = {} THEN apiQ ELSE Append(apiQ, AskAgain(left, Query))
  <1>1. CASE again
    <2>1. Start(Without(saved, id), left, b, calls, id, next)
      BY <1>1 DEF StopTrip
    <2>2. Full(Without(saved, id), left, b)
      BY Fewer DEF Full
    <2> HIDE DEF left, calls
    <2> QED BY <2>1, <2>2, StartFull
  <1>2. CASE ~ again
    <2>1. saved' = saved /\ trips' = left /\ batchFull' = b
      BY <1>2 DEF StopTrip
    <2> QED BY <2>1
  <1> QED BY <1>1, <1>2

LEMMA WithoutDomain ==
  ASSUME NEW t, NEW id
  PROVE  DOMAIN Without(t, id) \subseteq DOMAIN t
  BY DEF Without, Restrict

LEMMA LeaveTripFull ==
  ASSUME Core, Full(saved, trips, batchFull), NEW id, NEW next, NEW again \in BOOLEAN,
         LeaveTrip(id, next, again)
  PROVE  Full(saved', trips', batchFull')
  <1>1. CASE Cardinality(DOMAIN trips) = 1
    BY <1>1 DEF LeaveTrip, Full
  <1>2. CASE Cardinality(DOMAIN trips) # 1
    <2>1. StopTrip(id, next, again, batchFull)
      BY <1>2 DEF LeaveTrip
    <2>2. Full(saved, Without(trips, id), batchFull)
      BY Fewer, WithoutDomain DEF Full
    <2> QED BY <2>1, <2>2, StopTripFull DEF Core
  <1> QED BY <1>1, <1>2

LEMMA StopPlainFull ==
  ASSUME Full(saved, trips, batchFull), NEW id, NEW next, NEW again, StopPlain(id, next, again)
  PROVE  Full(saved', trips', batchFull')
  BY Fewer DEF StopPlain, Full

LEMMA LeaveFull ==
  ASSUME Core, Full(saved, trips, batchFull), NEW id, NEW next, NEW again \in BOOLEAN,
         Leave(id, next, again)
  PROVE  Full(saved', trips', batchFull')
  <1>1. CASE id \notin DOMAIN saved
    BY <1>1 DEF Leave, adapterVars, Full
  <1>2. CASE id \in DOMAIN saved \cap DOMAIN trips
    BY <1>2, LeaveTripFull DEF Leave
  <1>3. CASE id \in DOMAIN saved /\ id \notin DOMAIN trips
    <2>1. StopPlain(id, next, again)
      BY <1>3 DEF Leave
    <2> QED BY <2>1, StopPlainFull
  <1> QED BY <1>1, <1>2, <1>3

\* The last trip: when it is the only report, none is left without it.
LEMMA OneReportLast ==
  ASSUME Core, NEW id \in DOMAIN trips, OneReport(saved, trips)
  PROVE  ~ Reported(saved, Without(trips, id))
  <1> DEFINE A == AutoReports(saved)
             D == DOMAIN trips
  <1>1. IsFiniteSet(D) /\ IsFiniteSet(DOMAIN saved)
    BY PartialFinite DEF Core
  <1>2. A \subseteq DOMAIN saved
    BY DEF AutoReports
  <1>3. IsFiniteSet(A)
    BY <1>1, <1>2, FS_Subset
  <1>4. Cardinality(A) + Cardinality(D) = 1
    BY DEF OneReport
  <1> HIDE DEF A, D
  <1>5. Cardinality(A) \in Nat /\ Cardinality(D) \in Nat
    BY <1>1, <1>3, FS_CardinalityType
  <1>6. id \in D
    BY DEF D
  <1>7. Cardinality(D) # 0
    BY <1>1, <1>6, FS_EmptySet
  <1>8. Cardinality(A) = 0 /\ Cardinality(D) = 1
    BY <1>4, <1>5, <1>7
  <1>9. A = {}
    BY <1>3, <1>8, FS_EmptySet
  <1>10. PICK x : D = {x}
    BY <1>1, <1>8, FS_Singleton
  <1>11. DOMAIN Without(trips, id) = D \ {id}
    BY DEF Without, Restrict, D
  <1> QED BY <1>6, <1>9, <1>10, <1>11 DEF Reported, A

-----------------------------------------------------------------------------
(* The inductive invariant *)

\* An answer that refuses a stop is waiting only when the run has left what the
\* adapter makes up for: such an answer saves the session again, without the
\* registration.
RefusedStop(m) == m.k = "stopped" /\ ~ m.ok
RefusedStops   == \A n \in DOMAIN msgQ : RefusedStop(msgQ[n]) => unserved
IInv == TypeOK /\ BatchFullRegistered /\ RefusedStops

LEMMA TailStops ==
  ASSUME RefusedStops, msgQ # << >>, msgQ \in Queued, msgQ' = Tail(msgQ), unserved' = unserved
  PROVE  RefusedStops'
  <1>1. Len(msgQ) \in Nat \ {0} /\ DOMAIN msgQ = 1 .. Len(msgQ)
    BY DEF Queued
  <1>2. DOMAIN Tail(msgQ) = 1 .. Len(msgQ) - 1 /\ \A n \in DOMAIN Tail(msgQ) : Tail(msgQ)[n] = msgQ[n + 1]
    BY DEF Queued
  <1>3. \A n \in DOMAIN Tail(msgQ) : n + 1 \in DOMAIN msgQ
    BY <1>1, <1>2
  <1>4. ASSUME NEW n \in DOMAIN msgQ', RefusedStop(msgQ'[n])
        PROVE  unserved
    BY <1>2, <1>3, <1>4 DEF RefusedStops
  <1> QED BY <1>4 DEF RefusedStops

LEMMA AppendStops ==
  ASSUME RefusedStops, msgQ \in Queued, NEW m, msgQ' = Append(msgQ, m),
         RefusedStop(m) => unserved', unserved => unserved'
  PROVE  RefusedStops'
  <1>1. /\ DOMAIN Append(msgQ, m) = DOMAIN msgQ \cup {Len(msgQ) + 1}
        /\ \A n \in DOMAIN msgQ : Append(msgQ, m)[n] = msgQ[n]
        /\ Append(msgQ, m)[Len(msgQ) + 1] = m
    BY DEF Queued
  <1>2. ASSUME NEW n \in DOMAIN msgQ', RefusedStop(msgQ'[n])
        PROVE  unserved'
    BY <1>1, <1>2 DEF RefusedStops
  <1> QED BY <1>2 DEF RefusedStops

LEMMA SameStops ==
  ASSUME RefusedStops, msgQ' = msgQ, unserved => unserved'
  PROVE  RefusedStops'
  BY DEF RefusedStops, RefusedStop

\* The adapter takes a message and changes nothing of the engine.
LEMMA ReceiveStops ==
  ASSUME Rest, RefusedStops, NEW k, Receive(k)
  PROVE  RefusedStops' /\ unserved' = unserved
  <1>1. msgQ # << >> /\ msgQ \in Queued /\ msgQ' = Tail(msgQ) /\ unserved' = unserved
    BY DEF Receive, AtHead, Rest, engineVars
  <1> QED BY <1>1, TailStops

LEMMA UpStops ==
  ASSUME Core, Rest, RefusedStops, EngineUp
  PROVE  RefusedStops'
  <1>1. /\ msgQ # << >> /\ msgQ \in Queued /\ Tail(msgQ) \in Queued /\ pending \in Queued
        /\ msgQ' = Tail(msgQ) \o pending /\ unserved' = unserved
    <2>1. Asked \subseteq Messages \cup Removals
      BY DEF Asked, Messages, Typed
    <2> QED BY <2>1, HeadTyped DEF EngineUp, AtHead, Rest, Queued, engineVars
  <1>2. \A n \in 1 .. Len(Tail(msgQ)) : n + 1 \in DOMAIN msgQ /\ (Tail(msgQ) \o pending)[n] = msgQ[n + 1]
    BY <1>1 DEF Queued
  <1>3. \A n \in 1 .. Len(Tail(msgQ) \o pending) :
          \/ n \in 1 .. Len(Tail(msgQ))
          \/ \E j \in DOMAIN pending : (Tail(msgQ) \o pending)[n] = pending[j]
    <2> SUFFICES ASSUME NEW n \in 1 .. Len(Tail(msgQ) \o pending), n \notin 1 .. Len(Tail(msgQ))
                 PROVE  \E j \in DOMAIN pending : (Tail(msgQ) \o pending)[n] = pending[j]
      OBVIOUS
    <2> DEFINE j == n - Len(Tail(msgQ))
    <2>1. j \in DOMAIN pending /\ (Tail(msgQ) \o pending)[n] = pending[j]
      BY <1>1 DEF Queued
    <2> QED BY <2>1
  <1>4. \A j \in DOMAIN pending : ~ RefusedStop(pending[j])
    <2>1. \A j \in DOMAIN pending : pending[j] \in Asked
      BY DEF Rest
    <2> QED BY <2>1 DEF Asked, Typed, Commands, RefusedStop
  <1>5. DOMAIN msgQ' = 1 .. Len(Tail(msgQ) \o pending)
    BY <1>1 DEF Queued
  <1>6. ASSUME NEW n \in DOMAIN msgQ', RefusedStop(msgQ'[n])
        PROVE  unserved
    BY <1>1, <1>2, <1>3, <1>4, <1>5, <1>6 DEF RefusedStops
  <1> QED BY <1>1, <1>6 DEF RefusedStops

LEMMA InitFull ==
  ASSUME Init
  PROVE  IInv
  <1>1. BatchFullRegistered
    BY DEF Init, BatchFullRegistered, Reported, AutoReports
  <1>2. RefusedStops
    BY DEF Init, RefusedStops
  <1> QED BY <1>1, <1>2, InitTyped DEF IInv

\* What has gone wrong stays so.
LEMMA AstrayStays ==
  ASSUME AdapterNext
  PROVE  (astray => astray') /\ unserved' = unserved
  <1>1. ASSUME NEW id, NEW next, NEW again, NEW b, StopTrip(id, next, again, b)
        PROVE  astray => astray'
    BY <1>1 DEF StopTrip
  <1>2. ASSUME NEW id, NEW next, NEW again, LeaveTrip(id, next, again)
        PROVE  astray => astray'
    BY <1>1, <1>2 DEF LeaveTrip
  <1>3. ASSUME NEW id, NEW next, NEW again, StopPlain(id, next, again)
        PROVE  astray' = astray
    BY <1>3 DEF StopPlain
  <1>4. ASSUME NEW id, NEW next, NEW again, Leave(id, next, again)
        PROVE  astray => astray'
    BY <1>2, <1>3, <1>4 DEF Leave, adapterVars
  <1>5. CASE SetAside \/ StartBatching \/ RemoveClient \/ Swept
    BY <1>5 DEF SetAside, StartBatching, RemoveClient, Swept, Command, Receive, adapterVars,
         engineVars
  <1>6. CASE UpdateBatchingOptions \/ StopBatching
    BY <1>4, <1>6 DEF UpdateBatchingOptions, StopBatching, Command, Receive, engineVars
  <1>7. CASE SweepSession
    BY <1>2, <1>3, <1>7 DEF SweepSession, engineVars
  <1>8. CASE Started \/ Stopped \/ TripStarted \/ Joins
    <2>1. CASE Started
      BY <2>1 DEF Started, Reply, Receive, engineVars
    <2>2. CASE Stopped
      BY <2>2 DEF Stopped, Reply, Receive, engineVars
    <2>3. CASE TripStarted
      <3>1. ASSUME astray
            PROVE  astray'
        <4>1. CASE Head(msgQ).ok
          BY <2>3, <3>1, <4>1 DEF TripStarted
        <4>2. CASE ~ Head(msgQ).ok
          BY <2>3, <3>1, <4>2 DEF TripStarted
        <4> QED BY <4>1, <4>2
      <3>2. unserved' = unserved
        BY <2>3 DEF TripStarted, Reply, Receive, engineVars
      <3> QED BY <3>1, <3>2
    <2>4. CASE Joins
      <3>1. astray => astray'
        BY <2>4 DEF Joins
      <3> QED BY <2>4, <3>1 DEF Joins, Reply, Receive, engineVars
    <2> QED BY <1>8, <2>1, <2>2, <2>3, <2>4
  <1>9. CASE TripStopped
    BY <1>1, <1>9 DEF TripStopped, Reply, Receive, engineVars
  <1>10. CASE CompletedTrips \/ Replan \/ Replanned \/ Resumed
    <2>1. astray' = astray
      BY <1>10 DEF CompletedTrips, Replan, Replanned, Resumed, adapterVars
    <2>2. unserved' = unserved
      BY <1>10 DEF CompletedTrips, Replan, Replanned, Resumed, Reply, Receive, engineVars
    <2> QED BY <2>1, <2>2
  <1>11. CASE EngineUp
    BY <1>11 DEF EngineUp, engineVars
  <1> QED BY <1>5, <1>6, <1>7, <1>8, <1>9, <1>10, <1>11 DEF AdapterNext

LEMMA CommandsFull ==
  ASSUME Core, Rest, Full(saved, trips, batchFull),
         \/ SetAside \/ StartBatching \/ UpdateBatchingOptions \/ StopBatching
         \/ RemoveClient \/ SweepSession \/ Swept
  PROVE  Full(saved', trips', batchFull')
  <1> DEFINE m == Head(msgQ)
  <1>1. CASE SetAside \/ RemoveClient
    BY <1>1 DEF SetAside, RemoveClient, adapterVars, Full
  <1>2. CASE StartBatching
    <2>1. \/ Start(saved, trips, batchFull, apiQ, m.id, m.opts)
          \/ UNCHANGED adapterVars
      BY <1>2 DEF StartBatching
    <2> HIDE DEF m
    <2>2. CASE Start(saved, trips, batchFull, apiQ, m.id, m.opts)
      BY <2>2, StartFull DEF Core
    <2>3. CASE UNCHANGED adapterVars
      BY <2>3 DEF adapterVars, Full
    <2> QED BY <2>1, <2>2, <2>3
  <1>3. CASE UpdateBatchingOptions \/ StopBatching
    <2>1. \E next : \E again \in BOOLEAN : Leave(m.id, next, again)
      BY <1>3 DEF UpdateBatchingOptions, StopBatching
    <2> QED BY <2>1, LeaveFull
  <1>4. CASE SweepSession
    <2>1. \E id : LeaveTrip(id, Routine, FALSE) \/ StopPlain(id, Routine, FALSE)
      BY <1>4 DEF SweepSession
    <2> QED BY <2>1, LeaveTripFull, StopPlainFull
  <1>5. CASE Swept
    BY <1>5 DEF Swept, Full
  <1> QED BY <1>1, <1>2, <1>3, <1>4, <1>5

LEMMA SessionAnswersFull ==
  ASSUME Core, Rest, RefusedStops, ~ unserved, ~ astray', Full(saved, trips, batchFull),
         Started \/ Stopped \/ TripStarted \/ Joins \/ TripStopped
  PROVE  Full(saved', trips', batchFull')
  <1> DEFINE m == Head(msgQ)
  <1>1. CASE Started
    <2>1. /\ saved' = IF m.ok THEN saved ELSE Without(saved, m.id)
          /\ batchFull' = (batchFull /\ (m.ok \/ m.opts.mode = "noReport" \/ Reported(saved', trips)))
          /\ trips' = trips
      BY <1>1 DEF Started
    <2>2. Reported(saved', trips) => Reported(saved, trips)
      BY <2>1, Fewer
    <2> HIDE DEF m
    <2> QED BY <2>1, <2>2 DEF Full
  <1>2. CASE Stopped
    <2> DEFINE b == batchFull /\ (m.was = "noReport" \/ Reported(saved, trips))
    <2>1. m.ok
      <3>1. AtHead("stopped")
        BY <1>2 DEF Stopped, Reply, Receive
      <3>2. m.k = "stopped" /\ 1 \in DOMAIN msgQ /\ m = msgQ[1]
        BY <3>1 DEF AtHead, Rest, Queued
      <3> QED BY <3>2 DEF RefusedStops, RefusedStop
    <2>2. Full(saved, trips, b) /\ b \in BOOLEAN
      BY DEF Full
    <2>3. CASE m.again
      <3>1. Start(saved, trips, b, apiQ, m.id, m.opts)
        BY <1>2, <2>1, <2>3 DEF Stopped
      <3> HIDE DEF b, m
      <3> QED BY <2>2, <3>1, StartFull
    <2>4. CASE ~ m.again
      <3>1. batchFull' = b /\ saved' = saved /\ trips' = trips
        BY <1>2, <2>1, <2>4 DEF Stopped
      <3> HIDE DEF b, m
      <3> QED BY <2>2, <3>1
    <2> QED BY <2>3, <2>4
  <1>3. CASE TripStarted
    <2>1. CASE m.ok
      BY <1>3, <2>1 DEF TripStarted, Full
    <2>2. CASE ~ m.ok
      <3>1. /\ saved' = Without(saved, m.id) /\ trips' = Without(trips, m.id)
            /\ batchFull' = (batchFull /\ Reported(saved', trips'))
        BY <1>3, <2>2 DEF TripStarted
      <3> HIDE DEF m
      <3>2. Reported(saved', trips') => Reported(saved, trips)
        BY <3>1, Fewer, WithoutDomain
      <3> QED BY <3>1, <3>2 DEF Full
    <2> QED BY <2>1, <2>2
  <1>4. CASE Joins
    <2>1. DOMAIN trips # {} /\ batchFull' = batchFull
      BY <1>4 DEF Joins
    <2> QED BY <2>1 DEF Full, Reported
  <1>5. CASE TripStopped
    <2> DEFINE b == batchFull /\ ~ (m.ok /\ OneReport(saved, trips))
    <2>1. StopTrip(m.id, m.opts, m.again, b)
      BY <1>5 DEF TripStopped
    <2>2. m.id \in DOMAIN trips
      BY <2>1 DEF StopTrip
    <2>3. m.again \in BOOLEAN
      BY <1>5, HeadTyped, SessionFields DEF TripStopped, Reply, Receive, SessionAnswers
    <2>4. Full(saved, Without(trips, m.id), b)
      <3>1. Reported(saved, Without(trips, m.id)) => Reported(saved, trips)
        BY Fewer, WithoutDomain
      <3>2. OneReport(saved, trips) => ~ Reported(saved, Without(trips, m.id))
        BY <2>2, OneReportLast
      <3> QED BY <3>1, <3>2 DEF Full
    <2>5. b \in BOOLEAN
      OBVIOUS
    <2> HIDE DEF b, m
    <2> QED BY <2>1, <2>3, <2>4, <2>5, StopTripFull
  <1> QED BY <1>1, <1>2, <1>3, <1>4, <1>5

LEMMA BatchAnswersFull ==
  ASSUME Core, Rest, Full(saved, trips, batchFull),
         CompletedTrips \/ Replan \/ Replanned \/ EngineUp \/ Resumed
  PROVE  Full(saved', trips', batchFull')
  <1> DEFINE m == Head(msgQ)
  <1>1. CASE CompletedTrips
    <2> DEFINE moved == Moved(trips, m.acc)
               left  == Restrict(moved, DOMAIN trips \ Completed(moved))
    <2>1. saved' = saved /\ trips' = left
      BY <1>1 DEF CompletedTrips
    <2>2. batchFull' = batchFull \/ batchFull' = (batchFull /\ Reported(saved, left))
      BY <1>1 DEF CompletedTrips
    <2>3. DOMAIN left \subseteq DOMAIN trips
      BY DEF Restrict, Moved
    <2>4. Reported(saved, left) => Reported(saved, trips)
      BY <2>3, Fewer
    <2> HIDE DEF left
    <2> QED BY <2>1, <2>2, <2>4 DEF Full
  <1>2. CASE Replan \/ Resumed
    BY <1>2 DEF Replan, Resumed, adapterVars, Full
  <1>3. CASE Replanned
    <2>1. saved' = saved /\ batchFull' = batchFull /\ DOMAIN trips' \subseteq DOMAIN trips
      BY <1>3 DEF Replanned
    <2>2. Reported(saved, trips') => Reported(saved, trips)
      BY <2>1, Fewer
    <2> QED BY <2>1, <2>2 DEF Full
  <1>4. CASE EngineUp
    <2>1. saved' = saved /\ trips' = trips /\ batchFull' = (batchFull \/ Reported(saved, trips))
      BY <1>4 DEF EngineUp
    <2> QED BY <2>1 DEF Full
  <1> QED BY <1>1, <1>2, <1>3, <1>4

LEMMA AdapterStops ==
  ASSUME Core, Rest, RefusedStops, AdapterNext
  PROVE  RefusedStops'
  <1>1. CASE RemoveClient \/ SweepSession
    <2>1. msgQ' = msgQ /\ unserved' = unserved
      BY <1>1 DEF RemoveClient, SweepSession, engineVars
    <2> QED BY <2>1, SameStops
  <1>2. CASE Swept
    <2>1. msgQ # << >> /\ msgQ \in Queued /\ msgQ' = Tail(msgQ) /\ unserved' = unserved
      BY <1>2 DEF Swept, Rest, engineVars
    <2> QED BY <2>1, TailStops
  <1>3. CASE EngineUp
    BY <1>3, UpStops
  <1>4. CASE ~ (RemoveClient \/ SweepSession \/ Swept \/ EngineUp)
    <2>1. CASE SetAside \/ StartBatching \/ UpdateBatchingOptions \/ StopBatching
      <3>1. \E k : Receive(k)
        BY <2>1 DEF SetAside, StartBatching, UpdateBatchingOptions, StopBatching, Command
      <3> QED BY <3>1, ReceiveStops
    <2>2. CASE Started \/ Stopped \/ TripStarted \/ Joins \/ TripStopped
      <3>1. \E k : Receive(k)
        BY <2>2 DEF Started, Stopped, TripStarted, Joins, TripStopped, Reply
      <3> QED BY <3>1, ReceiveStops
    <2>3. CASE CompletedTrips \/ Replan \/ Replanned \/ Resumed
      <3>1. \E k : Receive(k)
        BY <2>3 DEF CompletedTrips, Replan, Replanned, Resumed, Reply
      <3> QED BY <3>1, ReceiveStops
    <2> QED BY <1>4, <2>1, <2>2, <2>3 DEF AdapterNext
  <1> QED BY <1>1, <1>2, <1>3, <1>4

LEMMA AdapterFull ==
  ASSUME IInv, AdapterNext
  PROVE  BatchFullRegistered' /\ RefusedStops'
  <1>0. Core /\ Rest /\ RefusedStops
    BY Parts DEF IInv
  <1>1. RefusedStops'
    BY <1>0, AdapterStops
  <1>2. ASSUME ~ unserved', ~ astray'
        PROVE  Full(saved', trips', batchFull')
    <2>1. ~ unserved /\ ~ astray
      BY <1>2, AstrayStays
    <2>2. Full(saved, trips, batchFull)
      BY <2>1 DEF IInv, BatchFullRegistered, Regular, Full
    <2> QED BY <1>0, <1>2, <2>1, <2>2, CommandsFull, SessionAnswersFull, BatchAnswersFull
            DEF AdapterNext
  <1> QED BY <1>1, <1>2 DEF BatchFullRegistered, Regular, Full

\* Clients and the engine leave the registration alone; the engine refuses a
\* stop only by leaving what the adapter makes up for.
LEMMA OthersFull ==
  ASSUME IInv, ClientNext \/ EngineNext \/ UNCHANGED vars
  PROVE  BatchFullRegistered' /\ RefusedStops'
  <1>0. Core /\ Rest /\ RefusedStops /\ msgQ \in Queued
    BY Parts DEF IInv, Rest
  <1>1. ASSUME UNCHANGED <<saved, trips, batchFull, astray>>, unserved => unserved'
        PROVE  BatchFullRegistered'
    BY <1>1 DEF IInv, BatchFullRegistered, Regular
  <1>2. CASE ClientNext
    <2>1. PICK m : PostCommand(m) /\ m.k # "stopped"
      <3>1. \A id, o : \A k \in Commands : Msg(k, id, o, 0).k # "stopped"
        BY DEF Msg, Commands
      <3>2. \A c : Remove(c).k # "stopped"
        BY DEF Remove
      <3>3. \/ \E id, o : \E k \in Commands : PostCommand(Msg(k, id, o, 0))
            \/ \E c : PostCommand(Remove(c))
        BY <1>2 DEF ClientNext, Destroy, StartBatchingCommand, StopBatchingCommand,
             UpdateBatchingOptionsCommand, Commands
      <3> QED BY <3>1, <3>2, <3>3
    <2>2. msgQ' = Append(msgQ, m) /\ UNCHANGED <<adapterVars, engineVars>>
      BY <2>1 DEF PostCommand
    <2> QED BY <1>0, <1>1, <2>1, <2>2, AppendStops DEF RefusedStop, adapterVars, engineVars
  <1>3. CASE Accept \/ Refuse
    <2>1. PICK ok \in BOOLEAN, acc \in Distances :
            /\ Serve(Answer(Head(apiQ).reply, ok, acc))
            /\ ~ ok => unserved' = (unserved \/ ~ MadeUpFor(Head(apiQ)))
            /\ ok => unserved' = unserved
      <3>1. trip.acc \in Distances /\ {0, trip.distance} \subseteq Distances
        BY <1>0, RoutineTyped DEF Rest
      <3> QED BY <1>3, <3>1 DEF Accept, Refuse
    <2> DEFINE answer == Answer(Head(apiQ).reply, ok, acc)
    <2>2. /\ apiQ # << >> /\ UNCHANGED adapterVars
          /\ msgQ' = msgQ \/ msgQ' = Append(msgQ, answer)
      BY <2>1 DEF Serve
    <2>3. Head(apiQ).reply \in Replies
      BY <1>0, <2>2 DEF Core, Calls
    <2>4. answer.k = Head(apiQ).reply.k /\ answer.ok = ok
      BY <2>3, AnswerTyped
    <2>5. unserved => unserved'
      BY <2>1
    <2>6. RefusedStop(answer) => unserved'
      BY <2>1, <2>4 DEF RefusedStop, MadeUpFor
    <2> HIDE DEF answer
    <2>7. RefusedStops'
      BY <1>0, <2>2, <2>5, <2>6, AppendStops, SameStops
    <2> QED BY <1>1, <2>2, <2>5, <2>7 DEF adapterVars
  <1>4. CASE Travel \/ EngineDown \/ OpenLink
    <2>1. UNCHANGED <<adapterVars, unserved>>
      BY <1>4 DEF Travel, EngineDown, OpenLink
    <2>2. msgQ' = msgQ \/ \E m : msgQ' = Append(msgQ, m) /\ m.k # "stopped"
      BY <1>4 DEF Travel, EngineDown, OpenLink, Msg
    <2> QED BY <1>0, <1>1, <2>1, <2>2, AppendStops, SameStops DEF RefusedStop, adapterVars
  <1>5. CASE UNCHANGED vars
    BY <1>0, <1>1, <1>5, SameStops DEF vars, adapterVars, engineVars
  <1> QED BY <1>2, <1>3, <1>4, <1>5 DEF EngineNext

\* While a session waits for the batch full event the adapter is registered for
\* it, whatever is started, changed, stopped, completed and restarted, in any
\* order: unless the engine refused a call that the adapter does not make up
\* for, or a trip was stopped twice or joined a batch that had ended or was
\* being started or stopped.
THEOREM FullRegistered == Spec => []BatchFullRegistered
  <1>1. Init => IInv
    BY InitFull
  <1>2. IInv /\ [Next]_vars => IInv'
    BY StepTyped, AdapterFull, OthersFull DEF IInv, Next
  <1>3. IInv => BatchFullRegistered
    BY DEF IInv
  <1> QED BY <1>1, <1>2, <1>3, PTL DEF Spec

-----------------------------------------------------------------------------
(* What the engine will run once the calls under way are served *)

LEMMA TailFacts ==
  ASSUME NEW S, NEW s \in Seq(S), s # << >>
  PROVE  /\ Tail(s) \in Seq(S) /\ Head(s) = s[1] /\ s[1] \in S /\ 1 \in DOMAIN s
         /\ DOMAIN s \subseteq Nat /\ \A n \in DOMAIN s : n = 1 \/ n > 1
         /\ \A n \in DOMAIN Tail(s) : n \in Nat /\ n + 1 \in DOMAIN s /\ n + 1 > 1 /\ Tail(s)[n] = s[n + 1]
         /\ \A n \in DOMAIN s : n > 1 => n - 1 \in DOMAIN Tail(s) /\ s[n] = Tail(s)[n - 1]
  OBVIOUS

LEMMA AppendFacts ==
  ASSUME NEW S, NEW s \in Seq(S), NEW x \in S
  PROVE  /\ Append(s, x) \in Seq(S) /\ Len(s) + 1 \notin DOMAIN s
         /\ DOMAIN Append(s, x) = DOMAIN s \cup {Len(s) + 1} /\ DOMAIN s \subseteq Nat /\ Len(s) \in Nat
         /\ Append(s, x)[Len(s) + 1] = x
         /\ \A n \in DOMAIN s : Append(s, x)[n] = s[n] /\ n < Len(s) + 1
  OBVIOUS

Runs(c, i)  == c.op = "start" /\ c.id = i
Stops(c, i) == c.op = "stop" /\ c.id = i
On(c, i)    == Runs(c, i) \/ Stops(c, i)

\* An engine that runs e will run session i in mode m after the calls q: it is
\* started, or runs already, and not stopped any more.
WillRun(q, e, i, m) ==
  \/ \E n \in DOMAIN q : /\ Runs(q[n], i) /\ q[n].opts.mode = m
                         /\ \A k \in DOMAIN q : k > n => ~ Stops(q[k], i)
  \/ (\A n \in DOMAIN q : ~ Stops(q[n], i)) /\ i \in DOMAIN e /\ e[i] = m
WillStop(q, e, i) == \A m : ~ WillRun(q, e, i, m)

\* An engine that batches for trips if on will do so after the calls q.
WillBatch(q, on) ==
  \/ \E n \in DOMAIN q : q[n].op = "startTrip" /\ \A k \in DOMAIN q : k > n => q[k].op # "stopTrip"
  \/ (\A n \in DOMAIN q : q[n].op # "stopTrip") /\ on

\* What a call that is accepted does to the engine.
Ran(e, c) == CASE c.op = "start" -> With(e, c.id, c.opts.mode)
               [] c.op = "stop"  -> Without(e, c.id)
               [] OTHER -> e

LEMMA RunAppend ==
  ASSUME NEW q \in Seq(Calls), NEW c \in Calls, NEW e, NEW i, NEW m
  PROVE  /\ ~ On(c, i) => (WillRun(Append(q, c), e, i, m) <=> WillRun(q, e, i, m))
         /\ Runs(c, i) => (WillRun(Append(q, c), e, i, m) <=> WillRun(q, e, i, m) \/ c.opts.mode = m)
         /\ Stops(c, i) => ~ WillRun(Append(q, c), e, i, m)
  <1> DEFINE l == Len(q) + 1
             r == Append(q, c)
  <1>1. /\ DOMAIN r = DOMAIN q \cup {l} /\ DOMAIN q \subseteq Nat /\ l \in Nat
        /\ r[l] = c /\ l \notin DOMAIN q
        /\ \A n \in DOMAIN q : r[n] = q[n] /\ n < l
    BY AppendFacts
  <1> HIDE DEF l, r
  <1>2. ~ (Runs(c, i) /\ Stops(c, i))
    BY DEF Runs, Stops
  <1>3. ASSUME ~ Stops(c, i)
        PROVE  WillRun(r, e, i, m) <=> WillRun(q, e, i, m) \/ (Runs(c, i) /\ c.opts.mode = m)
    <2>1. (\A n \in DOMAIN r : ~ Stops(r[n], i)) <=> (\A n \in DOMAIN q : ~ Stops(q[n], i))
      BY <1>1, <1>3
    <2>2. ASSUME NEW n \in DOMAIN q
          PROVE  (\A k \in DOMAIN r : k > n => ~ Stops(r[k], i))
                 <=> (\A k \in DOMAIN q : k > n => ~ Stops(q[k], i))
      BY <1>1, <1>3
    <2>3. \A k \in DOMAIN r : ~ k > l
      BY <1>1
    <2> QED BY <1>1, <2>1, <2>2, <2>3 DEF WillRun
  <1>4. ASSUME Stops(c, i)
        PROVE  ~ WillRun(r, e, i, m)
    <2>1. \A n \in DOMAIN q : ~ \A k \in DOMAIN r : k > n => ~ Stops(r[k], i)
      BY <1>1, <1>4
    <2>2. ~ \A n \in DOMAIN r : ~ Stops(r[n], i)
      BY <1>1, <1>4
    <2>3. ~ Runs(r[l], i)
      BY <1>1, <1>2, <1>4
    <2> QED BY <1>1, <2>1, <2>2, <2>3 DEF WillRun
  <1> QED BY <1>2, <1>3, <1>4 DEF r, On

LEMMA BatchAppend ==
  ASSUME NEW q \in Seq(Calls), NEW c \in Calls, NEW on \in BOOLEAN
  PROVE  /\ c.op # "stopTrip" /\ WillBatch(q, on) => WillBatch(Append(q, c), on)
         /\ c.op = "startTrip" => WillBatch(Append(q, c), on)
  <1> DEFINE l == Len(q) + 1
             r == Append(q, c)
  <1>1. /\ DOMAIN r = DOMAIN q \cup {l} /\ DOMAIN q \subseteq Nat /\ l \in Nat
        /\ r[l] = c /\ l \notin DOMAIN q
        /\ \A n \in DOMAIN q : r[n] = q[n] /\ n < l
    BY AppendFacts
  <1> HIDE DEF l, r
  <1>2. ASSUME c.op # "stopTrip", WillBatch(q, on)
        PROVE  WillBatch(r, on)
    BY <1>1, <1>2 DEF WillBatch
  <1>3. ASSUME c.op = "startTrip"
        PROVE  WillBatch(r, on)
    BY <1>1, <1>3 DEF WillBatch
  <1> QED BY <1>2, <1>3 DEF r

\* The first call is served.  If it starts what runs in another mode, that one
\* goes.
LEMMA RunServed ==
  ASSUME NEW q \in Seq(Calls), q # << >>, NEW e, NEW i, NEW m
  PROVE  /\ WillRun(Tail(q), Ran(e, Head(q)), i, m) => WillRun(q, e, i, m)
         /\ WillRun(q, e, i, m) /\ (\A o : WillRun(q, e, i, o) => o = m)
              => WillRun(Tail(q), Ran(e, Head(q)), i, m)
  <1> DEFINE c == Head(q)
             r == Tail(q)
             f == Ran(e, c)
  <1>1. /\ c = q[1] /\ 1 \in DOMAIN q /\ DOMAIN q \subseteq Nat /\ \A n \in DOMAIN q : n = 1 \/ n > 1
        /\ \A n \in DOMAIN r : n \in Nat /\ n + 1 \in DOMAIN q /\ n + 1 > 1 /\ r[n] = q[n + 1]
        /\ \A n \in DOMAIN q : n > 1 => n - 1 \in DOMAIN r /\ q[n] = r[n - 1]
    BY TailFacts
  <1>2. /\ Runs(c, i) => i \in DOMAIN f /\ f[i] = c.opts.mode
        /\ Stops(c, i) => i \notin DOMAIN f
        /\ ~ On(c, i) => (i \in DOMAIN f <=> i \in DOMAIN e) /\ (i \in DOMAIN f => f[i] = e[i])
        /\ ~ (Runs(c, i) /\ Stops(c, i))
    BY DEF Ran, Runs, Stops, On, With, Without, Restrict
  <1> HIDE DEF c, r, f
  <1>3. (\A n \in DOMAIN r : ~ Stops(r[n], i)) <=> \A n \in DOMAIN q : n > 1 => ~ Stops(q[n], i)
    <2>1. ASSUME \A n \in DOMAIN r : ~ Stops(r[n], i), NEW n \in DOMAIN q, n > 1
          PROVE  ~ Stops(q[n], i)
      BY <1>1, <2>1
    <2>2. ASSUME \A n \in DOMAIN q : n > 1 => ~ Stops(q[n], i), NEW n \in DOMAIN r
          PROVE  ~ Stops(r[n], i)
      BY <1>1, <2>2
    <2> QED BY <2>1, <2>2
  <1>4. (\E n \in DOMAIN r : /\ Runs(r[n], i) /\ r[n].opts.mode = m
                             /\ \A k \in DOMAIN r : k > n => ~ Stops(r[k], i))
        <=> \E n \in DOMAIN q : /\ n > 1 /\ Runs(q[n], i) /\ q[n].opts.mode = m
                                /\ \A k \in DOMAIN q : k > n => ~ Stops(q[k], i)
    <2>1. ASSUME NEW n \in DOMAIN r, Runs(r[n], i), r[n].opts.mode = m,
                 \A k \in DOMAIN r : k > n => ~ Stops(r[k], i)
          PROVE  /\ n + 1 \in DOMAIN q /\ n + 1 > 1 /\ Runs(q[n + 1], i) /\ q[n + 1].opts.mode = m
                 /\ \A k \in DOMAIN q : k > n + 1 => ~ Stops(q[k], i)
      <3>1. ASSUME NEW k \in DOMAIN q, k > n + 1
            PROVE  ~ Stops(q[k], i)
        <4>1. k - 1 \in DOMAIN r /\ k - 1 > n /\ q[k] = r[k - 1]
          BY <1>1, <3>1
        <4> QED BY <2>1, <4>1
      <3> QED BY <1>1, <2>1, <3>1
    <2>2. ASSUME NEW n \in DOMAIN q, n > 1, Runs(q[n], i), q[n].opts.mode = m,
                 \A k \in DOMAIN q : k > n => ~ Stops(q[k], i)
          PROVE  /\ n - 1 \in DOMAIN r /\ Runs(r[n - 1], i) /\ r[n - 1].opts.mode = m
                 /\ \A k \in DOMAIN r : k > n - 1 => ~ Stops(r[k], i)
      <3>1. ASSUME NEW k \in DOMAIN r, k > n - 1
            PROVE  ~ Stops(r[k], i)
        <4>1. k + 1 \in DOMAIN q /\ k + 1 > n /\ r[k] = q[k + 1]
          BY <1>1, <3>1
        <4> QED BY <2>2, <4>1
      <3> QED BY <1>1, <2>2, <3>1
    <2> QED BY <2>1, <2>2
  <1>5. (\A n \in DOMAIN q : ~ Stops(q[n], i))
        <=> ~ Stops(c, i) /\ \A n \in DOMAIN q : n > 1 => ~ Stops(q[n], i)
    BY <1>1
  <1>6. \A o : (\E n \in DOMAIN q : /\ Runs(q[n], i) /\ q[n].opts.mode = o
                                    /\ \A k \in DOMAIN q : k > n => ~ Stops(q[k], i))
               <=> \/ \E n \in DOMAIN q : /\ n > 1 /\ Runs(q[n], i) /\ q[n].opts.mode = o
                                          /\ \A k \in DOMAIN q : k > n => ~ Stops(q[k], i)
                   \/ Runs(c, i) /\ c.opts.mode = o /\ \A n \in DOMAIN q : n > 1 => ~ Stops(q[n], i)
    BY <1>1
  <1>7. WillRun(r, f, i, m) => WillRun(q, e, i, m)
    BY <1>2, <1>3, <1>4, <1>5, <1>6 DEF WillRun, On
  <1>8. ASSUME WillRun(q, e, i, m), \A o : WillRun(q, e, i, o) => o = m
        PROVE  WillRun(r, f, i, m)
    <2>1. ASSUME Runs(c, i), \A n \in DOMAIN q : n > 1 => ~ Stops(q[n], i)
          PROVE  c.opts.mode = m
      <3>1. WillRun(q, e, i, c.opts.mode)
        BY <1>6, <2>1 DEF WillRun
      <3> QED BY <1>8, <3>1
    <2> QED BY <1>2, <1>3, <1>4, <1>5, <1>6, <1>8, <2>1 DEF WillRun, On
  <1> QED BY <1>7, <1>8 DEF c, r, f

LEMMA BatchServed ==
  ASSUME NEW q \in Seq(Calls), q # << >>, NEW on \in BOOLEAN, NEW now \in BOOLEAN,
         WillBatch(q, on), Head(q).op = "startTrip" \/ (on /\ Head(q).op # "stopTrip") => now
  PROVE  WillBatch(Tail(q), now)
  <1> DEFINE c == Head(q)
             r == Tail(q)
  <1>1. /\ c = q[1] /\ 1 \in DOMAIN q /\ DOMAIN q \subseteq Nat /\ \A n \in DOMAIN q : n = 1 \/ n > 1
        /\ \A n \in DOMAIN r : n \in Nat /\ n + 1 \in DOMAIN q /\ n + 1 > 1 /\ r[n] = q[n + 1]
        /\ \A n \in DOMAIN q : n > 1 => n - 1 \in DOMAIN r /\ q[n] = r[n - 1]
    BY TailFacts
  <1>2. c.op = "startTrip" \/ (on /\ c.op # "stopTrip") => now
    OBVIOUS
  <1> HIDE DEF c, r
  <1>3. ASSUME NEW n \in DOMAIN q, n > 1, q[n].op = "startTrip",
               \A k \in DOMAIN q : k > n => q[k].op # "stopTrip"
        PROVE  WillBatch(r, now)
    <2>1. ASSUME NEW k \in DOMAIN r, k > n - 1
          PROVE  r[k].op # "stopTrip"
      <3>1. k + 1 \in DOMAIN q /\ k + 1 > n /\ r[k] = q[k + 1]
        BY <1>1, <2>1
      <3> QED BY <1>3, <3>1
    <2>2. n - 1 \in DOMAIN r /\ r[n - 1].op = "startTrip"
      BY <1>1, <1>3
    <2> QED BY <2>1, <2>2 DEF WillBatch
  <1>4. ASSUME \A n \in DOMAIN q : n > 1 => q[n].op # "stopTrip", now
        PROVE  WillBatch(r, now)
    <2>1. \A n \in DOMAIN r : r[n].op # "stopTrip"
      BY <1>1, <1>4
    <2> QED BY <1>4, <2>1 DEF WillBatch
  <1>5. CASE \E n \in DOMAIN q : q[n].op = "startTrip" /\ \A k \in DOMAIN q : k > n => q[k].op # "stopTrip"
    BY <1>1, <1>2, <1>3, <1>4, <1>5 DEF r
  <1>6. CASE (\A n \in DOMAIN q : q[n].op # "stopTrip") /\ on
    BY <1>1, <1>2, <1>4, <1>6 DEF r
  <1> QED BY <1>5, <1>6 DEF WillBatch

\* A call that is refused matters to the session it is about.
LEMMA RunRefused ==
  ASSUME NEW q \in Seq(Calls), q # << >>, NEW e, NEW i, NEW m, ~ On(Head(q), i)
  PROVE  WillRun(Tail(q), e, i, m) <=> WillRun(q, e, i, m)
  <1> DEFINE r == Tail(q)
  <1>1. /\ 1 \in DOMAIN q /\ DOMAIN q \subseteq Nat /\ \A n \in DOMAIN q : n = 1 \/ n > 1
        /\ \A n \in DOMAIN r : n \in Nat /\ n + 1 \in DOMAIN q /\ n + 1 > 1 /\ r[n] = q[n + 1]
        /\ \A n \in DOMAIN q : n > 1 => n - 1 \in DOMAIN r /\ q[n] = r[n - 1]
        /\ ~ Stops(q[1], i) /\ ~ Runs(q[1], i)
    BY TailFacts DEF On
  <1> HIDE DEF r
  <1>2. (\A n \in DOMAIN r : ~ Stops(r[n], i)) <=> \A n \in DOMAIN q : ~ Stops(q[n], i)
    <2>1. ASSUME \A n \in DOMAIN r : ~ Stops(r[n], i), NEW n \in DOMAIN q
          PROVE  ~ Stops(q[n], i)
      BY <1>1, <2>1
    <2>2. ASSUME \A n \in DOMAIN q : ~ Stops(q[n], i), NEW n \in DOMAIN r
          PROVE  ~ Stops(r[n], i)
      BY <1>1, <2>2
    <2> QED BY <2>1, <2>2
  <1>3. ASSUME NEW n \in DOMAIN r
        PROVE  (\A k \in DOMAIN r : k > n => ~ Stops(r[k], i))
               <=> \A k \in DOMAIN q : k > n + 1 => ~ Stops(q[k], i)
    <2>1. ASSUME \A k \in DOMAIN r : k > n => ~ Stops(r[k], i), NEW k \in DOMAIN q, k > n + 1
          PROVE  ~ Stops(q[k], i)
      <3>1. k - 1 \in DOMAIN r /\ k - 1 > n /\ q[k] = r[k - 1]
        BY <1>1, <2>1
      <3> QED BY <2>1, <3>1
    <2>2. ASSUME \A k \in DOMAIN q : k > n + 1 => ~ Stops(q[k], i), NEW k \in DOMAIN r, k > n
          PROVE  ~ Stops(r[k], i)
      <3>1. k + 1 \in DOMAIN q /\ k + 1 > n + 1 /\ r[k] = q[k + 1]
        BY <1>1, <2>2
      <3> QED BY <2>2, <3>1
    <2> QED BY <2>1, <2>2
  <1>4. ASSUME NEW n \in DOMAIN q, n > 1
        PROVE  n - 1 \in DOMAIN r /\ r[n - 1] = q[n] /\ (n - 1) + 1 = n
    BY <1>1, <1>4
  <1>5. WillRun(r, e, i, m) <=> WillRun(q, e, i, m)
    <2>1. ASSUME NEW n \in DOMAIN r, Runs(r[n], i), r[n].opts.mode = m,
                 \A k \in DOMAIN r : k > n => ~ Stops(r[k], i)
          PROVE  WillRun(q, e, i, m)
      <3>1. n + 1 \in DOMAIN q /\ q[n + 1] = r[n]
        BY <1>1
      <3> QED BY <1>3, <2>1, <3>1 DEF WillRun
    <2>2. ASSUME NEW n \in DOMAIN q, Runs(q[n], i), q[n].opts.mode = m,
                 \A k \in DOMAIN q : k > n => ~ Stops(q[k], i)
          PROVE  WillRun(r, e, i, m)
      <3>1. n > 1
        BY <1>1, <2>2
      <3>2. n - 1 \in DOMAIN r /\ r[n - 1] = q[n] /\ (n - 1) + 1 = n
        BY <1>4, <3>1
      <3>3. \A k \in DOMAIN r : k > n - 1 => ~ Stops(r[k], i)
        BY <1>3, <2>2, <3>2
      <3> QED BY <2>2, <3>2, <3>3 DEF WillRun
    <2> QED BY <1>2, <2>1, <2>2 DEF WillRun
  <1> QED BY <1>5 DEF r

-----------------------------------------------------------------------------
(* The order of the messages, and what they say of the sessions *)

\* When it is handled a session may start; an answer the engine gave when it
\* refused to start.
Bears(m)        == m.k \in {"start", "joins"} \/ (m.k = "stopped" /\ m.again)
OfBatch(m)      == m.k \in {"tripStarted", "tripStopped"}
RefusedStart(m) == m.k = "started" /\ ~ m.ok
RefusedBatch(m) == m.k = "tripStarted" /\ ~ m.ok

\* x is not handled before y: a session starts once, behind the answers to what
\* it did before; the batch is stopped once, behind the answer to its start;
\* and an engine that restarts refused what it refused before.
Clash(x, y) ==
  \/ /\ Bears(x) /\ x.id = y.id
     /\ Bears(y) \/ y.k = "started" \/ OfBatch(y)
  \/ /\ x.k = "tripStopped"
     /\ y.k = "tripStopped" \/ (x.id = y.id /\ y.k \in {"started", "tripStarted"})
  \/ x.k = "engineUp" /\ RefusedStart(y)

\* w is the adapter's queue, q the calls, which are answered behind it.
Ordered(w, q) ==
  /\ \A m, n \in DOMAIN w : m < n => ~ Clash(w[m], w[n])
  /\ \A m \in DOMAIN w, n \in DOMAIN q : ~ Clash(w[m], q[n].reply)
  /\ \A m, n \in DOMAIN q : m < n => ~ Clash(q[m].reply, q[n].reply)
About(w, q) == {w[n] : n \in DOMAIN w} \cup {q[n].reply : n \in DOMAIN q}

LEMMA AboutTail ==
  ASSUME NEW w \in Queued, w # << >>, NEW q
  PROVE  About(Tail(w), q) \subseteq About(w, q) /\ Head(w) \in About(w, q)
  <1>1. /\ Head(w) = w[1] /\ 1 \in DOMAIN w
        /\ \A n \in DOMAIN Tail(w) : n + 1 \in DOMAIN w /\ Tail(w)[n] = w[n + 1]
    BY TailFacts DEF Queued
  <1> QED BY <1>1 DEF About

LEMMA AboutCall ==
  ASSUME NEW w, NEW q \in Seq(Calls), NEW c \in Calls
  PROVE  About(w, Append(q, c)) = About(w, q) \cup {c.reply}
  <1>1. /\ DOMAIN Append(q, c) = DOMAIN q \cup {Len(q) + 1}
        /\ Append(q, c)[Len(q) + 1] = c /\ \A n \in DOMAIN q : Append(q, c)[n] = q[n]
    BY AppendFacts
  <1> QED BY <1>1 DEF About

LEMMA AboutPost ==
  ASSUME NEW w \in Queued, NEW m \in Messages \cup Removals, NEW q
  PROVE  About(Append(w, m), q) = About(w, q) \cup {m}
  <1>1. /\ DOMAIN Append(w, m) = DOMAIN w \cup {Len(w) + 1}
        /\ Append(w, m)[Len(w) + 1] = m /\ \A n \in DOMAIN w : Append(w, m)[n] = w[n]
    BY AppendFacts DEF Queued
  <1> QED BY <1>1 DEF About

LEMMA AboutServed ==
  ASSUME NEW w, NEW q \in Seq(Calls), q # << >>
  PROVE  About(w, Tail(q)) \subseteq About(w, q) /\ Head(q).reply \in About(w, q)
  <1>1. /\ Head(q) = q[1] /\ 1 \in DOMAIN q
        /\ \A n \in DOMAIN Tail(q) : n + 1 \in DOMAIN q /\ Tail(q)[n] = q[n + 1]
    BY TailFacts
  <1> QED BY <1>1 DEF About

\* The message that is taken precedes all others.
LEMMA OrderTail ==
  ASSUME NEW w \in Queued, w # << >>, NEW q, Ordered(w, q)
  PROVE  Ordered(Tail(w), q) /\ \A x \in About(Tail(w), q) : ~ Clash(Head(w), x)
  <1>1. /\ Head(w) = w[1] /\ 1 \in DOMAIN w
        /\ \A n \in DOMAIN Tail(w) : n \in Nat /\ n + 1 \in DOMAIN w /\ n + 1 > 1 /\ Tail(w)[n] = w[n + 1]
    BY TailFacts DEF Queued
  <1>2. \A x \in About(Tail(w), q) : ~ Clash(Head(w), x)
    BY <1>1 DEF About, Ordered
  <1>3. \A m, n \in DOMAIN Tail(w) : m < n => ~ Clash(Tail(w)[m], Tail(w)[n])
    BY <1>1 DEF Ordered
  <1>4. \A m \in DOMAIN Tail(w), n \in DOMAIN q : ~ Clash(Tail(w)[m], q[n].reply)
    BY <1>1 DEF Ordered
  <1> QED BY <1>2, <1>3, <1>4 DEF Ordered

LEMMA OrderCall ==
  ASSUME NEW w, NEW q \in Seq(Calls), NEW c \in Calls, Ordered(w, q),
         \A x \in About(w, q) : ~ Clash(x, c.reply)
  PROVE  Ordered(w, Append(q, c))
  <1>1. /\ DOMAIN Append(q, c) = DOMAIN q \cup {Len(q) + 1} /\ DOMAIN q \subseteq Nat
        /\ Len(q) + 1 \in Nat
        /\ Append(q, c)[Len(q) + 1] = c
        /\ \A n \in DOMAIN q : Append(q, c)[n] = q[n] /\ n < Len(q) + 1
    BY AppendFacts
  <1>2. \A m \in DOMAIN w, n \in DOMAIN Append(q, c) : ~ Clash(w[m], Append(q, c)[n].reply)
    BY <1>1 DEF About, Ordered
  <1>3. ASSUME NEW m \in DOMAIN Append(q, c), NEW n \in DOMAIN Append(q, c), m < n
        PROVE  ~ Clash(Append(q, c)[m].reply, Append(q, c)[n].reply)
    <2>1. m \in DOMAIN q
      BY <1>1, <1>3
    <2> QED BY <1>1, <1>3, <2>1 DEF About, Ordered
  <1> QED BY <1>2, <1>3 DEF Ordered

LEMMA OrderPost ==
  ASSUME NEW w \in Queued, NEW m \in Messages \cup Removals, NEW q, Ordered(w, q),
         \A n \in DOMAIN w : ~ Clash(w[n], m), \A n \in DOMAIN q : ~ Clash(m, q[n].reply)
  PROVE  Ordered(Append(w, m), q)
  <1> DEFINE l == Len(w) + 1
             v == Append(w, m)
  <1>1. /\ DOMAIN v = DOMAIN w \cup {l} /\ DOMAIN w \subseteq Nat
        /\ l \in Nat /\ v[l] = m
        /\ \A n \in DOMAIN w : v[n] = w[n] /\ n < l
    BY AppendFacts DEF Queued
  <1> HIDE DEF l, v
  <1>2. \A k \in DOMAIN v, n \in DOMAIN q : ~ Clash(v[k], q[n].reply)
    BY <1>1 DEF Ordered
  <1>3. ASSUME NEW k \in DOMAIN v, NEW n \in DOMAIN v, k < n
        PROVE  ~ Clash(v[k], v[n])
    <2>1. k \in DOMAIN w
      BY <1>1, <1>3
    <2> QED BY <1>1, <1>3, <2>1 DEF Ordered
  <1>4. Ordered(v, q)
    BY <1>2, <1>3 DEF Ordered
  <1> QED BY <1>4 DEF v

LEMMA OrderServed ==
  ASSUME NEW w, NEW q \in Seq(Calls), q # << >>, Ordered(w, q)
  PROVE  /\ Ordered(w, Tail(q))
         /\ \A n \in DOMAIN w : ~ Clash(w[n], Head(q).reply)
         /\ \A n \in DOMAIN Tail(q) : ~ Clash(Head(q).reply, Tail(q)[n].reply)
  <1>1. /\ Head(q) = q[1] /\ 1 \in DOMAIN q
        /\ \A n \in DOMAIN Tail(q) : n \in Nat /\ n + 1 \in DOMAIN q /\ n + 1 > 1 /\ Tail(q)[n] = q[n + 1]
    BY TailFacts
  <1>2. \A m, n \in DOMAIN Tail(q) : m < n => ~ Clash(Tail(q)[m].reply, Tail(q)[n].reply)
    BY <1>1 DEF Ordered
  <1>3. \A m \in DOMAIN w, n \in DOMAIN Tail(q) : ~ Clash(w[m], Tail(q)[n].reply)
    BY <1>1 DEF Ordered
  <1> QED BY <1>1, <1>2, <1>3 DEF Ordered

\* What a message says of the sessions s and the trips t, of those handed out.
Fits(m, s, t, ids) ==
  /\ m.k # "remove" => m.id \in ids \cup {0}
  /\ Bears(m) => m.id \notin DOMAIN s \cup t
  /\ m.k = "started" => m.id \notin t /\ (m.id \in DOMAIN s => s[m.id] # "trip")
  /\ m.k = "tripStarted" => (m.id \in DOMAIN s => s[m.id] = "trip")

\* While the batch starts or stops no other trip has joined it.
Listed(w, q, s, t, ids) ==
  /\ Ordered(w, q)
  /\ \A m \in About(w, q) : Fits(m, s, t, ids)
  /\ (\E m \in About(w, q) : OfBatch(m)) => \A i, j \in t : i = j
  /\ DOMAIN s \cup t \subseteq ids
  /\ \A i \in DOMAIN s \cap t : s[i] = "trip"

\* A start the adapter waits for starts what does not run.
Answered(c) ==
  /\ c.reply.ok
  /\ c.reply.k = "started" => Runs(c, c.reply.id)
  /\ c.reply.k = "tripStarted" => c.op = "startTrip"
Fresh(q, e) ==
  \A n \in DOMAIN q : q[n].reply.k = "started" =>
    LET i == q[n].reply.id
    IN  /\ i \in DOMAIN e => \E k \in DOMAIN q : k < n /\ Stops(q[k], i)
        /\ \A j \in DOMAIN q : j < n /\ Runs(q[j], i)
                                 => \E k \in DOMAIN q : j < k /\ k < n /\ Stops(q[k], i)

\* The engine will run no session that is not saved, nor one that it refused.
Running(w, q, s, e) ==
  /\ \A i, m : WillRun(q, e, i, m) => m # "trip" /\ i \in DOMAIN s /\ s[i] = m
  /\ \A n \in DOMAIN q : Answered(q[n])
  /\ Fresh(q, e)
  /\ \A n \in DOMAIN w : RefusedStart(w[n]) => WillStop(q, e, w[n].id)

\* It will run all of them, and batch for the trips, or has said that it will not.
Serves(w, q, s, t, e, on) ==
  /\ \A i \in DOMAIN s : s[i] # "trip" =>
       \/ WillRun(q, e, i, s[i])
       \/ \E n \in DOMAIN w : RefusedStart(w[n]) /\ w[n].id = i
  /\ t # {} => \/ WillBatch(q, on)
               \/ \E m \in About(w, q) : m.k = "tripStopped"
               \/ \E n \in DOMAIN w : RefusedBatch(w[n])
Sound(w, q, s, t, e, ids) == Listed(w, q, s, t, ids) /\ Running(w, q, s, e)

-----------------------------------------------------------------------------
(* What the handlers are made of keeps this *)

\* A message is taken,
LEMMA TakeSound ==
  ASSUME NEW w \in Queued, w # << >>, NEW q, NEW s, NEW t, NEW e, NEW ids, Sound(w, q, s, t, e, ids)
  PROVE  Sound(Tail(w), q, s, t, e, ids)
  <1>1. Ordered(Tail(w), q) /\ About(Tail(w), q) \subseteq About(w, q)
    BY OrderTail, AboutTail DEF Sound, Listed
  <1>2. Listed(Tail(w), q, s, t, ids)
    BY <1>1 DEF Sound, Listed
  <1>3. \A n \in DOMAIN Tail(w) : n + 1 \in DOMAIN w /\ Tail(w)[n] = w[n + 1]
    BY TailFacts DEF Queued
  <1>4. Running(Tail(w), q, s, e)
    BY <1>3 DEF Sound, Running
  <1> QED BY <1>2, <1>4 DEF Sound

LEMMA TakeServes ==
  ASSUME NEW w \in Queued, w # << >>, NEW q, NEW s, NEW t, NEW e, NEW on, Serves(w, q, s, t, e, on)
  PROVE  /\ ~ RefusedStart(Head(w)) /\ Head(w).k # "tripStopped" /\ ~ RefusedBatch(Head(w))
              => Serves(Tail(w), q, s, t, e, on)
         /\ RefusedStart(Head(w)) => Serves(Tail(w), q, Without(s, Head(w).id), t, e, on)
         /\ ~ RefusedStart(Head(w)) => Serves(Tail(w), q, s, {}, e, on)
  <1> DEFINE v == Tail(w)
             h == Head(w)
  <1>1. /\ h = w[1]
        /\ \A n \in DOMAIN w : n = 1 \/ n > 1
        /\ \A n \in DOMAIN w : n > 1 => n - 1 \in DOMAIN v /\ w[n] = v[n - 1]
    BY TailFacts DEF Queued
  <1> HIDE DEF v, h
  <1>2. About(w, q) \subseteq About(v, q) \cup {h}
    BY <1>1 DEF About
  <1>3. ASSUME h.k # "tripStopped", ~ RefusedBatch(h), t # {}
        PROVE  \/ WillBatch(q, on)
               \/ \E m \in About(v, q) : m.k = "tripStopped"
               \/ \E n \in DOMAIN v : RefusedBatch(v[n])
    BY <1>1, <1>2, <1>3 DEF Serves
  <1>4. ASSUME NEW i \in DOMAIN s, s[i] # "trip", ~ (RefusedStart(h) /\ h.id = i)
        PROVE  WillRun(q, e, i, s[i]) \/ \E n \in DOMAIN v : RefusedStart(v[n]) /\ v[n].id = i
    BY <1>1, <1>4 DEF Serves
  <1>5. ASSUME ~ RefusedStart(h), h.k # "tripStopped", ~ RefusedBatch(h)
        PROVE  Serves(v, q, s, t, e, on)
    BY <1>3, <1>4, <1>5 DEF Serves
  <1>6. ASSUME RefusedStart(h)
        PROVE  Serves(v, q, Without(s, h.id), t, e, on)
    <2>1. h.k # "tripStopped" /\ ~ RefusedBatch(h)
      BY <1>6 DEF RefusedStart, RefusedBatch
    <2>2. DOMAIN Without(s, h.id) = DOMAIN s \ {h.id}
      BY DEF Without, Restrict
    <2>3. \A i \in DOMAIN s \ {h.id} : Without(s, h.id)[i] = s[i]
      BY DEF Without, Restrict
    <2> QED BY <1>3, <1>4, <2>1, <2>2, <2>3 DEF Serves
  <1>7. ASSUME ~ RefusedStart(h)
        PROVE  Serves(v, q, s, {}, e, on)
    BY <1>4, <1>7 DEF Serves
  <1> QED BY <1>5, <1>6, <1>7 DEF v, h

\* a call is made that starts no session,
LEMMA FreshCall ==
  ASSUME NEW q \in Seq(Calls), NEW c \in Calls, NEW e, Fresh(q, e),
         c.reply.k = "started" => WillStop(q, e, c.reply.id)
  PROVE  Fresh(Append(q, c), e)
  <1> DEFINE l == Len(q) + 1
             r == Append(q, c)
  <1>1. /\ DOMAIN r = DOMAIN q \cup {l} /\ DOMAIN q \subseteq Nat /\ l \in Nat
        /\ r[l] = c /\ l \notin DOMAIN q
        /\ \A n \in DOMAIN q : r[n] = q[n] /\ n < l
    BY AppendFacts
  <1> HIDE DEF l, r
  <1>2. ASSUME NEW n \in DOMAIN q, r[n].reply.k = "started", NEW i, i = r[n].reply.id
        PROVE  /\ i \in DOMAIN e => \E k \in DOMAIN r : k < n /\ Stops(r[k], i)
               /\ \A j \in DOMAIN r : j < n /\ Runs(r[j], i)
                                        => \E k \in DOMAIN r : j < k /\ k < n /\ Stops(r[k], i)
    <2>1. q[n].reply.k = "started" /\ i = q[n].reply.id
      BY <1>1, <1>2
    <2>2. i \in DOMAIN e => \E k \in DOMAIN r : k < n /\ Stops(r[k], i)
      BY <1>1, <2>1 DEF Fresh
    <2>3. ASSUME NEW j \in DOMAIN r, j < n, Runs(r[j], i)
          PROVE  \E k \in DOMAIN r : j < k /\ k < n /\ Stops(r[k], i)
      <3>1. j \in DOMAIN q /\ Runs(q[j], i)
        BY <1>1, <2>3
      <3>2. \E k \in DOMAIN q : j < k /\ k < n /\ Stops(q[k], i)
        BY <2>1, <2>3, <3>1 DEF Fresh
      <3> QED BY <1>1, <3>2
    <2> QED BY <2>2, <2>3
  <1>3. ASSUME c.reply.k = "started", NEW i, i = c.reply.id
        PROVE  /\ i \in DOMAIN e => \E k \in DOMAIN r : k < l /\ Stops(r[k], i)
               /\ \A j \in DOMAIN r : j < l /\ Runs(r[j], i)
                                        => \E k \in DOMAIN r : j < k /\ k < l /\ Stops(r[k], i)
    <2>1. \A m : ~ WillRun(q, e, i, m)
      BY <1>3 DEF WillStop
    <2>2. i \in DOMAIN e => \E k \in DOMAIN q : Stops(q[k], i)
      BY <2>1 DEF WillRun
    <2>3. ASSUME NEW j \in DOMAIN q, Runs(q[j], i)
          PROVE  \E k \in DOMAIN q : k > j /\ Stops(q[k], i)
      <3>1. ~ WillRun(q, e, i, q[j].opts.mode)
        BY <2>1
      <3> QED BY <2>3, <3>1 DEF WillRun
    <2>4. \A j \in DOMAIN r : j < l => j \in DOMAIN q
      BY <1>1
    <2>5. ASSUME NEW j \in DOMAIN r, j < l, Runs(r[j], i)
          PROVE  \E k \in DOMAIN r : j < k /\ k < l /\ Stops(r[k], i)
      <3>1. j \in DOMAIN q /\ Runs(q[j], i)
        BY <1>1, <2>4, <2>5
      <3>2. PICK k \in DOMAIN q : k > j /\ Stops(q[k], i)
        BY <2>3, <3>1
      <3> QED BY <1>1, <3>1, <3>2
    <2>6. i \in DOMAIN e => \E k \in DOMAIN r : k < l /\ Stops(r[k], i)
      BY <1>1, <2>2
    <2> QED BY <2>5, <2>6
  <1>4. Fresh(r, e)
    BY <1>1, <1>2, <1>3 DEF Fresh
  <1> QED BY <1>4 DEF r

LEMMA CallRunning ==
  ASSUME NEW w, NEW q \in Seq(Calls), NEW c \in Calls, NEW s, NEW r, NEW e,
         Running(w, q, s, e), Answered(c), c.op # "start",
         r = s \/ (c.op = "stop" /\ r = Without(s, c.id))
  PROVE  Running(w, Append(q, c), r, e)
  <1>1. \A i : ~ Runs(c, i)
    BY DEF Runs
  <1>2. \A i, m : WillRun(Append(q, c), e, i, m) => WillRun(q, e, i, m) /\ ~ Stops(c, i)
    BY <1>1, RunAppend DEF On
  <1>3. \A i, m : WillRun(Append(q, c), e, i, m) => m # "trip" /\ i \in DOMAIN r /\ r[i] = m
    <2> SUFFICES ASSUME NEW i, NEW m, WillRun(Append(q, c), e, i, m)
                 PROVE  m # "trip" /\ i \in DOMAIN r /\ r[i] = m
      OBVIOUS
    <2>1. m # "trip" /\ i \in DOMAIN s /\ s[i] = m
      BY <1>2 DEF Running
    <2>2. CASE c.op = "stop" /\ r = Without(s, c.id)
      <3>1. i # c.id
        BY <1>2, <2>2 DEF Stops
      <3> QED BY <2>1, <2>2, <3>1 DEF Without, Restrict
    <2> QED BY <2>1, <2>2
  <1>4. \A n \in DOMAIN Append(q, c) : Answered(Append(q, c)[n])
    BY AppendFacts DEF Running
  <1>5. c.reply.k # "started"
    BY <1>1 DEF Answered
  <1>6. Fresh(Append(q, c), e)
    BY <1>5, FreshCall DEF Running
  <1>7. \A n \in DOMAIN w : RefusedStart(w[n]) => WillStop(Append(q, c), e, w[n].id)
    BY <1>2 DEF Running, WillStop
  <1> QED BY <1>3, <1>4, <1>6, <1>7 DEF Running

LEMMA CallSound ==
  ASSUME NEW w, NEW q \in Seq(Calls), NEW c \in Calls, NEW s, NEW r, NEW t, NEW e, NEW ids,
         Sound(w, q, s, t, e, ids), Answered(c), c.op # "start",
         r = s \/ (c.op = "stop" /\ r = Without(s, c.id)),
         \A x \in About(w, q) : ~ Clash(x, c.reply),
         Fits(c.reply, r, t, ids), OfBatch(c.reply) => \A i, j \in t : i = j
  PROVE  Sound(w, Append(q, c), r, t, e, ids)
  <1>1. DOMAIN r \subseteq DOMAIN s /\ \A i \in DOMAIN r : r[i] = s[i]
    BY DEF Without, Restrict
  <1>2. About(w, Append(q, c)) = About(w, q) \cup {c.reply}
    BY AboutCall
  <1>3. \A m : Fits(m, s, t, ids) => Fits(m, r, t, ids)
    BY <1>1 DEF Fits
  <1>4. Ordered(w, Append(q, c))
    BY OrderCall DEF Sound, Listed
  <1>5. Listed(w, Append(q, c), r, t, ids)
    BY <1>1, <1>2, <1>3, <1>4 DEF Sound, Listed
  <1> QED BY <1>5, CallRunning DEF Sound

LEMMA CallServes ==
  ASSUME NEW w, NEW q \in Seq(Calls), NEW c \in Calls, NEW s, NEW r, NEW t, NEW e, NEW on \in BOOLEAN,
         Serves(w, q, s, t, e, on), c.op # "start",
         (r = s /\ c.op # "stop") \/ (c.op = "stop" /\ r = Without(s, c.id)),
         c.op = "stopTrip" => t = {} \/ c.reply.k = "tripStopped"
  PROVE  Serves(w, Append(q, c), r, t, e, on)
  <1>1. DOMAIN r \subseteq DOMAIN s /\ \A i \in DOMAIN r : r[i] = s[i] /\ ~ On(c, i)
    BY DEF Without, Restrict, On, Runs, Stops
  <1>2. About(w, Append(q, c)) = About(w, q) \cup {c.reply}
    BY AboutCall
  <1>3. \A i \in DOMAIN r : WillRun(q, e, i, r[i]) => WillRun(Append(q, c), e, i, r[i])
    BY <1>1, RunAppend
  <1>4. c.op # "stopTrip" /\ WillBatch(q, on) => WillBatch(Append(q, c), on)
    BY BatchAppend
  <1> QED BY <1>1, <1>2, <1>3, <1>4 DEF Serves

\* trips go, or one joins,
LEMMA TripsSound ==
  ASSUME NEW w, NEW q, NEW s, NEW t, NEW u, NEW e, NEW ids, Sound(w, q, s, t, e, ids), u \subseteq t
  PROVE  Sound(w, q, s, u, e, ids)
  BY DEF Sound, Listed, Fits

LEMMA TripsServe ==
  ASSUME NEW w, NEW q, NEW s, NEW t, NEW u, NEW e, NEW on, Serves(w, q, s, t, e, on), u # {} => t # {}
  PROVE  Serves(w, q, s, u, e, on)
  BY DEF Serves

LEMMA JoinSound ==
  ASSUME NEW w, NEW q, NEW s, NEW t, NEW i, NEW e, NEW ids, Sound(w, q, s, t, e, ids),
         i \in ids, i \notin DOMAIN s,
         \A m \in About(w, q) : /\ ~ OfBatch(m)
                                /\ m.id = i => ~ Bears(m) /\ m.k # "started"
  PROVE  Sound(w, q, s, t \cup {i}, e, ids)
  <1>1. \A m \in About(w, q) : Fits(m, s, t \cup {i}, ids)
    BY DEF Sound, Listed, Fits
  <1>2. Listed(w, q, s, t \cup {i}, ids)
    BY <1>1 DEF Sound, Listed
  <1> QED BY <1>2 DEF Sound

\* and a session goes that will not run.
LEMMA EraseSound ==
  ASSUME NEW w, NEW q, NEW s, NEW t, NEW i, NEW e, NEW ids, Sound(w, q, s, t, e, ids),
         WillStop(q, e, i)
  PROVE  Sound(w, q, Without(s, i), t, e, ids)
  <1>1. DOMAIN Without(s, i) = DOMAIN s \ {i} /\ \A j \in DOMAIN s \ {i} : Without(s, i)[j] = s[j]
    BY DEF Without, Restrict
  <1>2. Listed(w, q, Without(s, i), t, ids)
    BY <1>1 DEF Sound, Listed, Fits
  <1>3. Running(w, q, Without(s, i), e)
    BY <1>1 DEF Sound, Running, WillStop
  <1> QED BY <1>2, <1>3 DEF Sound

LEMMA EraseServes ==
  ASSUME NEW w, NEW q, NEW s, NEW t, NEW i, NEW e, NEW on, Serves(w, q, s, t, e, on)
  PROVE  Serves(w, q, Without(s, i), t, e, on)
  <1>1. DOMAIN Without(s, i) = DOMAIN s \ {i} /\ \A j \in DOMAIN s \ {i} : Without(s, i)[j] = s[j]
    BY DEF Without, Restrict
  <1> QED BY <1>1 DEF Serves

LEMMA TripStops ==
  ASSUME NEW w, NEW q, NEW s, NEW t, NEW i, NEW e, NEW ids, Sound(w, q, s, t, e, ids),
         i \in DOMAIN s => s[i] = "trip"
  PROVE  WillStop(q, e, i)
  BY DEF Sound, Running, WillStop

\* No message is on its way that counts on session i as it was.
Free(w, q, i) ==
  \A m \in About(w, q) : m.id = i => ~ Bears(m) /\ m.k # "started" /\ ~ OfBatch(m)

\* A session that is not known starts.
LEMMA PlainSound ==
  ASSUME NEW w, NEW q \in Seq(Calls), NEW s, NEW t, NEW e, NEW ids, NEW i \in Ids, NEW mode,
         Sound(w, q, s, t, e, ids), i \in ids, i \notin DOMAIN s \cup t, Free(w, q, i),
         mode # "trip",
         NEW c \in Calls, Runs(c, i), c.opts.mode = mode,
         c.reply.k = "started", c.reply.id = i, c.reply.ok
  PROVE  /\ Sound(w, Append(q, c), With(s, i, mode), t, e, ids)
         /\ \A on \in BOOLEAN : Serves(w, q, s, t, e, on)
              => Serves(w, Append(q, c), With(s, i, mode), t, e, on)
  <1> DEFINE r == With(s, i, mode)
  <1>1. /\ c \in Calls /\ c.op = "start" /\ c.id = i /\ c.opts.mode = mode
        /\ c.reply.k = "started" /\ c.reply.id = i /\ c.reply.ok
    BY DEF Runs
  <1>2. Runs(c, i) /\ ~ Stops(c, i) /\ \A j : j # i => ~ On(c, j)
    BY <1>1 DEF Runs, Stops, On
  <1>3. DOMAIN r = DOMAIN s \cup {i} /\ r[i] = mode /\ \A j \in DOMAIN s : r[j] = s[j]
    BY DEF With
  <1>4. WillStop(q, e, i)
    BY DEF Sound, Running, WillStop
  <1>5. \A j, m : WillRun(Append(q, c), e, j, m) <=> IF j = i THEN m = mode ELSE WillRun(q, e, j, m)
    BY <1>1, <1>2, <1>4, RunAppend DEF WillStop
  <1>6. About(w, Append(q, c)) = About(w, q) \cup {c.reply}
    BY <1>1, AboutCall
  <1> HIDE DEF r
  <1>7. ~ Bears(c.reply) /\ ~ OfBatch(c.reply) /\ ~ RefusedStart(c.reply)
    BY <1>1 DEF Bears, OfBatch, RefusedStart
  <1>8. Ordered(w, Append(q, c))
    <2>1. \A x \in About(w, q) : ~ Clash(x, c.reply)
      BY <1>1, <1>7 DEF Clash, Free, OfBatch
    <2> QED BY <1>1, <2>1, OrderCall DEF Sound, Listed
  <1>9. \A m \in About(w, Append(q, c)) : Fits(m, r, t, ids)
    <2>1. Fits(c.reply, r, t, ids)
      BY <1>1, <1>3, <1>7 DEF Fits
    <2>2. ASSUME NEW m \in About(w, q)
          PROVE  Fits(m, r, t, ids)
      <3>1. Fits(m, s, t, ids)
        BY DEF Sound, Listed
      <3>2. m.id = i => ~ Bears(m) /\ m.k # "started" /\ m.k # "tripStarted"
        BY DEF Free, OfBatch
      <3> QED BY <1>3, <3>1, <3>2 DEF Fits
    <2> QED BY <1>6, <2>1, <2>2
  <1>10. Listed(w, Append(q, c), r, t, ids)
    BY <1>3, <1>6, <1>7, <1>8, <1>9 DEF Sound, Listed
  <1>11. Running(w, Append(q, c), r, e)
    <2>1. \A j, m : WillRun(Append(q, c), e, j, m) => m # "trip" /\ j \in DOMAIN r /\ r[j] = m
      BY <1>3, <1>5 DEF Sound, Running
    <2>2. Answered(c)
      BY <1>1, <1>2 DEF Answered
    <2>3. \A n \in DOMAIN Append(q, c) : Answered(Append(q, c)[n])
      BY <1>1, <2>2, AppendFacts DEF Sound, Running
    <2>4. Fresh(Append(q, c), e)
      BY <1>1, <1>4, FreshCall DEF Sound, Running
    <2>5. ASSUME NEW n \in DOMAIN w, RefusedStart(w[n])
          PROVE  WillStop(Append(q, c), e, w[n].id)
      <3>1. w[n].id # i
        BY <2>5 DEF Free, About, RefusedStart
      <3>2. WillStop(q, e, w[n].id)
        BY <2>5 DEF Sound, Running
      <3> QED BY <1>5, <3>1, <3>2 DEF WillStop
    <2> QED BY <2>1, <2>3, <2>4, <2>5 DEF Running
  <1>12. ASSUME NEW on \in BOOLEAN, Serves(w, q, s, t, e, on)
         PROVE  Serves(w, Append(q, c), r, t, e, on)
    <2>1. WillBatch(q, on) => WillBatch(Append(q, c), on)
      BY <1>1, BatchAppend
    <2>2. \A j \in DOMAIN r : r[j] # "trip" =>
            \/ WillRun(Append(q, c), e, j, r[j])
            \/ \E n \in DOMAIN w : RefusedStart(w[n]) /\ w[n].id = j
      BY <1>3, <1>5, <1>12 DEF Serves
    <2> QED BY <1>6, <1>12, <2>1, <2>2 DEF Serves
  <1> QED BY <1>10, <1>11, <1>12 DEF Sound, r

LEMMA FirstTripSound ==
  ASSUME NEW w, NEW q \in Seq(Calls), NEW s, NEW e, NEW ids, NEW i \in Ids,
         Sound(w, q, s, {}, e, ids), i \in ids, i \notin DOMAIN s, Free(w, q, i),
         NEW c \in Calls, c.op = "startTrip",
         c.reply.k = "tripStarted", c.reply.id = i, c.reply.ok
  PROVE  /\ Sound(w, Append(q, c), With(s, i, "trip"), {i}, e, ids)
         /\ \A on \in BOOLEAN : Serves(w, q, s, {}, e, on)
              => Serves(w, Append(q, c), With(s, i, "trip"), {i}, e, on)
  <1> DEFINE r == With(s, i, "trip")
  <1>1. /\ c \in Calls /\ c.op = "startTrip" /\ c.reply.k = "tripStarted" /\ c.reply.id = i
        /\ c.reply.ok
    OBVIOUS
  <1>2. DOMAIN r = DOMAIN s \cup {i} /\ r[i] = "trip" /\ \A j \in DOMAIN s : r[j] = s[j]
    BY DEF With
  <1> HIDE DEF r
  <1>3. Answered(c)
    BY <1>1 DEF Answered
  <1>4. Running(w, Append(q, c), s, e)
    BY <1>1, <1>3, CallRunning DEF Sound
  <1>5. Running(w, Append(q, c), r, e)
    BY <1>2, <1>4 DEF Running
  <1>6. About(w, Append(q, c)) = About(w, q) \cup {c.reply}
    BY <1>1, AboutCall
  <1>7. Ordered(w, Append(q, c))
    <2>1. ASSUME NEW x \in About(w, q)
          PROVE  ~ Clash(x, c.reply)
      <3>1. x.id = i => ~ Bears(x) /\ x.k # "tripStopped"
        BY DEF Free, OfBatch
      <3> QED BY <1>1, <3>1 DEF Clash, RefusedStart
    <2> QED BY <1>1, <2>1, OrderCall DEF Sound, Listed
  <1>8. \A m \in About(w, Append(q, c)) : Fits(m, r, {i}, ids)
    <2>1. Fits(c.reply, r, {i}, ids)
      BY <1>1, <1>2 DEF Fits, Bears
    <2>2. ASSUME NEW m \in About(w, q)
          PROVE  Fits(m, r, {i}, ids)
      <3>1. Fits(m, s, {}, ids)
        BY DEF Sound, Listed
      <3>2. m.id = i => ~ Bears(m) /\ m.k # "started" /\ m.k # "tripStarted"
        BY DEF Free, OfBatch
      <3> QED BY <1>2, <3>1, <3>2 DEF Fits
    <2> QED BY <1>6, <2>1, <2>2
  <1>9. Listed(w, Append(q, c), r, {i}, ids)
    BY <1>2, <1>7, <1>8 DEF Sound, Listed
  <1>10. ASSUME NEW on \in BOOLEAN, Serves(w, q, s, {}, e, on)
         PROVE  Serves(w, Append(q, c), r, {i}, e, on)
    <2>1. WillBatch(Append(q, c), on)
      BY <1>1, BatchAppend
    <2>2. Serves(w, Append(q, c), s, {}, e, on)
      BY <1>1, <1>10, CallServes
    <2> QED BY <1>2, <2>1, <2>2 DEF Serves
  <1> QED BY <1>5, <1>9, <1>10 DEF Sound, r

LEMMA StartSound ==
  ASSUME NEW w, NEW q \in Seq(Calls), NEW s, NEW t, NEW b, NEW e, NEW ids, NEW i \in Ids,
         NEW o \in Options, Start(s, t, b, q, i, o), Sound(w, q, s, DOMAIN t, e, ids),
         i \in ids, i \notin DOMAIN s \cup DOMAIN t, Free(w, q, i)
  PROVE  /\ Sound(w, apiQ', saved', DOMAIN trips', e, ids)
         /\ \A on \in BOOLEAN : Serves(w, q, s, DOMAIN t, e, on)
              => Serves(w, apiQ', saved', DOMAIN trips', e, on)
  <1>1. CASE o.mode # "trip"
    <2> DEFINE c == Call("start", i, o, Msg("started", i, o, 0))
    <2>1. saved' = With(s, i, o.mode) /\ trips' = t /\ apiQ' = Append(q, c)
      BY <1>1 DEF Start, StartPlain
    <2>2. c \in Calls
      <3>1. Msg("started", i, o, 0) \in Replies
        BY ReplyTyped, RoutineTyped DEF SessionAnswers
      <3> QED BY <3>1, CallTyped
    <2>3. Runs(c, i) /\ c.opts.mode = o.mode /\ c.reply.k = "started" /\ c.reply.id = i /\ c.reply.ok
      BY DEF Runs, Call, Msg
    <2> DEFINE mode == o.mode
    <2> HIDE DEF c, mode
    <2>4. /\ Sound(w, Append(q, c), With(s, i, mode), DOMAIN t, e, ids)
          /\ \A on \in BOOLEAN : Serves(w, q, s, DOMAIN t, e, on)
               => Serves(w, Append(q, c), With(s, i, mode), DOMAIN t, e, on)
      <3>1. mode # "trip" /\ c.opts.mode = mode
        BY <1>1, <2>3 DEF mode
      <3> QED BY <2>2, <2>3, <3>1, PlainSound
    <2> QED BY <2>1, <2>4 DEF mode
  <1>2. CASE o.mode = "trip" /\ DOMAIN t = {}
    <2> DEFINE c == Call("startTrip", i, o, Msg("tripStarted", i, o, 0))
    <2>1. /\ saved' = With(s, i, "trip") /\ trips' = With(t, i, NewTrip(o, 0))
          /\ apiQ' = Append(q, c)
      BY <1>2 DEF Start, StartTrip
    <2>2. c \in Calls
      <3>1. Msg("tripStarted", i, o, 0) \in Replies
        BY ReplyTyped, RoutineTyped DEF SessionAnswers
      <3> QED BY <3>1, CallTyped
    <2>3. c.op = "startTrip" /\ c.reply.k = "tripStarted" /\ c.reply.id = i /\ c.reply.ok
      BY DEF Call, Msg
    <2> HIDE DEF c
    <2>4. DOMAIN trips' = {i}
      BY <1>2, <2>1 DEF With
    <2> QED BY <1>2, <2>1, <2>2, <2>3, <2>4, FirstTripSound
  <1>3. CASE o.mode = "trip" /\ DOMAIN t # {}
    <2> DEFINE c == Call("query", i, o, Msg("joins", i, o, Query))
    <2>1. saved' = s /\ trips' = t /\ apiQ' = Append(q, c)
      BY <1>3 DEF Start, StartTrip
    <2>2. /\ c \in Calls /\ c.op = "query" /\ c.reply.k = "joins" /\ c.reply.id = i /\ c.reply.ok
      <3>1. Msg("joins", i, o, Query) \in Replies
        BY ReplyTyped DEF SessionAnswers
      <3>2. c \in Calls
        BY <3>1, CallTyped
      <3> QED BY <3>2 DEF Call, Msg
    <2> HIDE DEF c
    <2>3. Answered(c) /\ ~ OfBatch(c.reply)
      BY <2>2 DEF Answered, OfBatch
    <2>4. \A x \in About(w, q) : ~ Clash(x, c.reply)
      BY <2>2 DEF Free, Clash, OfBatch, RefusedStart
    <2>5. Fits(c.reply, s, DOMAIN t, ids)
      BY <2>2 DEF Fits
    <2>6. Sound(w, Append(q, c), s, DOMAIN t, e, ids)
      BY <2>2, <2>3, <2>4, <2>5, CallSound
    <2>7. \A on \in BOOLEAN : Serves(w, q, s, DOMAIN t, e, on) => Serves(w, Append(q, c), s, DOMAIN t, e, on)
      BY <2>2, CallServes
    <2> QED BY <2>1, <2>6, <2>7
  <1> QED BY <1>1, <1>2, <1>3

-----------------------------------------------------------------------------
(* The handlers *)

SoundFrom(w)  == Sound(w, apiQ, saved, DOMAIN trips, plain, DOMAIN owner)
SoundTo(w)    == Sound(w, apiQ', saved', DOMAIN trips', plain, DOMAIN owner)
ServesFrom(w) == Serves(w, apiQ, saved, DOMAIN trips, plain, trip.on)
ServesTo(w)   == Serves(w, apiQ', saved', DOMAIN trips', plain, trip.on)

\* A call that is about the batch only.
LEMMA BatchCall ==
  ASSUME NEW w, NEW q \in Seq(Calls), NEW s, NEW t, NEW e, NEW ids, Sound(w, q, s, t, e, ids),
         NEW op \in {"startTrip", "query", "stopTrip"}, NEW i \in Ids \cup {0}, NEW o \in Options,
         NEW m \in Replies, m.k \in BatchAnswers, m.ok, m.id = 0
  PROVE  /\ Call(op, i, o, m) \in Calls
         /\ Sound(w, Append(q, Call(op, i, o, m)), s, t, e, ids)
         /\ \A on \in BOOLEAN : Serves(w, q, s, t, e, on) /\ (op = "stopTrip" => t = {})
              => Serves(w, Append(q, Call(op, i, o, m)), s, t, e, on)
  <1> DEFINE c == Call(op, i, o, m)
  <1>1. c \in Calls /\ c.op = op /\ c.reply = m
    <2>1. c \in Calls
      BY CallTyped
    <2> QED BY <2>1 DEF Call
  <1> HIDE DEF c
  <1>2. m.k \notin {"start", "joins", "stopped", "started", "tripStarted", "tripStopped", "remove"}
    BY DEF BatchAnswers
  <1>3. ~ Bears(m) /\ ~ OfBatch(m) /\ ~ RefusedStart(m)
    BY <1>2 DEF Bears, OfBatch, RefusedStart
  <1>4. \A x : ~ Clash(x, m)
    BY <1>2, <1>3 DEF Clash
  <1>5. Fits(m, s, t, ids) /\ Answered(c)
    BY <1>1, <1>2, <1>3 DEF Fits, Answered
  <1>6. Sound(w, Append(q, c), s, t, e, ids)
    BY <1>1, <1>3, <1>4, <1>5, CallSound
  <1>7. \A on \in BOOLEAN : Serves(w, q, s, t, e, on) /\ (op = "stopTrip" => t = {})
              => Serves(w, Append(q, c), s, t, e, on)
    BY <1>1, CallServes
  <1> QED BY <1>1, <1>6, <1>7 DEF c

LEMMA StopPlainSound ==
  ASSUME Core, trip.on \in BOOLEAN, NEW w, SoundFrom(w), NEW id \in DOMAIN saved, id \notin DOMAIN trips,
         NEW next \in Options, NEW again \in BOOLEAN, StopPlain(id, next, again)
  PROVE  SoundTo(w) /\ (ServesFrom(w) => ServesTo(w))
  <1> DEFINE m == StopMsg("stopped", id, next, saved[id], again)
             c == Call("stop", id, next, m)
  <1>1. saved' = Without(saved, id) /\ trips' = trips /\ apiQ' = Append(apiQ, c)
    BY DEF StopPlain
  <1>2. /\ c \in Calls /\ c.op = "stop" /\ c.id = id /\ c.reply = m
        /\ m.k = "stopped" /\ m.id = id /\ m.ok
    <2>1. id \in Ids /\ saved[id] \in Modes
      BY DEF Core, Partial
    <2>2. c \in Calls
      BY <2>1, CallTyped, StopReplyTyped
    <2> QED BY <2>2 DEF Call, StopMsg
  <1> HIDE DEF m, c
  <1>3. DOMAIN Without(saved, id) = DOMAIN saved \ {id}
    BY DEF Without, Restrict
  <1>4. Answered(c) /\ ~ OfBatch(m) /\ ~ RefusedStart(m)
    BY <1>2 DEF Answered, OfBatch, RefusedStart
  <1>5. ASSUME NEW x \in About(w, apiQ)
        PROVE  ~ Clash(x, m)
    <2>1. Fits(x, saved, DOMAIN trips, DOMAIN owner)
      BY DEF SoundFrom, Sound, Listed
    <2> QED BY <1>2, <1>4, <2>1 DEF Fits, Clash, OfBatch
  <1>6. id \in DOMAIN owner
    BY DEF SoundFrom, Sound, Listed
  <1>7. Fits(m, Without(saved, id), DOMAIN trips, DOMAIN owner)
    BY <1>2, <1>3, <1>6 DEF Fits
  <1>8. SoundTo(w)
    <2>1. Sound(w, Append(apiQ, c), Without(saved, id), DOMAIN trips, plain, DOMAIN owner)
      BY <1>2, <1>4, <1>5, <1>7, CallSound DEF SoundFrom, Core
    <2> QED BY <1>1, <2>1 DEF SoundTo
  <1>9. ServesFrom(w) => ServesTo(w)
    <2>1. ServesFrom(w) => Serves(w, Append(apiQ, c), Without(saved, id), DOMAIN trips, plain, trip.on)
      BY <1>2, CallServes DEF ServesFrom, Core
    <2> QED BY <1>1, <2>1 DEF ServesTo
  <1> QED BY <1>8, <1>9

LEMMA StopTripSound ==
  ASSUME Core, trip.on \in BOOLEAN, NEW w, SoundFrom(w), NEW id \in DOMAIN trips,
         NEW next \in Options, NEW again \in BOOLEAN, NEW b, StopTrip(id, next, again, b),
         \A m \in About(w, apiQ) : m.id = id => ~ OfBatch(m)
  PROVE  /\ SoundTo(w)
         /\ Serves(w, apiQ, saved, DOMAIN trips \ {id}, plain, trip.on) => ServesTo(w)
  <1> DEFINE left  == Without(trips, id)
             calls == IF DOMAIN left = {} THEN apiQ ELSE Append(apiQ, AskAgain(left, Query))
             rest  == Without(saved, id)
             ids   == DOMAIN owner
  <1>1. IF again
        THEN Start(rest, left, b, calls, id, next)
        ELSE saved' = saved /\ trips' = left /\ apiQ' = calls
    BY DEF StopTrip
  <1>2. DOMAIN left = DOMAIN trips \ {id} /\ DOMAIN rest = DOMAIN saved \ {id}
    BY DEF Without, Restrict
  <1>3. Partial(left, TripRecords) /\ id \in Ids
    BY WithoutTyped DEF Core, Partial
  <1>4. Sound(w, apiQ, saved, DOMAIN left, plain, ids)
    BY <1>2, TripsSound DEF SoundFrom
  <1>5. Free(w, apiQ, id)
    <2> SUFFICES ASSUME NEW m \in About(w, apiQ), m.id = id
                 PROVE  ~ Bears(m) /\ m.k # "started" /\ ~ OfBatch(m)
      BY DEF Free
    <2>1. Fits(m, saved, DOMAIN trips, DOMAIN owner)
      BY DEF SoundFrom, Sound, Listed
    <2> QED BY <2>1 DEF Fits
  <1>6. id \in ids
    BY DEF SoundFrom, Sound, Listed
  <1>7. WillStop(apiQ, plain, id)
    <2>1. id \in DOMAIN saved => saved[id] = "trip"
      BY DEF SoundFrom, Sound, Listed
    <2> QED BY <2>1, TripStops DEF SoundFrom
  <1>8. /\ calls \in Seq(Calls) /\ Sound(w, calls, saved, DOMAIN left, plain, ids)
        /\ Serves(w, apiQ, saved, DOMAIN left, plain, trip.on)
             => Serves(w, calls, saved, DOMAIN left, plain, trip.on)
        /\ Free(w, calls, id) /\ WillStop(calls, plain, id)
    <2>1. CASE DOMAIN left = {}
      BY <1>4, <1>5, <1>7, <2>1 DEF Core
    <2>2. CASE DOMAIN left # {}
      <3> DEFINE m == Msg("replan", 0, Needs(left), Query)
                 c == Call("query", 0, Routine, m)
      <3>1. m \in Replies /\ m.k = "replan" /\ m.ok /\ m.id = 0
        BY <1>3, NeedsTyped, ReplyTyped DEF Msg, BatchAnswers
      <3>2. c = AskAgain(left, Query)
        BY DEF AskAgain
      <3> HIDE DEF m, left
      <3>3. /\ c \in Calls /\ Sound(w, Append(apiQ, c), saved, DOMAIN left, plain, ids)
            /\ Serves(w, apiQ, saved, DOMAIN left, plain, trip.on)
                 => Serves(w, Append(apiQ, c), saved, DOMAIN left, plain, trip.on)
        BY <1>4, <3>1, RoutineTyped, BatchCall DEF Core, BatchAnswers
      <3>4. c.reply = m /\ c.op = "query"
        BY DEF Call
      <3> HIDE DEF c
      <3>5. About(w, Append(apiQ, c)) = About(w, apiQ) \cup {m}
        BY <3>3, <3>4, AboutCall DEF Core
      <3>6. Free(w, Append(apiQ, c), id)
        BY <1>5, <3>1, <3>5 DEF Free, Bears, OfBatch
      <3>7. WillStop(Append(apiQ, c), plain, id)
        BY <1>7, <3>3, <3>4, RunAppend DEF WillStop, On, Runs, Stops, Core
      <3>8. calls = Append(apiQ, c)
        BY <2>2, <3>2
      <3>9. Append(apiQ, c) \in Seq(Calls)
        BY <3>3 DEF Core
      <3> QED BY <3>3, <3>6, <3>7, <3>8, <3>9
    <2> QED BY <2>1, <2>2
  <1> HIDE DEF calls, left, rest
  <1>9. CASE ~ again
    BY <1>1, <1>2, <1>8, <1>9 DEF SoundTo, ServesTo
  <1>10. CASE again
    <2>1. Start(rest, left, b, calls, id, next)
      BY <1>1, <1>10
    <2>2. Sound(w, calls, rest, DOMAIN left, plain, ids)
      BY <1>8, EraseSound DEF rest
    <2>3. id \notin DOMAIN rest \cup DOMAIN left
      BY <1>2
    <2>4. /\ Sound(w, apiQ', saved', DOMAIN trips', plain, ids)
          /\ \A on \in BOOLEAN : Serves(w, calls, rest, DOMAIN left, plain, on)
               => Serves(w, apiQ', saved', DOMAIN trips', plain, on)
      BY <1>3, <1>6, <1>8, <2>1, <2>2, <2>3, StartSound
    <2>5. Serves(w, calls, saved, DOMAIN left, plain, trip.on)
            => Serves(w, calls, rest, DOMAIN left, plain, trip.on)
      BY EraseServes DEF rest
    <2> QED BY <1>2, <1>8, <2>4, <2>5 DEF SoundTo, ServesTo
  <1> QED BY <1>9, <1>10

LEMMA UnderWayAbout == \A k : UnderWay(k) <=> \E m \in About(msgQ, apiQ) : m.k = k
  BY DEF UnderWay, About

LEMMA LeaveTripSound ==
  ASSUME Core, trip.on \in BOOLEAN, NEW w, About(w, apiQ) \subseteq About(msgQ, apiQ), SoundFrom(w),
         NEW id \in DOMAIN saved, NEW next \in Options, NEW again \in BOOLEAN,
         LeaveTrip(id, next, again), ~ astray'
  PROVE  SoundTo(w) /\ (ServesFrom(w) => ServesTo(w))
  <1>1. IsFiniteSet(DOMAIN trips) /\ id \in Ids
    BY PartialFinite DEF Core, Partial
  <1>2. CASE Cardinality(DOMAIN trips) = 1
    <2> DEFINE m == StopMsg("tripStopped", id, next, "trip", again)
               c == Call("stopTrip", id, next, m)
    <2>1. /\ saved' = saved /\ trips' = trips /\ apiQ' = Append(apiQ, c)
          /\ ~ UnderWay("tripStopped")
      BY <1>2 DEF LeaveTrip
    <2>2. /\ c \in Calls /\ c.op = "stopTrip" /\ c.reply = m
          /\ m.k = "tripStopped" /\ m.id = id /\ m.ok
      <3>1. c \in Calls
        BY <1>1, CallTyped, StopReplyTyped DEF Modes
      <3> QED BY <3>1 DEF Call, StopMsg
    <2> HIDE DEF m, c
    <2>3. Answered(c) /\ ~ RefusedStart(m) /\ ~ Bears(m)
      BY <2>2 DEF Answered, RefusedStart, Bears
    <2>4. ASSUME NEW x \in About(w, apiQ)
          PROVE  ~ Clash(x, m)
      <3>1. Fits(x, saved, DOMAIN trips, DOMAIN owner)
        BY DEF SoundFrom, Sound, Listed
      <3>2. x.k # "tripStopped"
        BY <2>1, UnderWayAbout
      <3> QED BY <2>2, <2>3, <3>1, <3>2 DEF Fits, Clash
    <2>5. id \in DOMAIN owner
      BY DEF SoundFrom, Sound, Listed
    <2>6. Fits(m, saved, DOMAIN trips, DOMAIN owner)
      BY <2>2, <2>3, <2>5 DEF Fits
    <2>7. \A i, j \in DOMAIN trips : i = j
      BY <1>1, <1>2, FS_Singleton
    <2>8. Sound(w, Append(apiQ, c), saved, DOMAIN trips, plain, DOMAIN owner)
      BY <2>2, <2>3, <2>4, <2>6, <2>7, CallSound DEF SoundFrom, Core
    <2>9. ServesFrom(w) => Serves(w, Append(apiQ, c), saved, DOMAIN trips, plain, trip.on)
      BY <2>2, CallServes DEF ServesFrom, Core
    <2> QED BY <2>1, <2>8, <2>9 DEF SoundTo, ServesTo
  <1>3. CASE Cardinality(DOMAIN trips) # 1
    <2>1. StopTrip(id, next, again, batchFull)
      BY <1>3 DEF LeaveTrip
    <2>2. id \in DOMAIN trips
      BY <2>1 DEF StopTrip
    <2>3. ~ \A i, j \in DOMAIN trips : i = j
      <3>1. (\A i, j \in DOMAIN trips : i = j) => DOMAIN trips = {id}
        BY <2>2
      <3> QED BY <1>3, <3>1, FS_Singleton
    <2>4. \A m \in About(w, apiQ) : ~ OfBatch(m)
      BY <2>3 DEF SoundFrom, Sound, Listed
    <2>5. /\ SoundTo(w)
          /\ Serves(w, apiQ, saved, DOMAIN trips \ {id}, plain, trip.on) => ServesTo(w)
      BY <2>1, <2>2, <2>4, StopTripSound
    <2>6. ServesFrom(w) => Serves(w, apiQ, saved, DOMAIN trips \ {id}, plain, trip.on)
      BY <2>2, TripsServe DEF ServesFrom
    <2> QED BY <2>5, <2>6
  <1> QED BY <1>2, <1>3

LEMMA LeaveSound ==
  ASSUME Core, trip.on \in BOOLEAN, NEW w, About(w, apiQ) \subseteq About(msgQ, apiQ), SoundFrom(w),
         NEW id, NEW next \in Options, NEW again \in BOOLEAN, Leave(id, next, again), ~ astray'
  PROVE  SoundTo(w) /\ (ServesFrom(w) => ServesTo(w))
  <1>1. CASE id \notin DOMAIN saved
    BY <1>1 DEF Leave, adapterVars, SoundFrom, SoundTo, ServesFrom, ServesTo
  <1>2. CASE id \in DOMAIN saved \cap DOMAIN trips
    <2>1. LeaveTrip(id, next, again)
      BY <1>2 DEF Leave
    <2> QED BY <1>2, <2>1, LeaveTripSound
  <1>3. CASE id \in DOMAIN saved /\ id \notin DOMAIN trips
    <2>1. StopPlain(id, next, again)
      BY <1>3 DEF Leave
    <2> QED BY <1>3, <2>1, StopPlainSound
  <1> QED BY <1>1, <1>2, <1>3

\* The same of a call that is known from the queue it is put on.
LEMMA BatchCalled ==
  ASSUME NEW w, apiQ \in Seq(Calls), NEW c, apiQ' = Append(apiQ, c), apiQ' \in Seq(Calls),
         NEW t, Sound(w, apiQ, saved, t, plain, DOMAIN owner),
         c.op \in {"startTrip", "query"} \/ t = {},
         c.op \in {"startTrip", "query", "stopTrip"},
         c.reply.k \in BatchAnswers, c.reply.ok, c.reply.id = 0
  PROVE  /\ Sound(w, apiQ', saved, t, plain, DOMAIN owner)
         /\ trip.on \in BOOLEAN /\ Serves(w, apiQ, saved, t, plain, trip.on)
              => Serves(w, apiQ', saved, t, plain, trip.on)
  <1>1. c \in Calls
    <2>1. Append(apiQ, c)[Len(apiQ) + 1] = c /\ Len(apiQ) + 1 \in DOMAIN Append(apiQ, c)
      OBVIOUS
    <2> QED BY <2>1
  <1>2. c.reply.k \notin {"start", "joins", "stopped", "started", "tripStarted", "tripStopped", "remove"}
    BY DEF BatchAnswers
  <1>3. ~ Bears(c.reply) /\ ~ OfBatch(c.reply) /\ ~ RefusedStart(c.reply)
    BY <1>2 DEF Bears, OfBatch, RefusedStart
  <1>4. \A x : ~ Clash(x, c.reply)
    BY <1>2, <1>3 DEF Clash
  <1>5. Fits(c.reply, saved, t, DOMAIN owner) /\ Answered(c)
    BY <1>2, <1>3 DEF Fits, Answered
  <1>6. Sound(w, Append(apiQ, c), saved, t, plain, DOMAIN owner)
    BY <1>1, <1>3, <1>4, <1>5, CallSound
  <1>7. trip.on \in BOOLEAN /\ Serves(w, apiQ, saved, t, plain, trip.on)
          => Serves(w, Append(apiQ, c), saved, t, plain, trip.on)
    BY <1>1, CallServes
  <1> QED BY <1>6, <1>7

\* What the message that is taken says.
LEMMA Taken ==
  ASSUME Rest, SoundFrom(msgQ), NEW k, Receive(k)
  PROVE  /\ msgQ' = Tail(msgQ) /\ msgQ # << >> /\ msgQ \in Queued /\ Tail(msgQ) \in Queued
         /\ Head(msgQ).k = k /\ Head(msgQ) \in About(msgQ, apiQ)
         /\ About(Tail(msgQ), apiQ) \subseteq About(msgQ, apiQ)
         /\ Fits(Head(msgQ), saved, DOMAIN trips, DOMAIN owner)
         /\ \A x \in About(Tail(msgQ), apiQ) : ~ Clash(Head(msgQ), x)
         /\ SoundFrom(Tail(msgQ))
         /\ k \notin {"started", "tripStarted", "tripStopped"} /\ ServesFrom(msgQ)
              => ServesFrom(Tail(msgQ))
  <1>1. msgQ' = Tail(msgQ) /\ msgQ # << >> /\ msgQ \in Queued /\ Tail(msgQ) \in Queued /\ Head(msgQ).k = k
    BY HeadTyped DEF Receive, AtHead, Rest
  <1>2. Head(msgQ) \in About(msgQ, apiQ) /\ About(Tail(msgQ), apiQ) \subseteq About(msgQ, apiQ)
    BY <1>1, AboutTail
  <1>3. \A x \in About(Tail(msgQ), apiQ) : ~ Clash(Head(msgQ), x)
    BY <1>1, OrderTail DEF SoundFrom, Sound, Listed
  <1>4. SoundFrom(Tail(msgQ))
    BY <1>1, TakeSound DEF SoundFrom
  <1>5. k \notin {"started", "tripStarted", "tripStopped"} /\ ServesFrom(msgQ) => ServesFrom(Tail(msgQ))
    BY <1>1, TakeServes DEF ServesFrom, RefusedStart, RefusedBatch
  <1> QED BY <1>1, <1>2, <1>3, <1>4, <1>5 DEF SoundFrom, Sound, Listed

\* A session that the message taken bears starts.
LEMMA BornSound ==
  ASSUME Core, Rest, SoundFrom(msgQ), NEW k, Receive(k), Bears(Head(msgQ)),
         Head(msgQ).id \in Ids, Head(msgQ).opts \in Options, NEW b,
         Start(saved, trips, b, apiQ, Head(msgQ).id, Head(msgQ).opts)
  PROVE  SoundTo(msgQ') /\ (ServesFrom(msgQ) => ServesTo(msgQ'))
  <1> DEFINE m == Head(msgQ)
             w == Tail(msgQ)
  <1>1. /\ msgQ' = w /\ m.k = k /\ SoundFrom(w)
        /\ Fits(m, saved, DOMAIN trips, DOMAIN owner)
        /\ \A x \in About(w, apiQ) : ~ Clash(m, x)
    BY Taken
  <1>2. ServesFrom(msgQ) => ServesFrom(w)
    <2>1. k \notin {"started", "tripStarted", "tripStopped"}
      BY <1>1 DEF Bears
    <2> QED BY <2>1, Taken
  <1>3. /\ Bears(m) /\ m.id \in Ids /\ m.opts \in Options
        /\ Start(saved, trips, b, apiQ, m.id, m.opts)
    OBVIOUS
  <1> HIDE DEF m, w
  <1>4. m.id \in DOMAIN owner /\ m.id \notin DOMAIN saved \cup DOMAIN trips
    <2>1. m.k # "remove" /\ m.id # 0
      BY <1>3 DEF Bears, Ids
    <2> QED BY <1>1, <1>3, <2>1 DEF Fits
  <1>5. Free(w, apiQ, m.id)
    BY <1>1, <1>3 DEF Free, Clash
  <1>6. trip.on \in BOOLEAN
    BY DEF Rest
  <1>7. /\ Sound(w, apiQ', saved', DOMAIN trips', plain, DOMAIN owner)
        /\ \A on \in BOOLEAN : Serves(w, apiQ, saved, DOMAIN trips, plain, on)
             => Serves(w, apiQ', saved', DOMAIN trips', plain, on)
    BY <1>1, <1>3, <1>4, <1>5, StartSound DEF Core, SoundFrom
  <1> QED BY <1>1, <1>2, <1>6, <1>7 DEF SoundTo, ServesFrom, ServesTo

LEMMA CommandsSound ==
  ASSUME Core, Rest, SoundFrom(msgQ), ~ astray',
         StartBatching \/ UpdateBatchingOptions \/ StopBatching
  PROVE  SoundTo(msgQ') /\ (ServesFrom(msgQ) => ServesTo(msgQ'))
  <1> DEFINE m == Head(msgQ)
             w == Tail(msgQ)
  <1>0. trip.on \in BOOLEAN
    BY DEF Rest
  <1>1. CASE StartBatching
    <2>1. Receive("start") /\ Head(msgQ).k = "start"
      BY <1>1 DEF StartBatching, Command, Receive, AtHead
    <2>2. m.id \in Ids /\ m.opts \in Options
      BY <2>1, HeadTyped, SessionFields DEF Receive, Commands
    <2>3. CASE owner[m.id] \in clientData
      <3>1. Start(saved, trips, batchFull, apiQ, m.id, m.opts)
        BY <1>1, <2>3 DEF StartBatching
      <3> QED BY <2>1, <2>2, <3>1, BornSound DEF Bears
    <2>4. CASE owner[m.id] \notin clientData
      <3>1. UNCHANGED <<apiQ, adapterVars>>
        BY <1>1, <2>4 DEF StartBatching
      <3>2. msgQ' = w /\ SoundFrom(w) /\ (ServesFrom(msgQ) => ServesFrom(w))
        BY <2>1, Taken
      <3> QED BY <3>1, <3>2 DEF adapterVars, SoundFrom, SoundTo, ServesFrom, ServesTo
    <2> QED BY <2>3, <2>4
  <1>2. CASE UpdateBatchingOptions \/ StopBatching
    <2>1. PICK k \in {"update", "stop"}, next \in Options, again \in BOOLEAN :
            Receive(k) /\ Leave(m.id, next, again)
      <3>1. CASE UpdateBatchingOptions
        <4>1. Receive("update") /\ Leave(m.id, m.opts, TRUE)
          BY <3>1 DEF UpdateBatchingOptions, Command
        <4>2. m.opts \in Options
          BY <4>1, HeadTyped, SessionFields DEF Receive, Commands
        <4> QED BY <4>1, <4>2
      <3>2. CASE StopBatching
        BY <3>2, RoutineTyped DEF StopBatching, Command
      <3> QED BY <1>2, <3>1, <3>2
    <2>2. /\ msgQ' = w /\ SoundFrom(w) /\ About(w, apiQ) \subseteq About(msgQ, apiQ)
          /\ ServesFrom(msgQ) => ServesFrom(w)
      BY <2>1, Taken
    <2> HIDE DEF m, w
    <2>3. SoundTo(w) /\ (ServesFrom(w) => ServesTo(w))
      BY <1>0, <2>1, <2>2, LeaveSound
    <2> QED BY <2>2, <2>3
  <1> QED BY <1>1, <1>2

LEMMA SweepSound ==
  ASSUME Core, Rest, SoundFrom(msgQ), ~ astray', SweepSession
  PROVE  SoundTo(msgQ') /\ (ServesFrom(msgQ) => ServesTo(msgQ'))
  <1>1. PICK id \in sweep \ {0} :
          /\ IF saved[id] = "trip" THEN LeaveTrip(id, Routine, FALSE) ELSE StopPlain(id, Routine, FALSE)
          /\ UNCHANGED <<clientVars, msgQ, pending, capsKnown, clientData, engineVars>>
    BY DEF SweepSession
  <1>2. id \in DOMAIN saved /\ trip.on \in BOOLEAN
    BY DEF Rest
  <1>3. CASE saved[id] = "trip"
    BY <1>1, <1>2, <1>3, LeaveTripSound, RoutineTyped
  <1>4. CASE saved[id] # "trip"
    <2>1. id \notin DOMAIN trips
      BY <1>2, <1>4 DEF SoundFrom, Sound, Listed
    <2> QED BY <1>1, <1>2, <1>4, <2>1, StopPlainSound, RoutineTyped
  <1> QED BY <1>3, <1>4

LEMMA StartAnswersSound ==
  ASSUME Core, Rest, RefusedStops, SoundFrom(msgQ), ~ unserved, ~ astray',
         Started \/ Stopped \/ TripStarted
  PROVE  SoundTo(msgQ') /\ (ServesFrom(msgQ) => ServesTo(msgQ'))
  <1> DEFINE m == Head(msgQ)
             w == Tail(msgQ)
  <1>1. CASE Started
    <2>1. Receive("started") /\ UNCHANGED <<apiQ, trips>>
      BY <1>1 DEF Started, Reply
    <2>2. /\ msgQ' = w /\ msgQ # << >> /\ msgQ \in Queued /\ m.k = "started" /\ SoundFrom(w)
      BY <2>1, Taken
    <2>3. CASE m.ok
      <3>1. saved' = saved
        BY <1>1, <2>3 DEF Started
      <3>2. ServesFrom(msgQ) => ServesFrom(w)
        BY <2>2, <2>3, TakeServes DEF ServesFrom, RefusedStart, RefusedBatch
      <3> QED BY <2>1, <2>2, <3>1, <3>2 DEF SoundFrom, SoundTo, ServesFrom, ServesTo
    <2>4. CASE ~ m.ok
      <3>1. saved' = Without(saved, m.id)
        BY <1>1, <2>4 DEF Started
      <3>2. RefusedStart(m) /\ m = msgQ[1] /\ 1 \in DOMAIN msgQ
        BY <2>2, <2>4, TailFacts DEF RefusedStart, Queued
      <3>3. WillStop(apiQ, plain, m.id)
        BY <3>2 DEF SoundFrom, Sound, Running
      <3> HIDE DEF w
      <3>4. Sound(w, apiQ, Without(saved, m.id), DOMAIN trips, plain, DOMAIN owner)
        BY <2>2, <3>3, EraseSound DEF SoundFrom
      <3>5. ServesFrom(msgQ) => Serves(w, apiQ, Without(saved, m.id), DOMAIN trips, plain, trip.on)
        BY <2>2, <3>2, TakeServes DEF ServesFrom, w
      <3> QED BY <2>1, <2>2, <3>1, <3>4, <3>5 DEF SoundTo, ServesTo
    <2> QED BY <2>3, <2>4
  <1>2. CASE Stopped
    <2>1. Receive("stopped")
      BY <1>2 DEF Stopped, Reply
    <2>2. /\ msgQ' = w /\ msgQ # << >> /\ msgQ \in Queued /\ m.k = "stopped" /\ SoundFrom(w)
          /\ ServesFrom(msgQ) => ServesFrom(w)
      BY <2>1, Taken
    <2>3. m.id \in Ids /\ m.opts \in Options /\ m.ok \in BOOLEAN
      BY <2>1, HeadTyped, SessionFields DEF Receive, SessionAnswers
    <2>4. m.ok
      <3>1. m = msgQ[1] /\ 1 \in DOMAIN msgQ
        BY <2>2, TailFacts DEF Queued
      <3> QED BY <2>2, <3>1 DEF RefusedStops, RefusedStop
    <2>5. CASE m.again
      <3>1. \E b : Start(saved, trips, b, apiQ, m.id, m.opts)
        BY <1>2, <2>4, <2>5 DEF Stopped
      <3> QED BY <2>1, <2>2, <2>3, <2>5, <3>1, BornSound DEF Bears
    <2>6. CASE ~ m.again
      <3>1. UNCHANGED <<apiQ, saved, trips>>
        BY <1>2, <2>4, <2>6 DEF Stopped
      <3> QED BY <2>2, <3>1 DEF SoundFrom, SoundTo, ServesFrom, ServesTo
    <2> QED BY <2>5, <2>6
  <1>3. CASE TripStarted
    <2>1. Receive("tripStarted") /\ UNCHANGED apiQ
      BY <1>3 DEF TripStarted, Reply
    <2>2. /\ msgQ' = w /\ msgQ # << >> /\ msgQ \in Queued /\ m.k = "tripStarted" /\ SoundFrom(w)
          /\ Fits(m, saved, DOMAIN trips, DOMAIN owner)
      BY <2>1, Taken
    <2>3. CASE m.ok
      <3>1. UNCHANGED <<saved, trips>>
        BY <1>3, <2>3 DEF TripStarted
      <3>2. ServesFrom(msgQ) => ServesFrom(w)
        BY <2>2, <2>3, TakeServes DEF ServesFrom, RefusedStart, RefusedBatch
      <3> QED BY <2>1, <2>2, <3>1, <3>2 DEF SoundFrom, SoundTo, ServesFrom, ServesTo
    <2>4. CASE ~ m.ok
      <3>1. saved' = Without(saved, m.id) /\ DOMAIN trips' = {}
        BY <1>3, <2>4 DEF TripStarted
      <3>2. WillStop(apiQ, plain, m.id)
        <4>1. m.id \in DOMAIN saved => saved[m.id] = "trip"
          BY <2>2 DEF Fits
        <4> QED BY <4>1, TripStops DEF SoundFrom
      <3>3. ~ RefusedStart(m)
        BY <2>2 DEF RefusedStart
      <3>4. ServesFrom(msgQ) => Serves(w, apiQ, saved, {}, plain, trip.on)
        BY <2>2, <3>3, TakeServes DEF ServesFrom
      <3> HIDE DEF w
      <3>5. Sound(w, apiQ, Without(saved, m.id), {}, plain, DOMAIN owner)
        BY <2>2, <3>2, EraseSound, TripsSound DEF SoundFrom
      <3>6. ServesFrom(msgQ) => Serves(w, apiQ, Without(saved, m.id), {}, plain, trip.on)
        BY <3>4, EraseServes
      <3> QED BY <2>1, <2>2, <3>1, <3>5, <3>6 DEF SoundTo, ServesTo
    <2> QED BY <2>3, <2>4
  <1> QED BY <1>1, <1>2, <1>3

LEMMA JoinsSound ==
  ASSUME Core, Rest, SoundFrom(msgQ), ~ astray', Joins, Core'
  PROVE  SoundTo(msgQ') /\ (ServesFrom(msgQ) => ServesTo(msgQ'))
  <1> DEFINE m == Head(msgQ)
             w == Tail(msgQ)
             t == DOMAIN trips'
  <1>1. Receive("joins") /\ saved' = saved
    BY DEF Joins, Reply
  <1>2. /\ msgQ' = w /\ m.k = "joins" /\ SoundFrom(w) /\ (ServesFrom(msgQ) => ServesFrom(w))
        /\ About(w, apiQ) \subseteq About(msgQ, apiQ)
        /\ Fits(m, saved, DOMAIN trips, DOMAIN owner)
        /\ \A x \in About(w, apiQ) : ~ Clash(m, x)
    BY <1>1, Taken
  <1>3. m.id \in Ids
    BY <1>1, HeadTyped, SessionFields DEF Receive, SessionAnswers
  <1>4. DOMAIN trips # {} /\ \A x \in About(w, apiQ) : ~ OfBatch(x)
    <2>1. DOMAIN trips # {} /\ ~ UnderWay("tripStarted") /\ ~ UnderWay("tripStopped")
      BY DEF Joins
    <2> QED BY <1>2, <2>1, UnderWayAbout DEF OfBatch
  <1>5. /\ t = DOMAIN trips \/ t = DOMAIN trips \cup {m.id}
        /\ \/ apiQ' = apiQ
           \/ \E plan : apiQ' = Append(apiQ, Call("startTrip", 0, plan, Ignore))
    BY DEF Joins, With
  <1>6. Bears(m) /\ m.id # 0 /\ m.k # "remove"
    BY <1>2, <1>3 DEF Bears, Ids
  <1> HIDE DEF m, w, t
  <1>7. Sound(w, apiQ, saved, t, plain, DOMAIN owner)
    <2>1. m.id \in DOMAIN owner /\ m.id \notin DOMAIN saved
      BY <1>2, <1>6 DEF Fits
    <2>2. \A x \in About(w, apiQ) : x.id = m.id => ~ Bears(x) /\ x.k # "started"
      BY <1>2, <1>6 DEF Clash
    <2>3. Sound(w, apiQ, saved, DOMAIN trips \cup {m.id}, plain, DOMAIN owner)
      BY <1>2, <1>4, <2>1, <2>2, JoinSound DEF SoundFrom
    <2> QED BY <1>2, <1>5, <2>3 DEF SoundFrom
  <1>8. ServesFrom(w) => Serves(w, apiQ, saved, t, plain, trip.on)
    BY <1>4, TripsServe DEF ServesFrom
  <1>9. /\ Sound(w, apiQ', saved, t, plain, DOMAIN owner)
        /\ ServesFrom(w) => Serves(w, apiQ', saved, t, plain, trip.on)
    <2>1. CASE apiQ' = apiQ
      BY <1>7, <1>8, <2>1
    <2>2. ASSUME NEW plan, apiQ' = Append(apiQ, Call("startTrip", 0, plan, Ignore))
          PROVE  /\ Sound(w, apiQ', saved, t, plain, DOMAIN owner)
                 /\ ServesFrom(w) => Serves(w, apiQ', saved, t, plain, trip.on)
      <3> DEFINE c == Call("startTrip", 0, plan, Ignore)
      <3>1. /\ apiQ' = Append(apiQ, c) /\ c.op = "startTrip" /\ c.reply.k = "ignore" /\ c.reply.ok
            /\ c.reply.id = 0
        BY <2>2 DEF Call, Ignore, Msg
      <3> HIDE DEF c
      <3>2. trip.on \in BOOLEAN
        BY DEF Rest
      <3>3. apiQ \in Seq(Calls) /\ apiQ' \in Seq(Calls) /\ "ignore" \in BatchAnswers
        BY DEF Core, BatchAnswers
      <3> QED BY <1>7, <1>8, <3>1, <3>2, <3>3, BatchCalled
    <2> QED BY <1>5, <2>1, <2>2
  <1> QED BY <1>1, <1>2, <1>9 DEF SoundTo, ServesTo, t

LEMMA TripStoppedSound ==
  ASSUME Core, Rest, SoundFrom(msgQ), ~ astray', TripStopped
  PROVE  SoundTo(msgQ') /\ (ServesFrom(msgQ) => ServesTo(msgQ'))
  <1> DEFINE m == Head(msgQ)
             w == Tail(msgQ)
  <1>1. Receive("tripStopped") /\ \E b : StopTrip(m.id, m.opts, m.again, b)
    BY DEF TripStopped, Reply
  <1>2. /\ msgQ' = w /\ msgQ # << >> /\ msgQ \in Queued /\ m.k = "tripStopped" /\ SoundFrom(w)
        /\ m \in About(msgQ, apiQ)
        /\ \A x \in About(w, apiQ) : ~ Clash(m, x)
    BY <1>1, Taken
  <1>3. m.id \in Ids /\ m.opts \in Options /\ m.again \in BOOLEAN /\ trip.on \in BOOLEAN
    BY <1>1, HeadTyped, SessionFields DEF Receive, SessionAnswers, Rest
  <1> HIDE DEF m
  <1>4. m.id \in DOMAIN trips
    BY <1>1 DEF StopTrip
  <1>5. DOMAIN trips \ {m.id} = {}
    BY <1>2, <1>4 DEF SoundFrom, Sound, Listed, OfBatch
  <1>6. \A x \in About(w, apiQ) : x.id = m.id => ~ OfBatch(x)
    BY <1>2 DEF Clash, OfBatch
  <1>7. ServesFrom(msgQ) => Serves(w, apiQ, saved, {}, plain, trip.on)
    <2>1. ~ RefusedStart(m)
      BY <1>2 DEF RefusedStart
    <2> QED BY <1>2, <2>1, TakeServes DEF ServesFrom, m
  <1> HIDE DEF w
  <1>8. /\ SoundTo(w)
        /\ Serves(w, apiQ, saved, DOMAIN trips \ {m.id}, plain, trip.on) => ServesTo(w)
    BY <1>1, <1>2, <1>3, <1>4, <1>6, StopTripSound
  <1> QED BY <1>2, <1>5, <1>7, <1>8

LEMMA BatchAnswersSound ==
  ASSUME Core, Rest, SoundFrom(msgQ), Core', CompletedTrips \/ Replan \/ Replanned \/ Resumed
  PROVE  SoundTo(msgQ') /\ (ServesFrom(msgQ) => ServesTo(msgQ'))
  <1> DEFINE w == Tail(msgQ)
             t == DOMAIN trips'
  <1>1. PICK k \in {"completed", "replan", "replanned", "resumed"} : Receive(k)
    BY DEF CompletedTrips, Replan, Replanned, Resumed, Reply
  <1>2. msgQ' = w /\ SoundFrom(w) /\ (ServesFrom(msgQ) => ServesFrom(w))
    BY <1>1, Taken
  <1>3. saved' = saved /\ t \subseteq DOMAIN trips
    <2>1. CASE CompletedTrips
      BY <2>1 DEF CompletedTrips, Restrict
    <2>2. CASE Replan \/ Resumed
      BY <2>2 DEF Replan, Resumed, adapterVars
    <2>3. CASE Replanned
      <3>1. CASE Head(msgQ).ok
        BY <2>3, <3>1 DEF Replanned
      <3>2. CASE ~ Head(msgQ).ok
        BY <2>3, <3>2 DEF Replanned
      <3> QED BY <2>3, <3>1, <3>2 DEF Replanned
    <2> QED BY <2>1, <2>2, <2>3
  <1>4. \/ apiQ' = apiQ
        \/ \E c : /\ apiQ' = Append(apiQ, c) /\ c.op \in {"startTrip", "query", "stopTrip"}
                  /\ c.op = "stopTrip" => t = {}
                  /\ c.reply.k \in BatchAnswers /\ c.reply.ok /\ c.reply.id = 0
    <2>1. CASE CompletedTrips
      <3> DEFINE acc == Head(msgQ).acc
                 moved == Moved(trips, acc)
      <3>1. /\ trips' = Restrict(moved, DOMAIN trips \ Completed(moved))
            /\ \/ apiQ' = apiQ
               \/ /\ Completed(moved) = DOMAIN trips
                  /\ apiQ' = Append(apiQ, Call("stopTrip", 0, Routine, Ignore))
               \/ apiQ' = Append(apiQ, AskAgain(trips', acc))
        BY <2>1 DEF CompletedTrips
      <3> HIDE DEF moved
      <3>2. Completed(moved) = DOMAIN trips => t = {}
        BY <3>1 DEF Restrict
      <3> QED BY <3>1, <3>2 DEF Call, Ignore, AskAgain, Msg, BatchAnswers
    <2>2. CASE Replan
      <3>1. \/ apiQ' = apiQ
            \/ \E o : apiQ' = Append(apiQ, Call("startTrip", 0, o, Msg("replanned", 0, o, Head(msgQ).acc)))
        BY <2>2 DEF Replan
      <3>2. \A o, acc : LET c == Call("startTrip", 0, o, Msg("replanned", 0, o, acc))
                        IN  c.op = "startTrip" /\ c.reply.k \in BatchAnswers /\ c.reply.ok /\ c.reply.id = 0
        BY DEF Call, Msg, BatchAnswers
      <3> QED BY <3>1, <3>2
    <2>3. CASE Replanned \/ Resumed
      BY <2>3 DEF Replanned, Resumed
    <2> QED BY <2>1, <2>2, <2>3
  <1> HIDE DEF w, t
  <1>5. Sound(w, apiQ, saved, t, plain, DOMAIN owner)
    BY <1>2, <1>3, TripsSound DEF SoundFrom
  <1>6. ServesFrom(w) => Serves(w, apiQ, saved, t, plain, trip.on)
    BY <1>3, TripsServe DEF ServesFrom
  <1>7. trip.on \in BOOLEAN /\ apiQ \in Seq(Calls) /\ apiQ' \in Seq(Calls)
    BY DEF Rest, Core
  <1>8. /\ Sound(w, apiQ', saved, t, plain, DOMAIN owner)
        /\ ServesFrom(w) => Serves(w, apiQ', saved, t, plain, trip.on)
    BY <1>4, <1>5, <1>6, <1>7, BatchCalled
  <1> QED BY <1>2, <1>3, <1>8 DEF SoundTo, ServesTo, t

\* handleEngineUpEvent puts a start of every plain session behind the calls.
LEMMA InOrderCovers ==
  ASSUME NEW S, S \subseteq Ids, NEW ids \in InOrder(S)
  PROVE  \A i \in S : \E n \in DOMAIN ids : ids[n] = i
  <1> DEFINE c == Cardinality(S)
             I == 1 .. c
  <1>1. IsFiniteSet(S)
    <2>1. IsFiniteSet(Ids)
      BY FS_Interval, BatchingAssumption DEF Ids
    <2> QED BY <2>1, FS_Subset
  <1>2. c \in Nat
    BY <1>1, FS_CardinalityType
  <1>3. /\ ids \in [I -> S]
        /\ \A m, n \in DOMAIN ids : m < n => ids[m] # ids[n]
    BY DEF InOrder
  <1>4. IsFiniteSet(I) /\ Cardinality(I) = c
    BY <1>2, FS_Interval
  <1> HIDE DEF c
  <1>5. \A m, n \in I : ids[m] = ids[n] => m = n
    <2>1. \A m, n \in I : m < n \/ n < m \/ m = n
      BY <1>2
    <2> QED BY <1>3, <2>1
  <1>6. ids \in Injection(I, S)
    BY <1>3, <1>5 DEF Injection, IsInjective
  <1>7. Cardinality(I) = Cardinality(S)
    BY <1>4 DEF c
  <1>8. ids \in Surjection(I, S)
    BY <1>1, <1>6, <1>7, FS_Injection
  <1> QED BY <1>3, <1>8 DEF Surjection

LEMMA AgainSound ==
  ASSUME NEW w, NEW q \in Seq(Calls), NEW r \in Seq(Calls), NEW s, NEW t, NEW e, NEW ids,
         Sound(w, q, s, t, e, ids), \A n \in DOMAIN w : ~ RefusedStart(w[n]),
         \A n \in DOMAIN r : /\ r[n].op = "start" /\ r[n].reply = Ignore
                             /\ r[n].id \in DOMAIN s /\ s[r[n].id] # "trip"
                             /\ r[n].opts.mode = s[r[n].id],
         \A i \in DOMAIN s : s[i] # "trip" => \E n \in DOMAIN r : r[n].id = i
  PROVE  /\ Sound(w, q \o r, s, t, e, ids)
         /\ \A on : Serves(w, q \o r, s, {}, e, on)
  <1> DEFINE a == q \o r
             l == Len(q)
  <1>1. /\ l \in Nat /\ DOMAIN q \subseteq Nat /\ DOMAIN r \subseteq Nat /\ DOMAIN a \subseteq Nat
        /\ \A n \in DOMAIN q : n \in DOMAIN a /\ a[n] = q[n] /\ n <= l
        /\ \A n \in DOMAIN r : n + l \in DOMAIN a /\ a[n + l] = r[n] /\ n + l > l
        /\ \A n \in DOMAIN a : n <= l => n \in DOMAIN q
        /\ \A n \in DOMAIN a : n > l => n - l \in DOMAIN r /\ a[n] = r[n - l]
    OBVIOUS
  <1> HIDE DEF a, l
  <1>2. \A n \in DOMAIN a : n <= l \/ n > l
    BY <1>1
  <1>3. \A n \in DOMAIN a : n > l =>
          /\ a[n].op = "start" /\ a[n].reply = Ignore
          /\ a[n].id \in DOMAIN s /\ s[a[n].id] # "trip" /\ a[n].opts.mode = s[a[n].id]
    BY <1>1
  <1>4. Ignore.k = "ignore" /\ Ignore.ok /\ Ignore.id = 0
    BY DEF Ignore, Msg
  <1>5. \A x : ~ Clash(x, Ignore) /\ ~ Clash(Ignore, x)
    BY <1>4 DEF Clash, Bears, OfBatch, RefusedStart
  <1>6. Listed(w, a, s, t, ids)
    <2>1. About(w, a) \subseteq About(w, q) \cup {Ignore}
      BY <1>1, <1>2, <1>3 DEF About
    <2>2. Fits(Ignore, s, t, ids) /\ ~ OfBatch(Ignore)
      BY <1>4 DEF Fits, Bears, OfBatch
    <2>3. \A m \in DOMAIN w, n \in DOMAIN a : ~ Clash(w[m], a[n].reply)
      BY <1>1, <1>2, <1>3, <1>5 DEF Sound, Listed, Ordered
    <2>4. \A m, n \in DOMAIN a : m < n => ~ Clash(a[m].reply, a[n].reply)
      BY <1>1, <1>2, <1>3, <1>5 DEF Sound, Listed, Ordered
    <2>5. Ordered(w, a)
      BY <2>3, <2>4 DEF Sound, Listed, Ordered
    <2> QED BY <2>1, <2>2, <2>5 DEF Sound, Listed
  <1>7. ASSUME NEW i, NEW m, WillRun(a, e, i, m)
        PROVE  WillRun(q, e, i, m) \/ (i \in DOMAIN s /\ s[i] = m /\ m # "trip")
    <2>1. (\A n \in DOMAIN a : ~ Stops(a[n], i)) => \A n \in DOMAIN q : ~ Stops(q[n], i)
      BY <1>1
    <2>2. ASSUME NEW n \in DOMAIN a, Runs(a[n], i), a[n].opts.mode = m,
                 \A k \in DOMAIN a : k > n => ~ Stops(a[k], i)
          PROVE  WillRun(q, e, i, m) \/ (i \in DOMAIN s /\ s[i] = m /\ m # "trip")
      <3>1. CASE n > l
        BY <1>3, <2>2, <3>1 DEF Runs
      <3>2. CASE n <= l
        <4>1. n \in DOMAIN q /\ q[n] = a[n] /\ \A k \in DOMAIN q : k > n => ~ Stops(q[k], i)
          BY <1>1, <2>2, <3>2
        <4> QED BY <2>2, <4>1 DEF WillRun
      <3> QED BY <1>2, <3>1, <3>2
    <2> QED BY <1>7, <2>1, <2>2 DEF WillRun
  <1>8. Running(w, a, s, e)
    <2>1. \A i, m : WillRun(a, e, i, m) => m # "trip" /\ i \in DOMAIN s /\ s[i] = m
      BY <1>7 DEF Sound, Running
    <2>2. \A n \in DOMAIN a : Answered(a[n])
      BY <1>1, <1>2, <1>3, <1>4 DEF Sound, Running, Answered
    <2>3. ASSUME NEW n \in DOMAIN a, a[n].reply.k = "started", NEW i, i = a[n].reply.id
          PROVE  /\ i \in DOMAIN e => \E k \in DOMAIN a : k < n /\ Stops(a[k], i)
                 /\ \A j \in DOMAIN a : j < n /\ Runs(a[j], i)
                                          => \E k \in DOMAIN a : j < k /\ k < n /\ Stops(a[k], i)
      <3>1. n <= l
        BY <1>2, <1>3, <1>4, <2>3
      <3>2. n \in DOMAIN q /\ q[n] = a[n]
        BY <1>1, <3>1
      <3>3. /\ i \in DOMAIN e => \E k \in DOMAIN q : k < n /\ Stops(q[k], i)
            /\ \A j \in DOMAIN q : j < n /\ Runs(q[j], i)
                                     => \E k \in DOMAIN q : j < k /\ k < n /\ Stops(q[k], i)
        BY <2>3, <3>2 DEF Sound, Running, Fresh
      <3>4. ASSUME NEW j \in DOMAIN a, j < n, Runs(a[j], i)
            PROVE  \E k \in DOMAIN a : j < k /\ k < n /\ Stops(a[k], i)
        <4>1. j <= l
          BY <1>1, <3>1, <3>4
        <4>2. j \in DOMAIN q /\ q[j] = a[j]
          BY <1>1, <4>1
        <4> QED BY <1>1, <3>3, <3>4, <4>2
      <3>5. i \in DOMAIN e => \E k \in DOMAIN a : k < n /\ Stops(a[k], i)
        BY <1>1, <3>3
      <3> QED BY <3>4, <3>5
    <2>4. Fresh(a, e)
      BY <2>3 DEF Fresh
    <2> QED BY <2>1, <2>2, <2>4 DEF Running
  <1>9. ASSUME NEW i \in DOMAIN s, s[i] # "trip"
        PROVE  WillRun(a, e, i, s[i])
    <2>1. PICK n \in DOMAIN r : r[n].id = i
      BY <1>9
    <2>2. n + l \in DOMAIN a /\ n + l > l
      BY <1>1
    <2>3. Runs(a[n + l], i) /\ a[n + l].opts.mode = s[i]
      BY <1>1, <2>1 DEF Runs
    <2>4. \A k \in DOMAIN a : k > n + l => k > l
      BY <1>1, <2>2
    <2>5. \A k \in DOMAIN a : k > n + l => ~ Stops(a[k], i)
      BY <1>3, <2>4 DEF Stops
    <2> QED BY <2>2, <2>3, <2>5 DEF WillRun
  <1> QED BY <1>6, <1>8, <1>9 DEF Sound, Serves, a

-----------------------------------------------------------------------------
(* The inductive invariant of the sessions *)

\* Before the engine is known nothing is started: commands wait, in order.
Waits(m) == m.k \in Commands \cup {"remove", "engineUp"}
Idle ==
  /\ DOMAIN saved = {} /\ DOMAIN trips = {} /\ apiQ = << >> /\ ~ trip.on
  /\ \A n \in DOMAIN msgQ : Waits(msgQ[n])
  /\ \A m, n \in DOMAIN pending : m < n => ~ Clash(pending[m], pending[n])
  /\ \A m \in DOMAIN pending, n \in DOMAIN msgQ : ~ Clash(pending[m], msgQ[n])
  /\ \A n \in DOMAIN pending : pending[n].id \in DOMAIN owner
Aside == IF capsKnown THEN pending = << >> ELSE Idle

\* The engine is up, and the adapter has heard of it.
Up == link /\ \A n \in DOMAIN msgQ : msgQ[n].k # "engineUp"

\* A client is removed while its removal is the message handled.
Sweeping == sweep # {} => Head(msgQ).k = "remove"

Tidy == Aside /\ Numbered /\ Sweeping /\ SoundFrom(msgQ) /\ (Up => ServesFrom(msgQ))

LEMMA ConcatFacts ==
  ASSUME NEW S, NEW s \in Seq(S), NEW r \in Seq(S)
  PROVE  /\ s \o r \in Seq(S) /\ DOMAIN (s \o r) \subseteq Nat /\ Len(s) \in Nat
         /\ \A n \in DOMAIN (s \o r) :
              \/ n <= Len(s) /\ n \in DOMAIN s /\ (s \o r)[n] = s[n]
              \/ n > Len(s) /\ n - Len(s) \in DOMAIN r /\ (s \o r)[n] = r[n - Len(s)]
  OBVIOUS

\* The messages that waited are commands: what order they are in matters only
\* among those of one session.
LEMMA WaitsClash ==
  ASSUME NEW x, NEW y, Waits(x), Waits(y), Clash(x, y)
  PROVE  Clash(y, x) /\ ~ RefusedStart(x)
  BY DEF Waits, Commands, Clash, Bears, OfBatch, RefusedStart

LEMMA FirstUpSound ==
  ASSUME Core, Rest, SoundFrom(msgQ), Idle, EngineUp, Core'
  PROVE  SoundTo(msgQ') /\ ServesTo(msgQ')
  <1> DEFINE w == Tail(msgQ)
             v == w \o pending
             S == {i \in DOMAIN saved : saved[i] # "trip"}
  <1>1. /\ AtHead("engineUp") /\ msgQ' = v /\ saved' = saved /\ trips' = trips
        /\ DOMAIN saved = {} /\ DOMAIN trips = {} /\ apiQ = << >>
    BY DEF EngineUp, Idle
  <1>2. apiQ' = << >>
    <2>1. S = {}
      BY <1>1
    <2>2. PICK ids \in InOrder(S) : apiQ' = apiQ \o [n \in DOMAIN ids |-> Again(ids[n])]
      BY <1>1 DEF EngineUp
    <2> DEFINE calls == [n \in DOMAIN ids |-> Again(ids[n])]
    <2>3. ids \in [1 .. 0 -> {}]
      BY <2>1, <2>2, FS_EmptySet DEF InOrder
    <2>4. DOMAIN calls = {}
      BY <2>3
    <2>5. calls = << >>
      BY <2>4
    <2> HIDE DEF calls
    <2> QED BY <1>1, <2>2, <2>5 DEF calls
  <1>3. w \in Queued /\ pending \in Queued
    <2>1. Asked \subseteq Messages \cup Removals
      BY DEF Asked, Messages, Typed
    <2> QED BY <1>1, <2>1, HeadTyped DEF Rest, Queued
  <1>4. \A n \in DOMAIN w : n \in Nat /\ n + 1 \in DOMAIN msgQ /\ w[n] = msgQ[n + 1]
    BY <1>1, TailFacts DEF AtHead, Rest, Queued
  <1>5. \A n \in DOMAIN pending : Waits(pending[n])
    <2>1. \A n \in DOMAIN pending : pending[n] \in Asked
      BY DEF Rest
    <2> QED BY <2>1 DEF Asked, Typed, Waits
  <1>6. \A n \in DOMAIN w : Waits(w[n])
    BY <1>4 DEF Idle
  <1>7. /\ DOMAIN v \subseteq Nat /\ Len(w) \in Nat
        /\ \A n \in DOMAIN v :
             \/ n <= Len(w) /\ n \in DOMAIN w /\ v[n] = w[n]
             \/ n > Len(w) /\ n - Len(w) \in DOMAIN pending /\ v[n] = pending[n - Len(w)]
    BY <1>3, ConcatFacts DEF Queued
  <1>8. Ordered(w, apiQ) /\ About(w, apiQ) \subseteq About(msgQ, apiQ)
    BY <1>1, OrderTail, AboutTail DEF AtHead, Rest, SoundFrom, Sound, Listed
  <1>9. \A m \in DOMAIN w, n \in DOMAIN pending : ~ Clash(w[m], pending[n])
    <2>1. \A m \in DOMAIN w, n \in DOMAIN pending : ~ Clash(pending[n], w[m])
      BY <1>4 DEF Idle
    <2> QED BY <1>5, <1>6, <2>1, WaitsClash
  <1> HIDE DEF v, w
  <1>10. ASSUME NEW m \in DOMAIN v, NEW n \in DOMAIN v, m < n
         PROVE  ~ Clash(v[m], v[n])
    <2>1. CASE n <= Len(w)
      <3>1. n \in DOMAIN w /\ v[n] = w[n] /\ m \in DOMAIN w /\ v[m] = w[m]
        BY <1>7, <1>10, <2>1
      <3> QED BY <1>8, <1>10, <3>1 DEF Ordered
    <2>2. CASE n > Len(w)
      <3>1. n - Len(w) \in DOMAIN pending /\ v[n] = pending[n - Len(w)]
        BY <1>7, <2>2
      <3>2. CASE m <= Len(w)
        BY <1>7, <1>9, <3>1, <3>2
      <3>3. CASE m > Len(w)
        <4>1. m - Len(w) \in DOMAIN pending /\ v[m] = pending[m - Len(w)]
          BY <1>7, <3>3
        <4>2. m - Len(w) < n - Len(w)
          BY <1>7, <1>10
        <4> QED BY <3>1, <4>1, <4>2 DEF Idle
      <3> QED BY <1>7, <3>2, <3>3
    <2> QED BY <1>7, <2>1, <2>2
  <1>11. Ordered(v, << >>)
    BY <1>10 DEF Ordered
  <1>12. \A n \in DOMAIN v : Waits(v[n]) /\ Fits(v[n], saved, {}, DOMAIN owner)
    <2>1. \A n \in DOMAIN w : Fits(w[n], saved, DOMAIN trips, DOMAIN owner)
      BY <1>8 DEF SoundFrom, Sound, Listed, About
    <2>2. \A n \in DOMAIN pending : Fits(pending[n], saved, DOMAIN trips, DOMAIN owner)
      <3>1. \A n \in DOMAIN pending : pending[n].id \in DOMAIN owner
        BY DEF Idle
      <3> QED BY <1>1, <1>5, <3>1 DEF Fits
    <2> QED BY <1>1, <1>5, <1>6, <1>7, <2>1, <2>2
  <1>13. \A n \in DOMAIN v : ~ OfBatch(v[n]) /\ ~ RefusedStart(v[n])
    BY <1>12 DEF Waits, Commands, OfBatch, RefusedStart
  <1>14. Listed(v, << >>, saved, {}, DOMAIN owner)
    BY <1>1, <1>11, <1>12, <1>13 DEF Listed, About
  <1>15. Running(v, << >>, saved, plain)
    BY <1>1, <1>13 DEF SoundFrom, Sound, Running
  <1>16. Serves(v, << >>, saved, {}, plain, trip.on)
    BY <1>1 DEF Serves
  <1> QED BY <1>1, <1>2, <1>14, <1>15, <1>16 DEF SoundTo, ServesTo, Sound

LEMMA NextUpSound ==
  ASSUME Core, Rest, SoundFrom(msgQ), pending = << >>, EngineUp, Core'
  PROVE  SoundTo(msgQ') /\ ServesTo(msgQ')
  <1> DEFINE w    == Tail(msgQ)
             S    == {i \in DOMAIN saved : saved[i] # "trip"}
             need == Needs(trips)
             up   == Call("startTrip", 0, need, Msg("resumed", 0, need, 0))
             t    == DOMAIN trips
  <1>1. /\ AtHead("engineUp") /\ msgQ' = w \o pending /\ saved' = saved /\ trips' = trips
    BY DEF EngineUp
  <1>2. msgQ \in Queued /\ msgQ # << >> /\ Head(msgQ).k = "engineUp" /\ w \in Queued
    BY <1>1, HeadTyped DEF AtHead, Rest
  <1>3. msgQ' = w
    BY <1>1, <1>2 DEF Queued
  <1>4. SoundFrom(w) /\ \A n \in DOMAIN w : ~ RefusedStart(w[n])
    <2>1. \A x \in About(w, apiQ) : ~ Clash(Head(msgQ), x)
      BY <1>2, OrderTail DEF SoundFrom, Sound, Listed
    <2>2. \A n \in DOMAIN w : ~ RefusedStart(w[n])
      BY <1>2, <2>1 DEF Clash, About
    <2> QED BY <1>2, <2>2, TakeSound DEF SoundFrom
  <1>5. PICK ids \in InOrder(S) :
          LET calls == apiQ \o [n \in DOMAIN ids |-> Again(ids[n])]
          IN  IF t = {} THEN apiQ' = calls ELSE apiQ' = Append(calls, up)
    BY DEF EngineUp
  <1> DEFINE again == [n \in DOMAIN ids |-> Again(ids[n])]
             calls == apiQ \o again
  <1>6. S \subseteq Ids /\ ids \in Seq(S) /\ \A i \in S : \E n \in DOMAIN ids : ids[n] = i
    BY InOrderTyped, InOrderCovers DEF Core, Partial
  <1>7. again \in Seq(Calls)
    <2>1. ASSUME NEW i \in S
          PROVE  Again(i) \in Calls
      <3>1. i \in Ids /\ saved[i] \in Modes
        BY DEF Core, Partial
      <3>2. [mode |-> saved[i], distance |-> 0, tbf |-> 0] \in Options
        BY <3>1, RoutineTyped DEF Options
      <3> QED BY <3>1, <3>2, CallTyped, RoutineTyped DEF Again
    <2>2. ids \in [1 .. Len(ids) -> S] /\ Len(ids) \in Nat /\ DOMAIN ids = 1 .. Len(ids)
      BY <1>6
    <2>3. again \in [1 .. Len(ids) -> Calls]
      BY <2>1, <2>2
    <2> QED BY <2>2, <2>3
  <1>8. \A n \in DOMAIN again : ids[n] \in S /\ again[n] = Again(ids[n])
    BY <1>6
  <1>9. \A i : /\ Again(i).op = "start" /\ Again(i).reply = Ignore
               /\ Again(i).id = i /\ Again(i).opts.mode = saved[i]
    BY DEF Again, Call
  <1>10. \A n \in DOMAIN again : /\ again[n].op = "start" /\ again[n].reply = Ignore
                                 /\ again[n].id \in DOMAIN saved /\ saved[again[n].id] # "trip"
                                 /\ again[n].opts.mode = saved[again[n].id]
    BY <1>8, <1>9
  <1>11. \A i \in DOMAIN saved : saved[i] # "trip" => \E n \in DOMAIN again : again[n].id = i
    BY <1>6, <1>8, <1>9
  <1>12. calls \in Seq(Calls)
    BY <1>7 DEF Core
  <1> HIDE DEF again
  <1>13. /\ Sound(w, calls, saved, t, plain, DOMAIN owner)
         /\ \A on : Serves(w, calls, saved, {}, plain, on)
    <2>1. Sound(w, apiQ, saved, t, plain, DOMAIN owner) /\ apiQ \in Seq(Calls)
      BY <1>4 DEF SoundFrom, Core
    <2> HIDE DEF w, t
    <2> QED BY <1>4, <1>7, <1>10, <1>11, <2>1, AgainSound
  <1> HIDE DEF calls, w, t, need
  <1>14. CASE t = {}
    <2>1. apiQ' = calls
      BY <1>5, <1>14 DEF calls, again
    <2> QED BY <1>1, <1>3, <1>13, <1>14, <2>1 DEF SoundTo, ServesTo, t
  <1>15. CASE t # {}
    <2>1. apiQ' = Append(calls, up)
      BY <1>5, <1>15 DEF calls, again
    <2>2. need \in Options /\ Msg("resumed", 0, need, 0) \in Replies
      <3>1. need \in Options
        BY NeedsTyped DEF Core, need
      <3> QED BY <3>1, ReplyTyped, RoutineTyped DEF BatchAnswers
    <2>3. up \in Calls
      BY <2>2, CallTyped
    <2>4. /\ up.op = "startTrip" /\ up.reply = Msg("resumed", 0, need, 0)
          /\ up.reply.k = "resumed" /\ up.reply.ok /\ up.reply.id = 0
      BY DEF Call, Msg
    <2>5. Sound(w, Append(calls, up), saved, t, plain, DOMAIN owner)
      BY <1>12, <1>13, <2>2, <2>4, BatchCall DEF BatchAnswers
    <2> HIDE DEF up
    <2>6. trip.on \in BOOLEAN
      BY DEF Rest
    <2>7. WillBatch(Append(calls, up), trip.on)
      BY <1>12, <2>3, <2>4, <2>6, BatchAppend
    <2>8. Serves(w, Append(calls, up), saved, {}, plain, trip.on)
      BY <1>12, <1>13, <2>3, <2>4, <2>6, CallServes
    <2>9. Serves(w, Append(calls, up), saved, t, plain, trip.on)
      BY <2>7, <2>8 DEF Serves
    <2> QED BY <1>1, <1>3, <2>1, <2>5, <2>9 DEF SoundTo, ServesTo, t
  <1> QED BY <1>14, <1>15

\* A message is posted that says nothing new of the sessions.
LEMMA PostSound ==
  ASSUME NEW w \in Queued, NEW m \in Messages \cup Removals, NEW q, NEW s, NEW t, NEW e,
         NEW ids, NEW more, Sound(w, q, s, t, e, ids), ids \subseteq more,
         ~ RefusedStart(m), ~ OfBatch(m), Fits(m, s, t, more),
         \A n \in DOMAIN w : ~ Clash(w[n], m), \A n \in DOMAIN q : ~ Clash(m, q[n].reply)
  PROVE  /\ Sound(Append(w, m), q, s, t, e, more)
         /\ \A on : Serves(w, q, s, t, e, on) => Serves(Append(w, m), q, s, t, e, on)
  <1> DEFINE v == Append(w, m)
  <1>1. /\ DOMAIN v = DOMAIN w \cup {Len(w) + 1} /\ v[Len(w) + 1] = m
        /\ \A n \in DOMAIN w : v[n] = w[n]
    BY AppendFacts DEF Queued
  <1>2. About(v, q) = About(w, q) \cup {m}
    BY AboutPost
  <1>3. Ordered(v, q)
    BY OrderPost DEF Sound, Listed
  <1> HIDE DEF v
  <1>4. \A x : Fits(x, s, t, ids) => Fits(x, s, t, more)
    BY DEF Fits
  <1>5. Listed(v, q, s, t, more)
    BY <1>2, <1>3, <1>4 DEF Sound, Listed
  <1>6. Running(v, q, s, e)
    BY <1>1 DEF Sound, Running
  <1>7. \A on : Serves(w, q, s, t, e, on) => Serves(v, q, s, t, e, on)
    BY <1>1, <1>2 DEF Serves
  <1> QED BY <1>5, <1>6, <1>7 DEF Sound, v

\* What is posted goes behind the message handled.
LEMMA HeadStays ==
  ASSUME Rest, Sweeping, sweep' = sweep,
         msgQ' = msgQ \/ \E m \in Messages \cup Removals : msgQ' = Append(msgQ, m)
  PROVE  Sweeping'
  <1>1. sweep # {} => Head(msgQ') = Head(msgQ)
    <2>1. \A m \in Messages \cup Removals : msgQ # << >> => Head(Append(msgQ, m)) = Head(msgQ)
      BY DEF Rest, Queued
    <2> QED BY <2>1 DEF Rest
  <1> QED BY <1>1 DEF Sweeping

\* A command of a client: about a session that was handed out, or the start of a
\* new one.
LEMMA CommandPosted ==
  ASSUME Core, Rest, Tidy, NEW m \in Messages \cup Removals, Waits(m), m.k # "engineUp", PostCommand(m),
         DOMAIN owner \subseteq DOMAIN owner',
         \/ DOMAIN owner' = DOMAIN owner
         \/ \E k \in Nat : DOMAIN owner' = 1 .. k,
         m.k = "remove" \/ m.id \in DOMAIN owner',
         m.k = "start" => m.id \notin DOMAIN owner /\ m.id # 0
  PROVE  Tidy'
  <1>1. /\ msgQ' = Append(msgQ, m) /\ msgQ \in Queued
        /\ UNCHANGED <<pending, apiQ, capsKnown, saved, trips, link, plain, trip>>
    BY DEF PostCommand, adapterVars, engineVars, Rest
  <1>2. ~ RefusedStart(m) /\ ~ OfBatch(m) /\ (Bears(m) <=> m.k = "start")
    BY DEF Waits, Commands, RefusedStart, OfBatch, Bears
  <1>3. m.k \notin {"started", "tripStarted", "tripStopped", "engineUp"}
    BY DEF Waits, Commands
  <1>4. \A x \in About(msgQ, apiQ) : m.k = "start" /\ x.k # "remove" => x.id # m.id
    BY DEF Tidy, SoundFrom, Sound, Listed, Fits
  <1>5. \A x \in About(msgQ, apiQ) : ~ Clash(x, m) /\ ~ Clash(m, x)
    BY <1>2, <1>3, <1>4 DEF Clash, Bears, OfBatch, RefusedStart
  <1>6. Fits(m, saved, DOMAIN trips, DOMAIN owner')
    <2>1. m.k = "start" => m.id \notin DOMAIN saved \cup DOMAIN trips
      BY DEF Tidy, SoundFrom, Sound, Listed
    <2> QED BY <1>2, <1>3, <2>1 DEF Fits
  <1>7. (\A n \in DOMAIN msgQ : ~ Clash(msgQ[n], m)) /\ \A n \in DOMAIN apiQ : ~ Clash(m, apiQ[n].reply)
    BY <1>5 DEF About
  <1>8. /\ Sound(msgQ', apiQ, saved, DOMAIN trips, plain, DOMAIN owner')
        /\ \A on : Serves(msgQ, apiQ, saved, DOMAIN trips, plain, on)
             => Serves(msgQ', apiQ, saved, DOMAIN trips, plain, on)
    BY <1>1, <1>2, <1>6, <1>7, PostSound DEF Tidy, SoundFrom
  <1>9. /\ DOMAIN msgQ' = DOMAIN msgQ \cup {Len(msgQ) + 1} /\ msgQ'[Len(msgQ) + 1] = m
        /\ \A n \in DOMAIN msgQ : msgQ'[n] = msgQ[n]
    BY <1>1, AppendFacts DEF Queued
  <1>10. Up' => Up
    BY <1>1, <1>9 DEF Up
  <1>11. Aside'
    <2>1. CASE capsKnown
      BY <1>1, <2>1 DEF Aside, Tidy
    <2>2. CASE ~ capsKnown
      <3>1. Idle
        BY <2>2 DEF Aside, Tidy
      <3>2. \A n \in DOMAIN pending : pending[n].id \in DOMAIN owner /\ pending[n].k \in Commands
        <4>1. \A n \in DOMAIN pending : pending[n] \in Asked
          BY DEF Rest
        <4> QED BY <3>1, <4>1 DEF Asked, Typed, Idle
      <3>3. \A n \in DOMAIN pending : ~ Clash(pending[n], m)
        BY <1>2, <1>3, <3>2 DEF Clash, Commands
      <3>4. Idle'
        BY <1>1, <1>9, <3>1, <3>2, <3>3 DEF Idle
      <3> QED BY <1>1, <2>2, <3>4 DEF Aside
    <2> QED BY <2>1, <2>2
  <1>12. Numbered'
    BY DEF Tidy, Numbered
  <1>13. SoundFrom(msgQ)' /\ (ServesFrom(msgQ) => ServesFrom(msgQ)')
    BY <1>1, <1>8 DEF SoundFrom, ServesFrom
  <1>14. Sweeping'
    <2>1. sweep' = sweep
      BY DEF PostCommand
    <2> QED BY <1>1, <2>1, HeadStays DEF Tidy
  <1> QED BY <1>10, <1>11, <1>12, <1>13, <1>14 DEF Tidy

LEMMA ClientsTidy ==
  ASSUME Core, Rest, Tidy, ClientNext
  PROVE  Tidy'
  <1>0. Plain \cup Trips \subseteq Options /\ Asked \subseteq Messages
    BY BatchingAssumption DEF Asked, Messages, Typed
  <1>1. ASSUME NEW c \in Clients, Destroy(c)
        PROVE  Tidy'
    <2>1. PostCommand(Remove(c)) /\ owner' = owner
      BY <1>1 DEF Destroy
    <2>2. Remove(c) \in Removals /\ Remove(c).k = "remove"
      BY DEF Remove, Removals
    <2> DEFINE m == Remove(c)
    <2>3. Waits(m) /\ m.k = "remove"
      BY <2>2 DEF Waits
    <2> HIDE DEF m
    <2>4. PostCommand(m) /\ m \in Messages \cup Removals
      BY <2>1, <2>2 DEF m
    <2> QED BY <2>1, <2>3, <2>4, CommandPosted
  <1>2. ASSUME NEW c \in Clients, NEW o \in Plain \cup Trips, StartBatchingCommand(c, o)
        PROVE  Tidy'
    <2> DEFINE id == Cardinality(DOMAIN owner) + 1
               m  == Msg("start", id, o, 0)
    <2>1. id \in Ids /\ owner' = With(owner, id, c) /\ PostCommand(m)
      BY <1>2 DEF StartBatchingCommand
    <2>2. PICK k \in Nat : DOMAIN owner = 1 .. k
      BY DEF Tidy, Numbered
    <2>3. id = k + 1
      <3>1. 1 \in Int /\ k \in Int
        OBVIOUS
      <3>2. Cardinality(1 .. k) = IF 1 > k THEN 0 ELSE k - 1 + 1
        BY <3>1, FS_Interval
      <3>3. Cardinality(1 .. k) = k
        BY <3>2
      <3> QED BY <2>2, <3>3
    <2> HIDE DEF id
    <2>4. DOMAIN owner' = DOMAIN owner \cup {id} /\ DOMAIN owner' = 1 .. id /\ id \in Nat \ {0}
      BY <2>1, <2>2, <2>3 DEF With
    <2>5. id \notin DOMAIN owner
      BY <2>2, <2>3
    <2>6. m \in Messages /\ m.k = "start" /\ m.id = id
      <3>1. m \in Messages
        BY <1>0, <2>1, MsgTyped, RoutineTyped DEF Commands
      <3> QED BY <3>1 DEF Msg
    <2> HIDE DEF m
    <2>7. Waits(m)
      BY <2>6 DEF Waits, Commands
    <2> QED BY <2>1, <2>4, <2>5, <2>6, <2>7, CommandPosted
  <1>3. ASSUME NEW id \in DOMAIN owner,
               StopBatchingCommand(id) \/ \E o \in Plain \cup Trips : UpdateBatchingOptionsCommand(id, o)
        PROVE  Tidy'
    <2>1. id \in Ids
      BY DEF Rest, Partial
    <2>2. owner' = owner
      BY <1>3 DEF StopBatchingCommand, UpdateBatchingOptionsCommand
    <2>3. PICK m \in Messages : PostCommand(m) /\ m.k \in {"stop", "update"} /\ m.id = id
      <3>1. Msg("stop", id, Routine, 0) \in Messages
        BY <1>0, <2>1, MsgTyped, RoutineTyped DEF Commands
      <3>2. \A o \in Plain \cup Trips : Msg("update", id, o, 0) \in Messages
        BY <1>0, <2>1, MsgTyped, RoutineTyped DEF Commands
      <3>3. \A k, o : Msg(k, id, o, 0).k = k /\ Msg(k, id, o, 0).id = id
        BY DEF Msg
      <3> QED BY <1>3, <3>1, <3>2, <3>3 DEF StopBatchingCommand, UpdateBatchingOptionsCommand
    <2>4. Waits(m)
      BY <2>3 DEF Waits, Commands
    <2> QED BY <2>2, <2>3, <2>4, CommandPosted
  <1> QED BY <1>1, <1>2, <1>3 DEF ClientNext

-----------------------------------------------------------------------------
(* The engine *)

LEMMA FreshServed ==
  ASSUME NEW q \in Seq(Calls), q # << >>, NEW e, Fresh(q, e)
  PROVE  Fresh(Tail(q), Ran(e, Head(q)))
  <1> DEFINE c == Head(q)
             r == Tail(q)
             f == Ran(e, c)
  <1>1. /\ c = q[1] /\ 1 \in DOMAIN q /\ DOMAIN q \subseteq Nat /\ \A n \in DOMAIN q : n = 1 \/ n > 1
        /\ \A n \in DOMAIN r : n \in Nat /\ n + 1 \in DOMAIN q /\ n + 1 > 1 /\ r[n] = q[n + 1]
        /\ \A n \in DOMAIN q : n > 1 => n - 1 \in DOMAIN r /\ q[n] = r[n - 1]
    BY TailFacts
  <1>2. \A i : i \in DOMAIN f => Runs(c, i) \/ (i \in DOMAIN e /\ ~ Stops(c, i))
    BY DEF Ran, Runs, Stops, With, Without, Restrict
  <1> HIDE DEF c, r, f
  <1>3. ASSUME NEW n \in DOMAIN r, r[n].reply.k = "started", NEW i, i = r[n].reply.id
        PROVE  /\ i \in DOMAIN f => \E k \in DOMAIN r : k < n /\ Stops(r[k], i)
               /\ \A j \in DOMAIN r : j < n /\ Runs(r[j], i)
                                        => \E k \in DOMAIN r : j < k /\ k < n /\ Stops(r[k], i)
    <2>1. n + 1 \in DOMAIN q /\ q[n + 1].reply.k = "started" /\ i = q[n + 1].reply.id /\ 1 < n + 1
      BY <1>1, <1>3
    <2>2. i \in DOMAIN e => \E k \in DOMAIN q : k < n + 1 /\ Stops(q[k], i)
      BY <2>1 DEF Fresh
    <2>3. \A j \in DOMAIN q : j < n + 1 /\ Runs(q[j], i)
                                => \E k \in DOMAIN q : j < k /\ k < n + 1 /\ Stops(q[k], i)
      BY <2>1 DEF Fresh
    <2>4. ASSUME NEW k \in DOMAIN q, k > 1, k < n + 1, Stops(q[k], i)
          PROVE  k - 1 \in DOMAIN r /\ k - 1 < n /\ Stops(r[k - 1], i)
      <3>1. k - 1 \in DOMAIN r /\ q[k] = r[k - 1]
        BY <1>1, <2>4
      <3>2. k \in Nat /\ n \in Nat
        BY <1>1
      <3> QED BY <2>4, <3>1, <3>2
    <2>5. ASSUME i \in DOMAIN f
          PROVE  \E k \in DOMAIN r : k < n /\ Stops(r[k], i)
      <3>1. CASE Runs(c, i)
        <4>1. PICK k \in DOMAIN q : 1 < k /\ k < n + 1 /\ Stops(q[k], i)
          BY <1>1, <2>1, <2>3, <3>1
        <4>2. k > 1
          BY <1>1, <4>1
        <4> QED BY <2>4, <4>1, <4>2
      <3>2. CASE i \in DOMAIN e /\ ~ Stops(c, i)
        <4>1. PICK k \in DOMAIN q : k < n + 1 /\ Stops(q[k], i)
          BY <2>2, <3>2
        <4>2. k > 1
          BY <1>1, <3>2, <4>1
        <4> QED BY <2>4, <4>1, <4>2
      <3> QED BY <1>2, <2>5, <3>1, <3>2
    <2>6. ASSUME NEW j \in DOMAIN r, j < n, Runs(r[j], i)
          PROVE  \E k \in DOMAIN r : j < k /\ k < n /\ Stops(r[k], i)
      <3>1. j + 1 \in DOMAIN q /\ j + 1 < n + 1 /\ Runs(q[j + 1], i) /\ j \in Nat
        BY <1>1, <2>6
      <3>2. PICK k \in DOMAIN q : j + 1 < k /\ k < n + 1 /\ Stops(q[k], i)
        BY <2>3, <3>1
      <3>3. k > 1 /\ j < k - 1
        <4>1. k \in Nat
          BY <1>1
        <4> QED BY <3>1, <3>2, <4>1
      <3> QED BY <2>4, <3>2, <3>3
    <2> QED BY <2>5, <2>6
  <1>4. Fresh(r, f)
    BY <1>3 DEF Fresh
  <1> QED BY <1>4 DEF c, r, f

\* The answer takes the place of its call.
LEMMA AnswerListed ==
  ASSUME NEW w \in Queued, NEW q \in Seq(Calls), q # << >>, NEW s, NEW t, NEW ids,
         Listed(w, q, s, t, ids), NEW a \in Messages,
         a.k = Head(q).reply.k, a.id = Head(q).reply.id, a.again = Head(q).reply.again,
         Head(q).reply.ok, RefusedStart(a) => \A n \in DOMAIN w : w[n].k # "engineUp"
  PROVE  /\ Listed(Append(w, a), Tail(q), s, t, ids)
         /\ Listed(w, Tail(q), s, t, ids)
         /\ About(w, q) \subseteq About(w, Tail(q)) \cup {Head(q).reply}
         /\ About(Append(w, a), Tail(q)) = About(w, Tail(q)) \cup {a}
         /\ \A n \in DOMAIN w : n \in DOMAIN Append(w, a) /\ Append(w, a)[n] = w[n]
         /\ \A n \in DOMAIN Append(w, a) :
              (n \in DOMAIN w /\ Append(w, a)[n] = w[n]) \/ Append(w, a)[n] = a
         /\ \E n \in DOMAIN Append(w, a) : Append(w, a)[n] = a
  <1> DEFINE m == Head(q).reply
             r == Tail(q)
             v == Append(w, a)
  <1>1. a.k = m.k /\ a.id = m.id /\ a.again = m.again /\ m.ok
    OBVIOUS
  <1>2. /\ Ordered(w, r)
        /\ \A n \in DOMAIN w : ~ Clash(w[n], m)
        /\ \A n \in DOMAIN r : ~ Clash(m, r[n].reply)
    BY OrderServed DEF Listed
  <1>3. About(w, r) \subseteq About(w, q) /\ m \in About(w, q)
    BY AboutServed
  <1>4. About(w, q) \subseteq About(w, r) \cup {m}
    <2>1. /\ Head(q) = q[1] /\ \A n \in DOMAIN q : n = 1 \/ n > 1
          /\ \A n \in DOMAIN q : n > 1 => n - 1 \in DOMAIN r /\ q[n] = r[n - 1]
      BY TailFacts
    <2> HIDE DEF r
    <2> QED BY <2>1 DEF About
  <1>5. About(v, r) = About(w, r) \cup {a}
    BY AboutPost
  <1>6. /\ DOMAIN v = DOMAIN w \cup {Len(w) + 1} /\ v[Len(w) + 1] = a
        /\ \A n \in DOMAIN w : v[n] = w[n]
    BY AppendFacts DEF Queued
  <1> HIDE DEF m, r
  <1>7. Bears(a) <=> Bears(m)
    BY <1>1 DEF Bears
  <1>8. \A n \in DOMAIN w : ~ Clash(w[n], a)
    <2> SUFFICES ASSUME NEW n \in DOMAIN w, Clash(w[n], a)
                 PROVE  FALSE
      OBVIOUS
    <2>1. ~ (w[n].k = "engineUp" /\ RefusedStart(a))
      OBVIOUS
    <2>2. Clash(w[n], m)
      BY <1>1, <1>7, <2>1 DEF Clash, OfBatch
    <2> QED BY <1>2, <2>2
  <1>9. \A n \in DOMAIN r : ~ Clash(a, r[n].reply)
    <2>1. \A x : Clash(a, x) => Clash(m, x)
      BY <1>1, <1>7 DEF Clash
    <2> QED BY <1>2, <2>1
  <1>10. Ordered(v, r)
    BY <1>2, <1>8, <1>9, OrderPost
  <1>11. Fits(m, s, t, ids) => Fits(a, s, t, ids)
    BY <1>1, <1>7 DEF Fits
  <1>12. OfBatch(a) <=> OfBatch(m)
    BY <1>1 DEF OfBatch
  <1> HIDE DEF v
  <1>13. Listed(v, r, s, t, ids) /\ Listed(w, r, s, t, ids)
    BY <1>2, <1>3, <1>5, <1>10, <1>11, <1>12 DEF Listed
  <1> QED BY <1>4, <1>5, <1>6, <1>13 DEF m, r, v

\* The engine does what it is told, and says so unless nobody listens.
LEMMA AcceptSound ==
  ASSUME NEW w \in Queued, NEW q \in Seq(Calls), q # << >>, NEW s, NEW t, NEW e, NEW ids,
         Sound(w, q, s, t, e, ids), NEW a \in Messages,
         a.k = Head(q).reply.k, a.id = Head(q).reply.id, a.again = Head(q).reply.again, a.ok,
         NEW v, v = IF a.k = "ignore" THEN w ELSE Append(w, a)
  PROVE  /\ Sound(v, Tail(q), s, t, Ran(e, Head(q)), ids)
         /\ \A on, now \in BOOLEAN :
              /\ Serves(w, q, s, t, e, on)
              /\ Head(q).op = "startTrip" \/ (on /\ Head(q).op # "stopTrip") => now
              => Serves(v, Tail(q), s, t, Ran(e, Head(q)), now)
  <1> DEFINE c == Head(q)
             r == Tail(q)
             f == Ran(e, c)
  <1>1. c.reply.ok
    <2>1. c = q[1] /\ 1 \in DOMAIN q
      BY TailFacts
    <2> QED BY <2>1 DEF Sound, Running, Answered
  <1>2. ~ RefusedStart(a)
    BY DEF RefusedStart
  <1>3. /\ Listed(v, r, s, t, ids)
        /\ About(w, q) \subseteq About(w, r) \cup {c.reply}
        /\ About(w, r) \subseteq About(v, r) /\ (a.k # "ignore" => a \in About(v, r))
        /\ \A n \in DOMAIN w : n \in DOMAIN v /\ v[n] = w[n]
        /\ \A n \in DOMAIN v : (n \in DOMAIN w /\ v[n] = w[n]) \/ v[n] = a
    BY <1>1, <1>2, AnswerListed DEF Sound
  <1>4. /\ \A i, m : WillRun(r, f, i, m) => WillRun(q, e, i, m)
        /\ \A i, m : WillRun(q, e, i, m) /\ (\A o : WillRun(q, e, i, o) => o = m) => WillRun(r, f, i, m)
    BY RunServed
  <1>5. Fresh(r, f)
    BY FreshServed DEF Sound, Running
  <1>6. \A n \in DOMAIN r : Answered(r[n])
    <2>1. \A n \in DOMAIN r : n + 1 \in DOMAIN q /\ r[n] = q[n + 1]
      BY TailFacts
    <2> QED BY <2>1 DEF Sound, Running
  <1>7. ASSUME NEW on \in BOOLEAN, NEW now \in BOOLEAN, WillBatch(q, on),
               c.op = "startTrip" \/ (on /\ c.op # "stopTrip") => now
        PROVE  WillBatch(r, now)
    BY <1>7, BatchServed
  <1>8. a.k = c.reply.k
    OBVIOUS
  <1> HIDE DEF c, r, f
  <1>9. Running(v, r, s, f)
    <2>1. \A i, m : WillRun(r, f, i, m) => m # "trip" /\ i \in DOMAIN s /\ s[i] = m
      BY <1>4 DEF Sound, Running
    <2>2. ASSUME NEW n \in DOMAIN v, RefusedStart(v[n])
          PROVE  WillStop(r, f, v[n].id)
      <3>1. n \in DOMAIN w /\ v[n] = w[n]
        BY <1>2, <1>3, <2>2
      <3>2. WillStop(q, e, v[n].id)
        BY <2>2, <3>1 DEF Sound, Running
      <3> QED BY <1>4, <3>2 DEF WillStop
    <2> QED BY <1>5, <1>6, <2>1, <2>2 DEF Running
  <1>10. ASSUME NEW on \in BOOLEAN, NEW now \in BOOLEAN, Serves(w, q, s, t, e, on),
                c.op = "startTrip" \/ (on /\ c.op # "stopTrip") => now
         PROVE  Serves(v, r, s, t, f, now)
    <2>1. ASSUME NEW i \in DOMAIN s, s[i] # "trip"
          PROVE  \/ WillRun(r, f, i, s[i])
                 \/ \E n \in DOMAIN v : RefusedStart(v[n]) /\ v[n].id = i
      <3>1. CASE WillRun(q, e, i, s[i])
        <4>1. \A o : WillRun(q, e, i, o) => o = s[i]
          BY DEF Sound, Running
        <4> QED BY <1>4, <3>1, <4>1
      <3>2. CASE \E n \in DOMAIN w : RefusedStart(w[n]) /\ w[n].id = i
        BY <1>3, <3>2
      <3> QED BY <1>10, <2>1, <3>1, <3>2 DEF Serves
    <2>2. ASSUME t # {}
          PROVE  \/ WillBatch(r, now)
                 \/ \E m \in About(v, r) : m.k = "tripStopped"
                 \/ \E n \in DOMAIN v : RefusedBatch(v[n])
      <3>1. CASE WillBatch(q, on)
        BY <1>7, <1>10, <3>1
      <3>2. CASE \E m \in About(w, q) : m.k = "tripStopped"
        BY <1>3, <1>8, <3>2
      <3>3. CASE \E n \in DOMAIN w : RefusedBatch(w[n])
        BY <1>3, <3>3
      <3> QED BY <1>10, <2>2, <3>1, <3>2, <3>3 DEF Serves
    <2> QED BY <2>1, <2>2 DEF Serves
  <1> QED BY <1>3, <1>9, <1>10 DEF Sound, c, r, f

\* A refused start: nothing else starts that session, or the batch, any more.
LEMMA RefuseSound ==
  ASSUME NEW w \in Queued, NEW q \in Seq(Calls), q # << >>, NEW s, NEW t, NEW e, NEW ids,
         Sound(w, q, s, t, e, ids), NEW a \in Messages,
         a.k = Head(q).reply.k, a.id = Head(q).reply.id, a.again = Head(q).reply.again, ~ a.ok,
         a.k \in {"started", "tripStarted"},
         \A n \in DOMAIN q : n > 1 => q[n].op # Head(q).op,
         \A n \in DOMAIN w : w[n].k # "engineUp"
  PROVE  /\ Sound(Append(w, a), Tail(q), s, t, e, ids)
         /\ \A on \in BOOLEAN : Serves(w, q, s, t, e, on) => Serves(Append(w, a), Tail(q), s, t, e, on)
  <1> DEFINE c == Head(q)
             r == Tail(q)
             v == Append(w, a)
             i == c.reply.id
  <1>1. /\ c = q[1] /\ 1 \in DOMAIN q /\ DOMAIN q \subseteq Nat
        /\ \A n \in DOMAIN r : n \in Nat /\ n + 1 \in DOMAIN q /\ n + 1 > 1 /\ r[n] = q[n + 1]
    BY TailFacts
  <1>2. /\ Answered(c) /\ c.reply.ok
        /\ \A n \in DOMAIN r : Answered(r[n]) /\ r[n].op # c.op
    BY <1>1 DEF Sound, Running, Answered
  <1>3. /\ Listed(v, r, s, t, ids)
        /\ About(w, q) \subseteq About(w, r) \cup {c.reply}
        /\ About(v, r) = About(w, r) \cup {a}
        /\ \A n \in DOMAIN w : n \in DOMAIN v /\ v[n] = w[n]
        /\ \A n \in DOMAIN v : (n \in DOMAIN w /\ v[n] = w[n]) \/ v[n] = a
        /\ \E n \in DOMAIN v : v[n] = a
    BY <1>2, AnswerListed DEF Sound
  <1>4. \A j, m : ~ On(c, j) => (WillRun(r, e, j, m) <=> WillRun(q, e, j, m))
    BY RunRefused
  <1>5. a.k = c.reply.k /\ a.id = i
    OBVIOUS
  <1>6. c.op # "stopTrip" /\ c.op # "startTrip" => \A on \in BOOLEAN : WillBatch(q, on) => WillBatch(r, on)
    BY BatchServed
  <1>7. CASE a.k = "started"
    <2>1. Runs(c, i) /\ c.op = "start"
      BY <1>2, <1>5, <1>7 DEF Answered, Runs
    <2>2. \A j : j # i => ~ On(c, j)
      BY <2>1 DEF Runs, On, Stops
    <2>3. RefusedStart(a)
      BY <1>7 DEF RefusedStart
    <2> HIDE DEF r, v, i
    <2>4. \A n \in DOMAIN r : \A j : ~ Runs(r[n], j)
      BY <1>2, <2>1 DEF Runs
    <2>5. i \notin DOMAIN e
      <3>1. i \in DOMAIN e => \E k \in DOMAIN q : k < 1 /\ Stops(q[k], i)
        BY <1>1, <1>5, <1>7 DEF Sound, Running, Fresh, i
      <3>2. \A k \in DOMAIN q : ~ k < 1
        BY DEF Calls
      <3> QED BY <3>1, <3>2
    <2>6. WillStop(r, e, i)
      BY <2>4, <2>5 DEF WillStop, WillRun
    <2>7. Running(v, r, s, e)
      <3>1. ASSUME NEW j, NEW m, WillRun(r, e, j, m)
            PROVE  m # "trip" /\ j \in DOMAIN s /\ s[j] = m
        <4>1. j # i
          BY <2>6, <3>1 DEF WillStop
        <4>2. WillRun(q, e, j, m)
          BY <1>4, <2>2, <3>1, <4>1
        <4> QED BY <4>2 DEF Sound, Running
      <3>2. Fresh(r, e)
        BY <1>2, <2>4 DEF Fresh, Answered
      <3>3. ASSUME NEW n \in DOMAIN v, RefusedStart(v[n])
            PROVE  WillStop(r, e, v[n].id)
        <4>1. CASE v[n].id = i
          BY <2>6, <4>1
        <4>2. CASE v[n].id # i
          <5>1. n \in DOMAIN w /\ v[n] = w[n]
            BY <1>3, <1>5, <4>2
          <5>2. WillStop(q, e, v[n].id)
            BY <3>3, <5>1 DEF Sound, Running
          <5> QED BY <1>4, <2>2, <4>2, <5>2 DEF WillStop
        <4> QED BY <4>1, <4>2
      <3> QED BY <1>2, <3>1, <3>2, <3>3 DEF Running
    <2>8. ASSUME NEW on \in BOOLEAN, Serves(w, q, s, t, e, on)
          PROVE  Serves(v, r, s, t, e, on)
      <3>1. ASSUME NEW j \in DOMAIN s, s[j] # "trip"
            PROVE  \/ WillRun(r, e, j, s[j])
                   \/ \E n \in DOMAIN v : RefusedStart(v[n]) /\ v[n].id = j
        <4>1. CASE j = i
          BY <1>3, <1>5, <2>3, <4>1
        <4>2. CASE j # i
          BY <1>3, <1>4, <2>2, <2>8, <3>1, <4>2 DEF Serves
        <4> QED BY <4>1, <4>2
      <3>2. \A m \in About(w, q) : m.k = "tripStopped" => m \in About(v, r)
        BY <1>3, <1>5, <1>7
      <3>3. WillBatch(q, on) => WillBatch(r, on)
        BY <1>6, <2>1
      <3> QED BY <1>3, <2>8, <3>1, <3>2, <3>3 DEF Serves
    <2> QED BY <1>3, <2>7, <2>8 DEF Sound, r, v
  <1>8. CASE a.k = "tripStarted"
    <2>1. c.op = "startTrip"
      BY <1>2, <1>5, <1>8 DEF Answered
    <2>2. \A j : ~ On(c, j)
      BY <2>1 DEF On, Runs, Stops
    <2>3. RefusedBatch(a) /\ ~ RefusedStart(a)
      BY <1>8 DEF RefusedBatch, RefusedStart
    <2>4. Fresh(r, e)
      <3>1. Ran(e, c) = e
        BY <2>1 DEF Ran
      <3> QED BY <3>1, FreshServed DEF Sound, Running
    <2> HIDE DEF r, v, i, c
    <2>5. Running(v, r, s, e)
      <3>1. \A j, m : WillRun(r, e, j, m) => m # "trip" /\ j \in DOMAIN s /\ s[j] = m
        BY <1>4, <2>2 DEF Sound, Running
      <3>2. ASSUME NEW n \in DOMAIN v, RefusedStart(v[n])
            PROVE  WillStop(r, e, v[n].id)
        <4>1. n \in DOMAIN w /\ v[n] = w[n]
          BY <1>3, <2>3, <3>2
        <4>2. WillStop(q, e, v[n].id)
          BY <3>2, <4>1 DEF Sound, Running
        <4> QED BY <1>4, <2>2, <4>2 DEF WillStop
      <3> QED BY <1>2, <2>4, <3>1, <3>2 DEF Running
    <2>6. ASSUME NEW on \in BOOLEAN, Serves(w, q, s, t, e, on)
          PROVE  Serves(v, r, s, t, e, on)
      <3>1. \A j \in DOMAIN s : s[j] # "trip" =>
              \/ WillRun(r, e, j, s[j])
              \/ \E n \in DOMAIN v : RefusedStart(v[n]) /\ v[n].id = j
        BY <1>3, <1>4, <2>2, <2>6 DEF Serves
      <3>2. \E n \in DOMAIN v : RefusedBatch(v[n])
        BY <1>3, <2>3
      <3> QED BY <3>1, <3>2 DEF Serves
    <2> QED BY <1>3, <2>5, <2>6 DEF Sound, r, v
  <1> QED BY <1>7, <1>8

LEMMA AnswerFields ==
  ASSUME NEW m \in Replies, NEW ok \in BOOLEAN, NEW acc \in Distances
  PROVE  LET a == Answer(m, ok, acc)
         IN  a \in Messages /\ a.k = m.k /\ a.id = m.id /\ a.again = m.again /\ a.ok = ok
  <1>1. Answer(m, ok, acc) \in Messages /\ Answer(m, ok, acc).k = m.k /\ Answer(m, ok, acc).ok = ok
    BY AnswerTyped
  <1>2. Answer(m, ok, acc).id = m.id /\ Answer(m, ok, acc).again = m.again
    BY DEF Answer, Replies, Typed
  <1> QED BY <1>1, <1>2

LEMMA ServeTidy ==
  ASSUME Core, Rest, Tidy, Accept \/ Refuse, ~ unserved'
  PROVE  Tidy'
  <1> DEFINE c == Head(apiQ)
  <1>1. PICK ok \in BOOLEAN, acc \in Distances :
          /\ Serve(Answer(c.reply, ok, acc))
          /\ ok => Accept
          /\ ~ ok => MadeUpFor(c) /\ UNCHANGED <<plain, trip>>
    <2>1. trip.acc \in Distances /\ {0, trip.distance} \subseteq Distances
      BY RoutineTyped DEF Rest
    <2>2. CASE Accept
      BY <2>1, <2>2 DEF Accept
    <2>3. CASE Refuse
      BY <2>1, <2>3 DEF Refuse
    <2> QED BY <2>2, <2>3
  <1> DEFINE a == Answer(c.reply, ok, acc)
             v == IF a.k = "ignore" THEN msgQ ELSE Append(msgQ, a)
  <1>2. /\ apiQ # << >> /\ apiQ' = Tail(apiQ) /\ msgQ' = v
        /\ UNCHANGED <<owner, pending, capsKnown, saved, trips, link>>
    BY <1>1 DEF Serve, clientVars, adapterVars
  <1>3. c.reply \in Replies /\ msgQ \in Queued /\ apiQ \in Seq(Calls) /\ Tail(apiQ) \in Seq(Calls)
    BY <1>2 DEF Core, Calls, Rest
  <1>4. /\ a \in Messages /\ a.k = c.reply.k /\ a.id = c.reply.id /\ a.again = c.reply.again
        /\ a.ok = ok
    BY <1>3, AnswerFields
  <1> HIDE DEF a
  <1>5. Sound(msgQ, apiQ, saved, DOMAIN trips, plain, DOMAIN owner)
    BY DEF Tidy, SoundFrom
  <1>6. /\ Sound(v, Tail(apiQ), saved, DOMAIN trips, plain', DOMAIN owner)
        /\ Serves(msgQ, apiQ, saved, DOMAIN trips, plain, trip.on)
             => Serves(v, Tail(apiQ), saved, DOMAIN trips, plain', trip'.on)
    <2>1. CASE ok
      <3>1. /\ plain' = Ran(plain, c)
            /\ trip' = CASE c.op = "startTrip" -> [on |-> TRUE, distance |-> c.opts.distance,
                                                   tbf |-> c.opts.tbf, acc |-> 0]
                         [] c.op = "stopTrip" -> NoBatch
                         [] OTHER -> trip
        BY <1>1, <2>1 DEF Accept, Ran
      <3>2. trip'.on \in BOOLEAN /\ (c.op = "startTrip" \/ (trip.on /\ c.op # "stopTrip") => trip'.on)
        BY <3>1 DEF NoBatch, Rest
      <3>3. trip.on \in BOOLEAN
        BY DEF Rest
      <3>4. /\ Sound(v, Tail(apiQ), saved, DOMAIN trips, Ran(plain, c), DOMAIN owner)
            /\ \A on, now \in BOOLEAN :
                 /\ Serves(msgQ, apiQ, saved, DOMAIN trips, plain, on)
                 /\ c.op = "startTrip" \/ (on /\ c.op # "stopTrip") => now
                 => Serves(v, Tail(apiQ), saved, DOMAIN trips, Ran(plain, c), now)
        BY <1>2, <1>3, <1>4, <1>5, <2>1, AcceptSound
      <3> QED BY <3>1, <3>2, <3>3, <3>4
    <2>2. CASE ~ ok
      <3>1. /\ UNCHANGED <<plain, trip>> /\ a.k \in {"started", "tripStarted"}
            /\ \A n \in DOMAIN apiQ : n > 1 => apiQ[n].op # c.op
            /\ \A n \in DOMAIN msgQ : msgQ[n].k # "engineUp"
        <4>1. \A n \in DOMAIN apiQ : n > 1 => n \in 2 .. Len(apiQ)
          BY <1>3
        <4> QED BY <1>1, <1>4, <2>2, <4>1 DEF MadeUpFor
      <3>2. v = Append(msgQ, a)
        BY <3>1
      <3>3. trip.on \in BOOLEAN
        BY DEF Rest
      <3> HIDE DEF v
      <3>4. /\ Sound(v, Tail(apiQ), saved, DOMAIN trips, plain, DOMAIN owner)
            /\ \A on \in BOOLEAN : Serves(msgQ, apiQ, saved, DOMAIN trips, plain, on)
                 => Serves(v, Tail(apiQ), saved, DOMAIN trips, plain, on)
        BY <1>2, <1>3, <1>4, <1>5, <2>2, <3>1, <3>2, RefuseSound
      <3> QED BY <3>1, <3>3, <3>4
    <2> QED BY <2>1, <2>2
  <1>7. Up' => Up
    <2>1. \A n \in DOMAIN msgQ : n \in DOMAIN v /\ v[n] = msgQ[n]
      BY <1>3, <1>4, AppendFacts DEF Queued
    <2> QED BY <1>2, <2>1 DEF Up
  <1>8. Aside'
    BY <1>2 DEF Aside, Idle, Tidy
  <1>9. Numbered'
    BY <1>2 DEF Numbered, Tidy
  <1>10. Sweeping'
    <2>1. sweep' = sweep
      BY <1>1 DEF Serve
    <2> QED BY <1>2, <1>4, <2>1, HeadStays DEF Tidy
  <1> QED BY <1>2, <1>6, <1>7, <1>8, <1>9, <1>10 DEF Tidy, SoundFrom, ServesFrom

LEMMA EngineTidy ==
  ASSUME Core, Rest, Tidy, EngineNext, ~ unserved'
  PROVE  Tidy'
  <1>0. ASSUME Travel \/ EngineDown \/ OpenLink
        PROVE  Sweeping'
    <2>1. sweep' = sweep
      BY <1>0 DEF Travel, EngineDown, OpenLink
    <2>2. trip.distance \in Distances /\ 0 \in Distances
      BY RoutineTyped DEF Rest
    <2>3. msgQ' = msgQ \/ \E m \in Messages \cup Removals : msgQ' = Append(msgQ, m)
      BY <1>0, <2>2, MsgTyped, RoutineTyped DEF Travel, EngineDown, OpenLink
    <2> QED BY <2>1, <2>3, HeadStays DEF Tidy
  <1>1. CASE Accept \/ Refuse
    BY <1>1, ServeTidy
  <1>2. CASE Travel
    <2>1. /\ trip.on /\ trip' = [trip EXCEPT !.acc = @ + 1]
          /\ \/ msgQ' = msgQ
             \/ msgQ' = Append(msgQ, Msg("completed", 0, Routine, trip.distance))
          /\ UNCHANGED <<owner, pending, apiQ, capsKnown, saved, trips, link, plain>>
      BY <1>2 DEF Travel, clientVars, adapterVars
    <2>2. trip'.on = trip.on
      BY <2>1 DEF Rest
    <2>3. Aside' /\ Numbered'
      BY <2>1 DEF Aside, Idle, Tidy, Numbered
    <2>4. CASE msgQ' = msgQ
      <3>1. SoundFrom(msgQ)' /\ (Up' => ServesFrom(msgQ)')
        BY <2>1, <2>2, <2>4 DEF Tidy, SoundFrom, ServesFrom, Up
      <3> QED BY <2>3, <3>1, <1>0, <1>2 DEF Tidy
    <2>5. CASE msgQ' = Append(msgQ, Msg("completed", 0, Routine, trip.distance))
      <3> DEFINE m == Msg("completed", 0, Routine, trip.distance)
      <3>1. m \in Messages /\ m.k = "completed" /\ m.id = 0 /\ msgQ \in Queued
        <4>1. m \in Messages
          BY MsgTyped, RoutineTyped DEF Rest
        <4> QED BY <4>1 DEF Msg, Rest
      <3> HIDE DEF m
      <3>2. ~ RefusedStart(m) /\ ~ OfBatch(m) /\ ~ Bears(m)
        BY <3>1 DEF RefusedStart, OfBatch, Bears
      <3>3. \A x : ~ Clash(x, m) /\ ~ Clash(m, x)
        BY <3>1, <3>2 DEF Clash
      <3>4. Fits(m, saved, DOMAIN trips, DOMAIN owner)
        BY <3>1, <3>2 DEF Fits
      <3>5. /\ Sound(Append(msgQ, m), apiQ, saved, DOMAIN trips, plain, DOMAIN owner)
            /\ \A on : Serves(msgQ, apiQ, saved, DOMAIN trips, plain, on)
                 => Serves(Append(msgQ, m), apiQ, saved, DOMAIN trips, plain, on)
        BY <3>1, <3>2, <3>3, <3>4, PostSound DEF Tidy, SoundFrom
      <3>6. \A n \in DOMAIN msgQ : n \in DOMAIN Append(msgQ, m) /\ Append(msgQ, m)[n] = msgQ[n]
        BY <3>1, AppendFacts DEF Queued
      <3>7. Up' => Up
        BY <2>1, <2>5, <3>6 DEF Up, m
      <3>8. SoundFrom(msgQ)' /\ (Up' => ServesFrom(msgQ)')
        BY <2>1, <2>2, <2>5, <3>5, <3>7 DEF Tidy, SoundFrom, ServesFrom, m
      <3> QED BY <2>3, <3>8, <1>0, <1>2 DEF Tidy
    <2> QED BY <2>1, <2>4, <2>5
  <1>3. CASE EngineDown
    <2>1. /\ link' = FALSE /\ plain' = << >> /\ trip' = NoBatch
          /\ UNCHANGED <<owner, msgQ, pending, apiQ, capsKnown, saved, trips>>
      BY <1>3 DEF EngineDown, clientVars, adapterVars
    <2>2. \A i, m : WillRun(apiQ, << >>, i, m) => WillRun(apiQ, plain, i, m)
      BY DEF WillRun
    <2>3. Fresh(apiQ, << >>)
      BY DEF Tidy, SoundFrom, Sound, Running, Fresh
    <2>4. Running(msgQ, apiQ, saved, << >>)
      BY <2>2, <2>3 DEF Tidy, SoundFrom, Sound, Running, WillStop
    <2>5. SoundFrom(msgQ)'
      BY <2>1, <2>4 DEF Tidy, SoundFrom, Sound
    <2>6. Aside' /\ Numbered' /\ ~ Up'
      BY <2>1 DEF Tidy, Aside, Idle, NoBatch, Numbered, Up
    <2> QED BY <1>0, <1>3, <2>5, <2>6 DEF Tidy
  <1>4. CASE OpenLink
    <2> DEFINE m == Msg("engineUp", 0, Routine, 0)
    <2>1. /\ msgQ' = Append(msgQ, m)
          /\ UNCHANGED <<owner, pending, apiQ, capsKnown, saved, trips, plain, trip>>
      BY <1>4 DEF OpenLink, clientVars, adapterVars
    <2>2. m \in Messages /\ m.k = "engineUp" /\ m.id = 0 /\ msgQ \in Queued
      <3>1. m \in Messages
        BY MsgTyped, RoutineTyped
      <3> QED BY <3>1 DEF Msg, Rest
    <2> HIDE DEF m
    <2>3. ~ RefusedStart(m) /\ ~ OfBatch(m) /\ ~ Bears(m)
      BY <2>2 DEF RefusedStart, OfBatch, Bears
    <2>4. \A x : ~ Clash(x, m)
      BY <2>2, <2>3 DEF Clash
    <2>5. \A n \in DOMAIN apiQ : ~ Clash(m, apiQ[n].reply)
      <3>1. \A n \in DOMAIN apiQ : apiQ[n].reply.ok
        BY DEF Tidy, SoundFrom, Sound, Running, Answered
      <3> QED BY <2>2, <2>3, <3>1 DEF Clash, RefusedStart
    <2>6. Fits(m, saved, DOMAIN trips, DOMAIN owner)
      BY <2>2, <2>3 DEF Fits
    <2>7. Sound(Append(msgQ, m), apiQ, saved, DOMAIN trips, plain, DOMAIN owner)
      BY <2>2, <2>3, <2>4, <2>5, <2>6, PostSound DEF Tidy, SoundFrom
    <2>8. /\ DOMAIN msgQ' = DOMAIN msgQ \cup {Len(msgQ) + 1} /\ msgQ'[Len(msgQ) + 1] = m
          /\ \A n \in DOMAIN msgQ : msgQ'[n] = msgQ[n]
      BY <2>1, <2>2, AppendFacts DEF Queued
    <2>9. ~ Up'
      BY <2>2, <2>8 DEF Up
    <2>10. Aside'
      <3>1. CASE capsKnown
        BY <2>1, <3>1 DEF Aside, Tidy
      <3>2. CASE ~ capsKnown
        <4>1. Idle
          BY <3>2 DEF Aside, Tidy
        <4>2. Waits(m)
          BY <2>2 DEF Waits
        <4>3. Idle'
          BY <2>1, <2>4, <2>8, <4>1, <4>2 DEF Idle
        <4> QED BY <2>1, <3>2, <4>3 DEF Aside
      <3> QED BY <3>1, <3>2
    <2>11. SoundFrom(msgQ)' /\ Numbered'
      BY <2>1, <2>7 DEF SoundFrom, Numbered, Tidy
    <2> QED BY <1>0, <1>4, <2>9, <2>10, <2>11 DEF Tidy
  <1> QED BY <1>1, <1>2, <1>3, <1>4 DEF EngineNext

-----------------------------------------------------------------------------
(* Every step keeps the invariant *)

LEMMA HandledTidy ==
  ASSUME Core, Rest, Tidy, NEW k, Receive(k), k # "engineUp", capsKnown,
         UNCHANGED <<pending, capsKnown>>,
         SoundTo(msgQ'), ServesFrom(msgQ) => ServesTo(msgQ')
  PROVE  Tidy'
  <1>1. /\ msgQ' = Tail(msgQ) /\ msgQ # << >> /\ msgQ \in Queued /\ Head(msgQ).k = k
        /\ sweep = {} /\ UNCHANGED <<owner, sweep, link, plain, trip>>
    BY DEF Receive, AtHead, Rest, clientVars, engineVars
  <1>2. Up' => Up
    <2>1. /\ Head(msgQ) = msgQ[1] /\ \A n \in DOMAIN msgQ : n = 1 \/ n > 1
          /\ \A n \in DOMAIN msgQ : n > 1 => n - 1 \in DOMAIN Tail(msgQ) /\ msgQ[n] = Tail(msgQ)[n - 1]
      BY <1>1, TailFacts DEF Queued
    <2> QED BY <1>1, <2>1 DEF Up
  <1>3. Aside' /\ Numbered' /\ Sweeping'
    BY <1>1 DEF Tidy, Aside, Numbered, Sweeping
  <1> QED BY <1>1, <1>2, <1>3 DEF Tidy, SoundFrom, SoundTo, ServesFrom, ServesTo

LEMMA SetAsideTidy ==
  ASSUME Core, Rest, Tidy, SetAside
  PROVE  Tidy'
  <1> DEFINE w == Tail(msgQ)
             m == Head(msgQ)
  <1>1. PICK k \in Commands : Receive(k)
    BY DEF SetAside, Commands
  <1>2. /\ pending' = Append(pending, m) /\ ~ capsKnown /\ msgQ' = w
        /\ sweep = {} /\ msgQ # << >> /\ msgQ \in Queued /\ m.k = k
        /\ UNCHANGED <<owner, apiQ, capsKnown, saved, trips, sweep, link, plain, trip>>
    BY <1>1 DEF SetAside, Receive, AtHead, Rest, clientVars, adapterVars, engineVars
  <1>3. /\ SoundFrom(w) /\ (ServesFrom(msgQ) => ServesFrom(w))
        /\ About(w, apiQ) \subseteq About(msgQ, apiQ)
        /\ Fits(m, saved, DOMAIN trips, DOMAIN owner)
        /\ \A x \in About(w, apiQ) : ~ Clash(m, x)
    <2>1. k \notin {"started", "tripStarted", "tripStopped"}
      BY DEF Commands
    <2>2. SoundFrom(msgQ)
      BY DEF Tidy
    <2> QED BY <1>1, <2>1, <2>2, Taken
  <1>4. Idle
    BY <1>2 DEF Tidy, Aside
  <1>5. /\ m = msgQ[1] /\ 1 \in DOMAIN msgQ
        /\ \A n \in DOMAIN msgQ : n = 1 \/ n > 1
        /\ \A n \in DOMAIN w : n + 1 \in DOMAIN msgQ /\ w[n] = msgQ[n + 1]
        /\ \A n \in DOMAIN msgQ : n > 1 => n - 1 \in DOMAIN w /\ msgQ[n] = w[n - 1]
    BY <1>2, TailFacts DEF Queued
  <1>6. /\ DOMAIN pending' = DOMAIN pending \cup {Len(pending) + 1}
        /\ DOMAIN pending \subseteq Nat /\ Len(pending) \in Nat
        /\ pending'[Len(pending) + 1] = m
        /\ \A n \in DOMAIN pending : pending'[n] = pending[n] /\ n < Len(pending) + 1
    <2>1. SessionMessage(m)
      BY <1>1, HeadTyped DEF Receive
    <2>2. m \in Asked
      BY <1>2, <2>1 DEF SessionMessage, Asked, Typed
    <2> QED BY <1>2, <2>2, AppendFacts DEF Rest
  <1>7. m.id \in DOMAIN owner
    <2>1. m.id \in Ids
      BY <1>1, HeadTyped, SessionFields DEF Receive
    <2>2. m.id # 0 /\ m.k # "remove"
      BY <1>2, <2>1 DEF Ids, Commands
    <2> QED BY <1>3, <2>2 DEF Fits
  <1> HIDE DEF w, m
  <1>8. Idle'
    <2>1. \A n \in DOMAIN w : Waits(w[n])
      BY <1>4, <1>5 DEF Idle
    <2>2. \A i, j \in DOMAIN pending' : i < j => ~ Clash(pending'[i], pending'[j])
      <3> SUFFICES ASSUME NEW i \in DOMAIN pending', NEW j \in DOMAIN pending', i < j
                   PROVE  ~ Clash(pending'[i], pending'[j])
        OBVIOUS
      <3>1. i \in DOMAIN pending
        BY <1>6
      <3>2. \A n \in DOMAIN pending : ~ Clash(pending[n], m)
        BY <1>4, <1>5 DEF Idle
      <3> QED BY <1>4, <1>6, <3>1, <3>2 DEF Idle
    <2>3. \A i \in DOMAIN pending', j \in DOMAIN w : ~ Clash(pending'[i], w[j])
      <3>1. \A i \in DOMAIN pending, j \in DOMAIN w : ~ Clash(pending[i], w[j])
        BY <1>4, <1>5 DEF Idle
      <3>2. \A j \in DOMAIN w : ~ Clash(m, w[j])
        BY <1>3 DEF About
      <3> QED BY <1>6, <3>1, <3>2
    <2>4. \A n \in DOMAIN pending' : pending'[n].id \in DOMAIN owner
      BY <1>4, <1>6, <1>7 DEF Idle
    <2> QED BY <1>2, <1>4, <2>1, <2>2, <2>3, <2>4 DEF Idle
  <1>9. Up' => Up
    <2>1. m.k # "engineUp"
      BY <1>2 DEF Commands
    <2> QED BY <1>2, <1>5, <2>1 DEF Up
  <1> QED BY <1>2, <1>3, <1>8, <1>9 DEF Tidy, Aside, Numbered, Sweeping, SoundFrom, ServesFrom

LEMMA RemovalTidy ==
  ASSUME Core, Rest, Tidy, RemoveClient \/ Swept
  PROVE  Tidy'
  <1>1. CASE RemoveClient
    <2>1. /\ UNCHANGED <<owner, msgQ, pending, apiQ, capsKnown, saved, trips, link, plain, trip>>
          /\ Head(msgQ).k = "remove"
      BY <1>1 DEF RemoveClient, AtHead, clientVars, adapterVars, engineVars
    <2> QED BY <2>1 DEF Tidy, Aside, Idle, Numbered, Sweeping, Up, SoundFrom, ServesFrom
  <1>2. CASE Swept
    <2> DEFINE w == Tail(msgQ)
    <2>1. /\ msgQ' = w /\ msgQ # << >> /\ msgQ \in Queued /\ Head(msgQ).k = "remove" /\ sweep' = {}
          /\ UNCHANGED <<owner, pending, apiQ, capsKnown, saved, trips, link, plain, trip>>
      BY <1>2 DEF Swept, Rest, Tidy, Sweeping, clientVars, engineVars
    <2>2. /\ Head(msgQ) = msgQ[1]
          /\ \A n \in DOMAIN msgQ : n = 1 \/ n > 1
          /\ \A n \in DOMAIN w : n + 1 \in DOMAIN msgQ /\ w[n] = msgQ[n + 1]
          /\ \A n \in DOMAIN msgQ : n > 1 => n - 1 \in DOMAIN w /\ msgQ[n] = w[n - 1]
      BY <2>1, TailFacts DEF Queued
    <2>3. SoundFrom(w)
      BY <2>1, TakeSound DEF Tidy, SoundFrom
    <2>4. ServesFrom(msgQ) => ServesFrom(w)
      BY <2>1, TakeServes DEF ServesFrom, RefusedStart, RefusedBatch
    <2> HIDE DEF w
    <2>5. Up' => Up
      BY <2>1, <2>2 DEF Up
    <2>6. Aside' /\ Numbered' /\ Sweeping'
      BY <2>1, <2>2 DEF Tidy, Aside, Idle, Numbered, Sweeping
    <2> QED BY <2>1, <2>3, <2>4, <2>5, <2>6 DEF Tidy, SoundFrom, ServesFrom
  <1> QED BY <1>1, <1>2

LEMMA AdapterTidy ==
  ASSUME Core, Rest, RefusedStops, Tidy, AdapterNext, Core', ~ unserved, ~ astray'
  PROVE  Tidy'
  <1>0. SoundFrom(msgQ)
    BY DEF Tidy
  <1>1. CASE SetAside \/ RemoveClient \/ Swept
    BY <1>1, SetAsideTidy, RemovalTidy
  <1>2. CASE StartBatching \/ UpdateBatchingOptions \/ StopBatching
    <2>1. PICK k \in Commands : Command(k)
      BY <1>2 DEF StartBatching, UpdateBatchingOptions, StopBatching, Commands
    <2>2. Receive(k) /\ k # "engineUp" /\ capsKnown /\ UNCHANGED <<pending, capsKnown>>
      BY <2>1 DEF Command, Commands
    <2> QED BY <1>0, <1>2, <2>2, CommandsSound, HandledTidy
  <1>3. CASE SweepSession
    <2>1. PICK id \in sweep \ {0} :
            UNCHANGED <<clientVars, msgQ, pending, capsKnown, clientData, engineVars>>
      BY <1>3 DEF SweepSession
    <2>2. capsKnown
      <3>1. id \in DOMAIN saved
        BY DEF Rest
      <3> QED BY <3>1 DEF Tidy, Aside, Idle
    <2>3. SoundTo(msgQ') /\ (ServesFrom(msgQ) => ServesTo(msgQ'))
      BY <1>0, <1>3, SweepSound
    <2>4. Sweeping'
      BY <2>1 DEF Tidy, Sweeping
    <2>5. Aside' /\ Numbered' /\ (Up' => Up)
      BY <2>1, <2>2 DEF Tidy, Aside, Numbered, Up, clientVars, engineVars
    <2> QED BY <2>1, <2>3, <2>4, <2>5
            DEF Tidy, SoundFrom, SoundTo, ServesFrom, ServesTo, clientVars, engineVars
  <1>4. CASE \/ Started \/ Stopped \/ TripStarted \/ Joins \/ TripStopped
             \/ CompletedTrips \/ Replan \/ Replanned \/ Resumed
    <2>1. PICK k \in SessionAnswers \cup BatchAnswers \cup {"completed"} : Reply(k)
      <3>1. \E k \in {"started", "stopped", "tripStarted", "joins", "tripStopped", "completed",
                      "replan", "replanned", "resumed"} : Reply(k)
        BY <1>4 DEF Started, Stopped, TripStarted, Joins, TripStopped, CompletedTrips, Replan,
             Replanned, Resumed
      <3> QED BY <3>1 DEF SessionAnswers, BatchAnswers
    <2>2. /\ Receive(k) /\ k # "engineUp" /\ UNCHANGED <<pending, capsKnown>>
          /\ k \notin Commands /\ k # "remove"
      BY <2>1 DEF Reply, SessionAnswers, BatchAnswers, Commands
    <2>3. capsKnown
      <3>1. msgQ # << >> /\ msgQ \in Queued /\ Head(msgQ).k = k
        BY <2>2 DEF Receive, AtHead, Rest
      <3>2. Head(msgQ) = msgQ[1] /\ 1 \in DOMAIN msgQ
        BY <3>1, TailFacts DEF Queued
      <3> QED BY <2>2, <3>1, <3>2 DEF Tidy, Aside, Idle, Waits
    <2>4. SoundTo(msgQ') /\ (ServesFrom(msgQ) => ServesTo(msgQ'))
      BY <1>0, <1>4, StartAnswersSound, JoinsSound, TripStoppedSound, BatchAnswersSound
    <2> QED BY <2>2, <2>3, <2>4, HandledTidy
  <1>5. CASE EngineUp
    <2>1. /\ capsKnown' = TRUE /\ pending' = << >> /\ sweep = {}
          /\ UNCHANGED <<owner, sweep, plain, trip>>
      BY <1>5 DEF EngineUp, AtHead, clientVars, engineVars
    <2>2. SoundTo(msgQ') /\ ServesTo(msgQ')
      <3>1. CASE capsKnown
        BY <1>0, <1>5, <3>1, NextUpSound DEF Tidy, Aside
      <3>2. CASE ~ capsKnown
        BY <1>0, <1>5, <3>2, FirstUpSound DEF Tidy, Aside
      <3> QED BY <3>1, <3>2
    <2>3. Aside' /\ Numbered' /\ Sweeping'
      BY <2>1 DEF Tidy, Aside, Numbered, Sweeping
    <2> QED BY <2>1, <2>2, <2>3 DEF Tidy, SoundFrom, SoundTo, ServesFrom, ServesTo
  <1> QED BY <1>1, <1>2, <1>3, <1>4, <1>5 DEF AdapterNext

LEMMA InitTidy ==
  ASSUME Init
  PROVE  Tidy
  <1>1. /\ msgQ = << >> /\ apiQ = << >> /\ pending = << >> /\ DOMAIN saved = {} /\ DOMAIN trips = {}
        /\ plain = << >> /\ DOMAIN owner = {} /\ ~ capsKnown /\ ~ link /\ sweep = {} /\ ~ trip.on
    BY DEF Init, NoBatch
  <1>2. DOMAIN owner = 1 .. 0
    BY <1>1
  <1>3. \A i, m : ~ WillRun(apiQ, plain, i, m)
    BY <1>1 DEF WillRun
  <1>4. SoundFrom(msgQ)
    BY <1>1, <1>3 DEF SoundFrom, Sound, Listed, Ordered, About, Running, Fresh
  <1>5. Aside
    BY <1>1 DEF Aside, Idle
  <1>6. Numbered
    BY <1>2 DEF Numbered
  <1> QED BY <1>1, <1>4, <1>5, <1>6 DEF Tidy, Sweeping, Up

\* At rest nothing is on its way, so that what will run is what runs.
LEMMA TidyAtRest ==
  ASSUME Core, Rest, Tidy, AtRest
  PROVE  /\ plain = RestrictValues(saved, LAMBDA mode : mode # "trip")
         /\ DOMAIN trips # {} => trip.on
  <1> DEFINE S == {i \in DOMAIN saved : saved[i] # "trip"}
  <1>1. msgQ = << >> /\ apiQ = << >> /\ Up
    BY DEF AtRest, Up
  <1>2. \A i, m : WillRun(apiQ, plain, i, m) <=> i \in DOMAIN plain /\ plain[i] = m
    BY <1>1 DEF WillRun
  <1>3. SoundFrom(msgQ) /\ ServesFrom(msgQ)
    BY <1>1 DEF Tidy
  <1>4. \A i \in DOMAIN plain : i \in S /\ saved[i] = plain[i]
    BY <1>2, <1>3 DEF SoundFrom, Sound, Running
  <1>5. \A i \in S : i \in DOMAIN plain /\ plain[i] = saved[i]
    BY <1>1, <1>2, <1>3 DEF ServesFrom, Serves
  <1>6. DOMAIN plain = S /\ \A i \in S : plain[i] = saved[i]
    BY <1>4, <1>5
  <1>7. plain = [i \in DOMAIN plain |-> plain[i]]
    BY DEF Rest, Partial
  <1>8. plain = [i \in S |-> saved[i]]
    BY <1>6, <1>7
  <1>9. RestrictValues(saved, LAMBDA mode : mode # "trip") = [i \in S |-> saved[i]]
    BY DEF RestrictValues, Restrict
  <1>10. DOMAIN trips # {} => trip.on
    BY <1>1, <1>3 DEF ServesFrom, Serves, About, WillBatch
  <1> QED BY <1>8, <1>9, <1>10

\* When everything is handled the engine runs exactly the sessions the adapter
\* has saved, in their mode, and batches for the trips, whatever was started,
\* changed and stopped while calls were under way and the engine restarted,
\* refused a start or answered late: unless the engine refused a call that the
\* adapter does not make up for, or a trip was stopped twice, or joined a batch
\* that had ended or was being started or stopped.
THEOREM SessionsAreBatched == Spec => []SessionsBatched
  <1> DEFINE Inv == IInv /\ (Regular => Tidy)
  <1>1. Init => Inv
    BY InitFull, InitTidy
  <1>2. ASSUME Inv, [Next]_vars
        PROVE  Inv'
    <2>1. IInv' /\ TypeOK /\ RefusedStops
      BY <1>2, StepTyped, AdapterFull, OthersFull DEF IInv, Next
    <2>2. Core /\ Rest /\ Core'
      <3>1. TypeOK' => Core'
        BY DEF TypeOK, Core
      <3> QED BY <2>1, <3>1, Parts DEF IInv
    <2>3. ASSUME Regular'
          PROVE  Tidy'
      <3>1. CASE ClientNext
        <4>1. UNCHANGED <<astray, unserved>>
          BY <3>1 DEF ClientNext, Destroy, StartBatchingCommand, StopBatchingCommand,
               UpdateBatchingOptionsCommand, PostCommand, adapterVars, engineVars
        <4>2. Tidy
          BY <1>2, <2>3, <4>1 DEF Regular
        <4> QED BY <2>2, <3>1, <4>2, ClientsTidy
      <3>2. CASE AdapterNext
        <4>1. Regular
          BY <2>3, <3>2, AstrayStays DEF Regular
        <4> QED BY <1>2, <2>1, <2>2, <2>3, <3>2, <4>1, AdapterTidy DEF Regular
      <3>3. CASE EngineNext
        <4>1. astray' = astray /\ (unserved => unserved')
          <5>1. CASE Accept
            BY <5>1 DEF Accept, Serve, adapterVars
          <5>2. CASE Refuse
            BY <5>2 DEF Refuse, Serve, adapterVars
          <5>3. CASE Travel \/ EngineDown \/ OpenLink
            BY <5>3 DEF Travel, EngineDown, OpenLink, adapterVars
          <5> QED BY <3>3, <5>1, <5>2, <5>3 DEF EngineNext
        <4>2. Tidy
          BY <1>2, <2>3, <4>1 DEF Regular
        <4> QED BY <2>2, <2>3, <3>3, <4>2, EngineTidy DEF Regular
      <3>4. CASE UNCHANGED vars
        <4>1. Tidy
          BY <1>2, <2>3, <3>4 DEF Regular, vars, adapterVars, engineVars
        <4> QED BY <3>4, <4>1 DEF vars, clientVars, adapterVars, engineVars, Tidy, Aside, Idle,
                    Numbered, Sweeping, Up, SoundFrom, ServesFrom
      <3> QED BY <1>2, <3>1, <3>2, <3>3, <3>4 DEF Next
    <2> QED BY <2>1, <2>3
  <1>3. Inv => SessionsBatched
    <2>1. IInv => Core /\ Rest
      BY Parts DEF IInv
    <2> QED BY <2>1, TidyAtRest DEF SessionsBatched
  <1> QED BY <1>1, <1>2, <1>3, PTL DEF Spec

-----------------------------------------------------------------------------
(* How many messages of a sequence concern a session, and in which order *)

LEMMA PlacesFinite ==
  ASSUME NEW S, NEW q \in Seq(S), NEW K, NEW id
  PROVE  IsFiniteSet(Places(q, K, id)) /\ Places(q, K, id) \subseteq 1 .. Len(q)
  <1>1. IsFiniteSet(1 .. Len(q))
    BY FS_Interval
  <1>2. Places(q, K, id) \subseteq 1 .. Len(q)
    BY DEF Places
  <1> QED BY <1>1, <1>2, FS_Subset

LEMMA NumberNone ==
  ASSUME NEW S, NEW q \in Seq(S), NEW K, NEW id
  PROVE  /\ Number(q, K, id) \in Nat
         /\ Number(q, K, id) = 0 <=> \A n \in DOMAIN q : ~ Tells(q[n], K, id)
  <1>1. IsFiniteSet(Places(q, K, id))
    BY PlacesFinite
  <1>2. Number(q, K, id) \in Nat /\ (Number(q, K, id) = 0 <=> Places(q, K, id) = {})
    BY <1>1, FS_CardinalityType, FS_EmptySet DEF Number
  <1> QED BY <1>2 DEF Places

LEMMA NumberAppend ==
  ASSUME NEW S, NEW q \in Seq(S), NEW x \in S, NEW K, NEW id
  PROVE  Number(Append(q, x), K, id) = Number(q, K, id) + Worth(x, K, id)
  <1>1. /\ DOMAIN Append(q, x) = DOMAIN q \cup {Len(q) + 1}
        /\ Append(q, x)[Len(q) + 1] = x /\ Len(q) + 1 \notin DOMAIN q
        /\ \A n \in DOMAIN q : Append(q, x)[n] = q[n]
    OBVIOUS
  <1>2. IsFiniteSet(Places(q, K, id)) /\ Number(q, K, id) \in Nat
    BY PlacesFinite, NumberNone
  <1>3. CASE Tells(x, K, id)
    <2>1. Places(Append(q, x), K, id) = Places(q, K, id) \cup {Len(q) + 1}
      BY <1>1, <1>3 DEF Places
    <2>2. Len(q) + 1 \notin Places(q, K, id)
      BY <1>1 DEF Places
    <2>3. Cardinality(Places(q, K, id) \cup {Len(q) + 1}) = Cardinality(Places(q, K, id)) + 1
      BY <1>2, <2>2, FS_AddElement
    <2> QED BY <1>3, <2>1, <2>3 DEF Number, Worth
  <1>4. CASE ~ Tells(x, K, id)
    <2>1. Places(Append(q, x), K, id) = Places(q, K, id)
      BY <1>1, <1>4 DEF Places
    <2> QED BY <1>2, <1>4, <2>1 DEF Number, Worth
  <1> QED BY <1>3, <1>4 DEF Worth

\* The places of a sequence that is moved up by d.
LEMMA NumberMoved ==
  ASSUME NEW P, NEW d \in Nat, P \subseteq Nat, IsFiniteSet(P)
  PROVE  /\ IsFiniteSet({n + d : n \in P}) /\ Cardinality({n + d : n \in P}) = Cardinality(P)
  <1> DEFINE Q == {n + d : n \in P}
             f == [n \in P |-> n + d]
  <1>1. f \in Bijection(P, Q)
    <2>1. \A a, b \in P : f[a] = f[b] => a = b
      OBVIOUS
    <2>2. f \in [P -> Q] /\ \A t \in Q : \E s \in P : f[s] = t
      OBVIOUS
    <2> QED BY <2>1, <2>2 DEF Bijection, Injection, Surjection, IsInjective
  <1> HIDE DEF f, Q
  <1>2. ExistsBijection(P, Q)
    BY <1>1 DEF ExistsBijection
  <1>3. IsFiniteSet(Q) /\ Cardinality(Q) = Cardinality(P)
    BY <1>2, FS_Bijection
  <1> QED BY <1>3 DEF Q

LEMMA NumberTail ==
  ASSUME NEW S, NEW q \in Seq(S), q # << >>, NEW K, NEW id
  PROVE  Number(q, K, id) = Number(Tail(q), K, id) + Worth(Head(q), K, id)
  <1> DEFINE P == Places(Tail(q), K, id)
             Q == {n + 1 : n \in P}
  <1>1. /\ Tail(q) \in Seq(S) /\ Head(q) = q[1] /\ 1 \in DOMAIN q /\ DOMAIN q \subseteq Nat
        /\ \A n \in DOMAIN q : n = 1 \/ n > 1
        /\ \A n \in DOMAIN Tail(q) : n \in Nat /\ n > 0 /\ n + 1 \in DOMAIN q /\ Tail(q)[n] = q[n + 1]
        /\ \A n \in DOMAIN q : n > 1 => n - 1 \in DOMAIN Tail(q) /\ q[n] = Tail(q)[n - 1]
    OBVIOUS
  <1>2. IsFiniteSet(P) /\ P \subseteq Nat /\ Number(Tail(q), K, id) = Cardinality(P)
    <2>1. IsFiniteSet(P) /\ P \subseteq 1 .. Len(Tail(q))
      BY <1>1, PlacesFinite
    <2> QED BY <2>1 DEF Number
  <1>3. IsFiniteSet(Q) /\ Cardinality(Q) = Cardinality(P) /\ Cardinality(P) \in Nat
    BY <1>2, NumberMoved, FS_CardinalityType
  <1>4. \A n \in Q : n > 1
    BY <1>1 DEF Places
  <1>5. \A n \in DOMAIN q : n > 1 => (Tells(q[n], K, id) <=> n \in Q)
    <2>1. ASSUME NEW n \in DOMAIN q, n > 1, Tells(q[n], K, id)
          PROVE  n \in Q
      <3>1. n - 1 \in P /\ (n - 1) + 1 = n
        BY <1>1, <2>1 DEF Places
      <3> QED BY <3>1
    <2>2. ASSUME NEW n \in DOMAIN q, n \in Q
          PROVE  Tells(q[n], K, id)
      BY <1>1, <2>2 DEF Places
    <2> QED BY <2>1, <2>2
  <1>6. \A n \in Q : n \in DOMAIN q
    BY <1>1 DEF Places
  <1>7. CASE Tells(q[1], K, id)
    <2>1. Places(q, K, id) = Q \cup {1}
      BY <1>1, <1>4, <1>5, <1>6, <1>7 DEF Places
    <2>2. 1 \notin Q
      BY <1>4
    <2>3. Cardinality(Q \cup {1}) = Cardinality(Q) + 1
      BY <1>3, <2>2, FS_AddElement
    <2> QED BY <1>1, <1>2, <1>3, <1>7, <2>1, <2>3 DEF Number, Worth
  <1>8. CASE ~ Tells(q[1], K, id)
    <2>1. Places(q, K, id) = Q
      BY <1>1, <1>4, <1>5, <1>6, <1>8 DEF Places
    <2> QED BY <1>1, <1>2, <1>3, <1>8, <2>1 DEF Number, Worth
  <1> QED BY <1>1, <1>7, <1>8 DEF Worth

LEMMA NumberConcat ==
  ASSUME NEW S, NEW q \in Seq(S), NEW r \in Seq(S), NEW K, NEW id
  PROVE  Number(Joined(q, r), K, id) = Number(q, K, id) + Number(r, K, id)
  <1> DEFINE P == Places(q, K, id)
             R == Places(r, K, id)
             Q == {n + Len(q) : n \in R}
  <1>1. /\ Len(q) \in Nat /\ DOMAIN q = 1 .. Len(q) /\ DOMAIN r = 1 .. Len(r) /\ Len(r) \in Nat
        /\ DOMAIN (q \o r) = 1 .. (Len(q) + Len(r))
        /\ \A n \in DOMAIN q : (q \o r)[n] = q[n]
        /\ \A n \in DOMAIN r : (q \o r)[n + Len(q)] = r[n]
    OBVIOUS
  <1>2. IsFiniteSet(P) /\ IsFiniteSet(R) /\ R \subseteq Nat /\ P \subseteq DOMAIN q /\ R \subseteq DOMAIN r
    <2>1. IsFiniteSet(P) /\ P \subseteq 1 .. Len(q) /\ IsFiniteSet(R) /\ R \subseteq 1 .. Len(r)
      BY PlacesFinite
    <2> QED BY <1>1, <2>1
  <1>3. IsFiniteSet(Q) /\ Cardinality(Q) = Cardinality(R)
    BY <1>1, <1>2, NumberMoved
  <1>4. Places(q \o r, K, id) = P \cup Q
    <2>1. ASSUME NEW n \in Places(q \o r, K, id)
          PROVE  n \in P \cup Q
      <3>1. CASE n <= Len(q)
        BY <1>1, <3>1 DEF Places
      <3>2. CASE n > Len(q)
        <4>1. n - Len(q) \in DOMAIN r /\ (n - Len(q)) + Len(q) = n
          BY <1>1, <3>2 DEF Places
        <4>2. n - Len(q) \in R
          BY <1>1, <4>1 DEF Places
        <4> QED BY <4>1, <4>2
      <3> QED BY <1>1, <3>1, <3>2 DEF Places
    <2>2. ASSUME NEW n \in P
          PROVE  n \in Places(q \o r, K, id)
      BY <1>1 DEF Places
    <2>3. ASSUME NEW n \in R
          PROVE  n + Len(q) \in Places(q \o r, K, id)
      BY <1>1 DEF Places
    <2> QED BY <2>1, <2>2, <2>3
  <1>5. P \cap Q = {}
    BY <1>1, <1>2
  <1>6. Cardinality(P \cup Q) = Cardinality(P) + Cardinality(Q)
    <2>1. Cardinality(P \cap Q) = 0 /\ Cardinality(P) \in Nat /\ Cardinality(Q) \in Nat
      BY <1>2, <1>3, <1>5, FS_EmptySet, FS_CardinalityType
    <2> HIDE DEF P, Q, R
    <2>2. Cardinality(P \cup Q) = Cardinality(P) + Cardinality(Q) - Cardinality(P \cap Q)
      BY <1>2, <1>3, FS_Union
    <2> QED BY <2>1, <2>2
  <1> QED BY <1>3, <1>4, <1>6 DEF Number, Joined

LEMMA ClosesCounts ==
  ASSUME NEW S, NEW q \in Seq(S), NEW k, NEW K, NEW id, Closes(q, k, K, id)
  PROVE  /\ Number(q, {k}, id) # 0
         /\ \A L : k \in L => Number(q, L, id) # 0
  <1>1. PICK n \in DOMAIN q : Tells(q[n], {k}, id)
    BY DEF Closes
  <1>2. \A L : k \in L => Tells(q[n], L, id)
    BY <1>1 DEF Tells
  <1> QED BY <1>1, <1>2, NumberNone

LEMMA ClosesAppend ==
  ASSUME NEW S, NEW q \in Seq(S), NEW x \in S, NEW k, NEW K, NEW id
  PROVE  /\ Tells(x, {k}, id) => Closes(Append(q, x), k, K, id)
         /\ Closes(q, k, K, id) /\ ~ Tells(x, K, id) => Closes(Append(q, x), k, K, id)
  <1>1. /\ DOMAIN Append(q, x) = DOMAIN q \cup {Len(q) + 1}
        /\ Append(q, x)[Len(q) + 1] = x /\ DOMAIN q \subseteq Nat /\ Len(q) + 1 \in Nat
        /\ \A n \in DOMAIN q : Append(q, x)[n] = q[n] /\ n < Len(q) + 1
    OBVIOUS
  <1>2. ASSUME Tells(x, {k}, id)
        PROVE  Closes(Append(q, x), k, K, id)
    <2>1. \A m \in DOMAIN Append(q, x) : ~ (m > Len(q) + 1)
      BY <1>1
    <2> QED BY <1>1, <1>2, <2>1 DEF Closes
  <1>3. ASSUME Closes(q, k, K, id), ~ Tells(x, K, id)
        PROVE  Closes(Append(q, x), k, K, id)
    <2>1. PICK n \in DOMAIN q : /\ Tells(q[n], {k}, id)
                               /\ \A m \in DOMAIN q : m > n => ~ Tells(q[m], K, id)
      BY <1>3 DEF Closes
    <2>2. n \in DOMAIN Append(q, x) /\ Append(q, x)[n] = q[n]
      BY <1>1
    <2>3. \A m \in DOMAIN Append(q, x) : m > n => ~ Tells(Append(q, x)[m], K, id)
      BY <1>1, <1>3, <2>1
    <2> QED BY <2>1, <2>2, <2>3 DEF Closes
  <1> QED BY <1>2, <1>3

LEMMA ClosesTail ==
  ASSUME NEW S, NEW q \in Seq(S), q # << >>, NEW k, NEW K, NEW id, Closes(q, k, K, id)
  PROVE  \/ Closes(Tail(q), k, K, id)
         \/ Tells(Head(q), {k}, id) /\ Number(Tail(q), K, id) = 0
  <1>1. /\ Tail(q) \in Seq(S) /\ Head(q) = q[1] /\ 1 \in DOMAIN q /\ DOMAIN q \subseteq Nat
        /\ \A n \in DOMAIN q : n = 1 \/ n > 1
        /\ \A n \in DOMAIN Tail(q) : n \in Nat /\ n + 1 > 1 /\ n + 1 \in DOMAIN q /\ Tail(q)[n] = q[n + 1]
        /\ \A n \in DOMAIN q : n > 1 => n - 1 \in DOMAIN Tail(q) /\ q[n] = Tail(q)[n - 1]
    OBVIOUS
  <1>2. PICK n \in DOMAIN q : /\ Tells(q[n], {k}, id)
                             /\ \A m \in DOMAIN q : m > n => ~ Tells(q[m], K, id)
    BY DEF Closes
  <1>3. CASE n = 1
    <2>1. \A m \in DOMAIN Tail(q) : ~ Tells(Tail(q)[m], K, id)
      BY <1>1, <1>2, <1>3
    <2> QED BY <1>1, <1>2, <1>3, <2>1, NumberNone
  <1>4. CASE n > 1
    <2>1. n - 1 \in DOMAIN Tail(q) /\ Tells(Tail(q)[n - 1], {k}, id)
      BY <1>1, <1>2, <1>4
    <2>2. ASSUME NEW m \in DOMAIN Tail(q), m > n - 1
          PROVE  ~ Tells(Tail(q)[m], K, id)
      <3>1. m + 1 \in DOMAIN q /\ m + 1 > n /\ Tail(q)[m] = q[m + 1]
        BY <1>1, <2>2
      <3> QED BY <1>2, <3>1
    <2> QED BY <2>1, <2>2 DEF Closes
  <1> QED BY <1>1, <1>3, <1>4

LEMMA ClosesConcat ==
  ASSUME NEW S, NEW q \in Seq(S), NEW r \in Seq(S), NEW k, NEW K, NEW id
  PROVE  /\ Closes(r, k, K, id) => Closes(q \o r, k, K, id)
         /\ Closes(q, k, K, id) /\ Number(r, K, id) = 0 => Closes(q \o r, k, K, id)
  <1>1. /\ Len(q) \in Nat /\ DOMAIN q = 1 .. Len(q) /\ DOMAIN r = 1 .. Len(r) /\ Len(r) \in Nat
        /\ DOMAIN (q \o r) = 1 .. (Len(q) + Len(r))
        /\ \A n \in DOMAIN q : (q \o r)[n] = q[n]
        /\ \A n \in DOMAIN r : (q \o r)[n + Len(q)] = r[n]
    OBVIOUS
  <1>2. \A n \in DOMAIN (q \o r) : n > Len(q) => n - Len(q) \in DOMAIN r /\ (q \o r)[n] = r[n - Len(q)]
    <2>1. ASSUME NEW n \in DOMAIN (q \o r), n > Len(q)
          PROVE  n - Len(q) \in DOMAIN r /\ (n - Len(q)) + Len(q) = n
      BY <1>1, <2>1
    <2> QED BY <1>1, <2>1
  <1>3. ASSUME Closes(r, k, K, id)
        PROVE  Closes(q \o r, k, K, id)
    <2>1. PICK n \in DOMAIN r : /\ Tells(r[n], {k}, id)
                               /\ \A m \in DOMAIN r : m > n => ~ Tells(r[m], K, id)
      BY <1>3 DEF Closes
    <2>2. n + Len(q) \in DOMAIN (q \o r) /\ Tells((q \o r)[n + Len(q)], {k}, id)
      BY <1>1, <2>1
    <2>3. ASSUME NEW m \in DOMAIN (q \o r), m > n + Len(q)
          PROVE  ~ Tells((q \o r)[m], K, id)
      <3>1. m > Len(q) /\ m - Len(q) > n
        BY <1>1, <2>3
      <3> QED BY <1>2, <2>1, <3>1
    <2> QED BY <2>2, <2>3 DEF Closes
  <1>4. ASSUME Closes(q, k, K, id), Number(r, K, id) = 0
        PROVE  Closes(q \o r, k, K, id)
    <2>1. PICK n \in DOMAIN q : /\ Tells(q[n], {k}, id)
                               /\ \A m \in DOMAIN q : m > n => ~ Tells(q[m], K, id)
      BY <1>4 DEF Closes
    <2>2. \A m \in DOMAIN r : ~ Tells(r[m], K, id)
      BY <1>4, NumberNone
    <2>3. n \in DOMAIN (q \o r) /\ Tells((q \o r)[n], {k}, id)
      BY <1>1, <2>1
    <2>4. ASSUME NEW m \in DOMAIN (q \o r), m > n
          PROVE  ~ Tells((q \o r)[m], K, id)
      <3>1. CASE m > Len(q)
        BY <1>2, <2>2, <3>1
      <3>2. CASE ~ (m > Len(q))
        BY <1>1, <2>1, <2>4, <3>2
      <3> QED BY <3>1, <3>2
    <2> QED BY <2>3, <2>4 DEF Closes
  <1> QED BY <1>3, <1>4

LEMMA PrecedesTail ==
  ASSUME NEW S, NEW q \in Seq(S), q # << >>, NEW k, NEW K, NEW id
  PROVE  /\ Precedes(Tail(q), K, k, id) => Precedes(q, K, k, id)
         /\ Precedes(q, K, k, id) => \/ Precedes(Tail(q), K, k, id)
                                     \/ Tells(Head(q), K, id) /\ Number(Tail(q), {k}, id) # 0
         /\ Tells(Head(q), K, id) /\ Number(Tail(q), {k}, id) # 0 => Precedes(q, K, k, id)
  <1>1. /\ Tail(q) \in Seq(S) /\ Head(q) = q[1] /\ 1 \in DOMAIN q /\ DOMAIN q \subseteq Nat
        /\ \A n \in DOMAIN q : n = 1 \/ n > 1
        /\ \A n \in DOMAIN Tail(q) : n \in Nat /\ n + 1 > 1 /\ n + 1 \in DOMAIN q /\ Tail(q)[n] = q[n + 1]
        /\ \A n \in DOMAIN q : n > 1 => n - 1 \in DOMAIN Tail(q) /\ q[n] = Tail(q)[n - 1]
    OBVIOUS
  <1>2. ASSUME Precedes(Tail(q), K, k, id)
        PROVE  Precedes(q, K, k, id)
    <2>1. PICK n, m \in DOMAIN Tail(q) : n < m /\ Tells(Tail(q)[n], K, id) /\ Tells(Tail(q)[m], {k}, id)
      BY <1>2 DEF Precedes
    <2>2. n + 1 \in DOMAIN q /\ m + 1 \in DOMAIN q /\ n + 1 < m + 1
      BY <1>1, <2>1
    <2> QED BY <1>1, <2>1, <2>2 DEF Precedes
  <1>3. ASSUME Precedes(q, K, k, id)
        PROVE  \/ Precedes(Tail(q), K, k, id)
               \/ Tells(Head(q), K, id) /\ Number(Tail(q), {k}, id) # 0
    <2>1. PICK n, m \in DOMAIN q : n < m /\ Tells(q[n], K, id) /\ Tells(q[m], {k}, id)
      BY <1>3 DEF Precedes
    <2>2. m > 1 /\ m - 1 \in DOMAIN Tail(q) /\ Tells(Tail(q)[m - 1], {k}, id)
      BY <1>1, <2>1
    <2>3. CASE n = 1
      BY <1>1, <2>1, <2>2, <2>3, NumberNone
    <2>4. CASE n > 1
      <3>1. n - 1 \in DOMAIN Tail(q) /\ Tells(Tail(q)[n - 1], K, id)
        BY <1>1, <2>1, <2>4
      <3>2. n - 1 < m - 1
        <4>1. n \in Int /\ m \in Int
          BY <1>1
        <4> HIDE <1>1
        <4> QED BY <2>1, <4>1
      <3> QED BY <2>2, <3>1, <3>2 DEF Precedes
    <2> QED BY <1>1, <2>3, <2>4
  <1>4. ASSUME Tells(Head(q), K, id), Number(Tail(q), {k}, id) # 0
        PROVE  Precedes(q, K, k, id)
    <2>1. PICK m \in DOMAIN Tail(q) : Tells(Tail(q)[m], {k}, id)
      BY <1>1, <1>4, NumberNone
    <2>2. m + 1 \in DOMAIN q /\ 1 < m + 1 /\ Tells(q[m + 1], {k}, id)
      BY <1>1, <2>1
    <2> QED BY <1>1, <1>4, <2>2 DEF Precedes
  <1> QED BY <1>2, <1>3, <1>4

LEMMA PrecedesAppend ==
  ASSUME NEW S, NEW q \in Seq(S), NEW x \in S, NEW k, NEW K, NEW id
  PROVE  /\ Precedes(q, K, k, id) => Precedes(Append(q, x), K, k, id)
         /\ Precedes(Append(q, x), K, k, id) =>
              (Precedes(q, K, k, id) \/ (Tells(x, {k}, id) /\ Number(q, K, id) # 0))
  <1>1. /\ DOMAIN Append(q, x) = DOMAIN q \cup {Len(q) + 1}
        /\ Append(q, x)[Len(q) + 1] = x /\ DOMAIN q \subseteq Nat /\ Len(q) + 1 \in Nat
        /\ \A n \in DOMAIN q : Append(q, x)[n] = q[n] /\ n < Len(q) + 1
    OBVIOUS
  <1>2. ASSUME Precedes(q, K, k, id)
        PROVE  Precedes(Append(q, x), K, k, id)
    BY <1>1, <1>2 DEF Precedes
  <1>3. ASSUME Precedes(Append(q, x), K, k, id), ~ Precedes(q, K, k, id)
        PROVE  Tells(x, {k}, id) /\ Number(q, K, id) # 0
    <2>1. PICK n, m \in DOMAIN Append(q, x) :
             n < m /\ Tells(Append(q, x)[n], K, id) /\ Tells(Append(q, x)[m], {k}, id)
      BY <1>3 DEF Precedes
    <2>2. n \in DOMAIN q /\ Append(q, x)[n] = q[n]
      BY <1>1, <2>1
    <2>3. m \notin DOMAIN q
      BY <1>1, <1>3, <2>1, <2>2 DEF Precedes
    <2>4. m = Len(q) + 1
      BY <1>1, <2>3
    <2> QED BY <1>1, <2>1, <2>2, <2>4, NumberNone
  <1> QED BY <1>2, <1>3

LEMMA PrecedesConcat ==
  ASSUME NEW S, NEW q \in Seq(S), NEW r \in Seq(S), NEW k, NEW K, NEW id,
         Number(q, K, id) # 0, Number(r, {k}, id) # 0
  PROVE  Precedes(q \o r, K, k, id)
  <1>1. /\ Len(q) \in Nat /\ DOMAIN q = 1 .. Len(q) /\ DOMAIN r = 1 .. Len(r) /\ Len(r) \in Nat
        /\ DOMAIN (q \o r) = 1 .. (Len(q) + Len(r))
        /\ \A n \in DOMAIN q : (q \o r)[n] = q[n]
        /\ \A n \in DOMAIN r : (q \o r)[n + Len(q)] = r[n]
    OBVIOUS
  <1>2. PICK n \in DOMAIN q : Tells(q[n], K, id)
    BY NumberNone
  <1>3. PICK m \in DOMAIN r : Tells(r[m], {k}, id)
    BY NumberNone
  <1>4. n \in DOMAIN (q \o r) /\ m + Len(q) \in DOMAIN (q \o r) /\ n < m + Len(q)
    BY <1>1
  <1> QED BY <1>1, <1>2, <1>3, <1>4 DEF Precedes

-----------------------------------------------------------------------------
(* The commands, calls and answers under way, counted by session *)

LEMMA WorthTyped ==
  ASSUME NEW m, NEW id, NEW K
  PROVE  /\ Worth(m, K, id) \in Nat
         /\ Tells(m, K, id) => Worth(m, K, id) = 1
         /\ ~ Tells(m, K, id) => Worth(m, K, id) = 0
  BY DEF Worth

LEMMA TailNumber ==
  ASSUME NEW S, NEW q \in Seq(S), NEW id, q # << >>, NEW K
  PROVE  /\ Number(q, K, id) = Number(Tail(q), K, id) + Worth(Head(q), K, id)
         /\ Number(q, K, id) \in Nat /\ Number(Tail(q), K, id) \in Nat
  <1>1. Tail(q) \in Seq(S)
    OBVIOUS
  <1> QED BY <1>1, NumberTail, NumberNone

LEMMA AppendNumber ==
  ASSUME NEW S, NEW q \in Seq(S), NEW x \in S, NEW id, NEW K
  PROVE  /\ Number(Append(q, x), K, id) = Number(q, K, id) + Worth(x, K, id)
         /\ Number(q, K, id) \in Nat
  BY NumberAppend, NumberNone

LEMMA TellsKinds ==
  ASSUME NEW m, NEW id
  PROVE  /\ Tells(m, Business, id) <=> Tells(m, Posted, id) \/ Tells(m, Replied, id)
         /\ Tells(m, Posted, id) <=> Tells(m, {"start"}, id) \/ Tells(m, {"stop"}, id) \/ Tells(m, {"get"}, id)
         /\ Tells(m, Replied, id) <=> Tells(m, {"started"}, id) \/ Tells(m, {"stopped"}, id) \/ Tells(m, {"got"}, id)
         /\ ~ (Tells(m, Posted, id) /\ Tells(m, Replied, id))
         /\ Tells(m, {"start"}, id) => ~ Tells(m, {"stop"}, id)
         /\ Tells(m, {"started"}, id) => ~ Tells(m, {"stopped"}, id)
         /\ Tells(m, {"got"}, id) => ~ Tells(m, {"stopped"}, id) /\ ~ Tells(m, {"started"}, id)
         /\ Tells(m, {"get"}, id) => ~ Tells(m, {"stop"}, id) /\ ~ Tells(m, {"start"}, id)
  BY DEF Tells, Business, Posted, Replied

LEMMA NumberKinds ==
  ASSUME NEW S, NEW q \in Seq(S), NEW id
  PROVE  /\ \A K : Number(q, K, id) \in Nat
         /\ Number(q, Business, id) = 0 => \A k \in Business : Number(q, {k}, id) = 0
         /\ Number(q, Business, id) = 0 => Number(q, Posted, id) = 0 /\ Number(q, Replied, id) = 0
         /\ Number(q, Posted, id) = 0 => \A k \in Posted : Number(q, {k}, id) = 0
         /\ Number(q, Replied, id) = 0 => \A k \in Replied : Number(q, {k}, id) = 0
  <1>1. \A K : Number(q, K, id) \in Nat /\ (Number(q, K, id) = 0 <=> \A n \in DOMAIN q : ~ Tells(q[n], K, id))
    BY NumberNone
  <1>2. \A n \in DOMAIN q, k \in Business : Tells(q[n], {k}, id) => Tells(q[n], Business, id)
    BY DEF Tells
  <1>3. \A n \in DOMAIN q : Tells(q[n], Posted, id) \/ Tells(q[n], Replied, id) => Tells(q[n], Business, id)
    BY TellsKinds
  <1>4. \A n \in DOMAIN q, k \in Posted : Tells(q[n], {k}, id) => Tells(q[n], Posted, id)
    BY DEF Tells
  <1>5. \A n \in DOMAIN q, k \in Replied : Tells(q[n], {k}, id) => Tells(q[n], Replied, id)
    BY DEF Tells
  <1> QED BY <1>1, <1>2, <1>3, <1>4, <1>5

LEMMA YoungestOpen ==
  ASSUME NEW S, NEW w \in Seq(S), NEW p \in Seq(S), NEW r \in Seq(S), NEW id, Youngest(w, p, r, id)
  PROVE  Open(w, p, r, id) # 0
  <1>1. "stop" \in Business /\ "stopped" \in Business
    BY DEF Business, Posted, Replied
  <1>2. Number(w, Business, id) # 0 \/ Number(p, Business, id) # 0 \/ Number(r, Business, id) # 0
    BY <1>1, ClosesCounts DEF Youngest
  <1> QED BY <1>2, NumberKinds DEF Open

LEMMA AsideOpen ==
  ASSUME NEW S, NEW w \in Seq(S), NEW p \in Seq(S), NEW r \in Seq(S), NEW id, w # << >>, Head(w).k \in Posted
  PROVE  /\ Open(Tail(w), Append(p, Head(w)), r, id) = Open(w, p, r, id)
         /\ Starts(Tail(w), Append(p, Head(w)), id) = Starts(w, p, id)
         /\ Halts(Tail(w), r, id) = Halts(w, r, id)
         /\ Answering(Tail(w), r, id) = Answering(w, r, id)
         /\ Starting(Tail(w), Append(p, Head(w)), r, id) = Starting(w, p, r, id)
         /\ Youngest(w, p, r, id) => Youngest(Tail(w), Append(p, Head(w)), r, id)
  <1>0. Head(w) \in S /\ Tail(w) \in Seq(S) /\ Append(p, Head(w)) \in Seq(S)
    OBVIOUS
  <1>9. \A x, K : /\ Worth(x, K, id) \in Nat
                  /\ Tells(x, K, id) => Worth(x, K, id) = 1
                  /\ ~ Tells(x, K, id) => Worth(x, K, id) = 0
    BY WorthTyped
  <1>1. \A K : /\ Number(w, K, id) = Number(Tail(w), K, id) + Worth(Head(w), K, id)
               /\ Number(Append(p, Head(w)), K, id) = Number(p, K, id) + Worth(Head(w), K, id)
               /\ Number(w, K, id) \in Nat /\ Number(Tail(w), K, id) \in Nat /\ Number(p, K, id) \in Nat
    <2> TAKE K
    <2> QED BY <1>0, TailNumber, AppendNumber, NumberNone
  <1>2. ~ Tells(Head(w), Replied, id) /\ ~ Tells(Head(w), {"started"}, id) /\ ~ Tells(Head(w), {"stopped"}, id)
    BY DEF Tells, Posted, Replied
  <1>3. \A K : Number(r, K, id) \in Nat
    BY NumberNone
  <1>4. ASSUME Youngest(w, p, r, id)
        PROVE  Youngest(Tail(w), Append(p, Head(w)), r, id)
    <2>1. CASE Closes(w, "stop", Posted, id)
      <3>1. CASE Closes(Tail(w), "stop", Posted, id)
        BY <3>1 DEF Youngest
      <3>2. CASE Tells(Head(w), {"stop"}, id) /\ Number(Tail(w), Posted, id) = 0
        <4>1. Closes(Append(p, Head(w)), "stop", Posted, id)
          BY <1>0, <3>2, ClosesAppend
        <4> QED BY <3>2, <4>1 DEF Youngest
      <3> QED BY <2>1, <3>1, <3>2, ClosesTail
    <2>2. CASE Number(w, Posted, id) = 0
      <3>1. Number(Tail(w), Posted, id) = 0 /\ ~ Tells(Head(w), Posted, id)
        BY <1>1, <1>9, <2>2
      <3>2. Closes(p, "stop", Posted, id) => Closes(Append(p, Head(w)), "stop", Posted, id)
        BY <1>0, <3>1, ClosesAppend
      <3>3. Number(p, Posted, id) = 0 => Number(Append(p, Head(w)), Posted, id) = 0
        BY <1>1, <1>9, <3>1
      <3>4. Closes(w, "stopped", Replied, id) => Closes(Tail(w), "stopped", Replied, id)
        BY <1>2, ClosesTail
      <3>5. ~ Closes(w, "stop", Posted, id)
        BY <2>2, ClosesCounts DEF Posted
      <3> QED BY <1>4, <2>2, <3>1, <3>2, <3>3, <3>4, <3>5 DEF Youngest
    <2> QED BY <1>4, <2>1, <2>2 DEF Youngest
  <1>10. Open(Tail(w), Append(p, Head(w)), r, id) = Open(w, p, r, id)
    BY <1>1, <1>9, <1>2, <1>3, <1>4 DEF Open
  <1>11. Starts(Tail(w), Append(p, Head(w)), id) = Starts(w, p, id)
    BY <1>1, <1>9, <1>2, <1>3, <1>4 DEF Starts
  <1>12. Halts(Tail(w), r, id) = Halts(w, r, id)
    BY <1>1, <1>9, <1>2, <1>3, <1>4 DEF Halts
  <1>13. Answering(Tail(w), r, id) = Answering(w, r, id)
    BY <1>1, <1>9, <1>2, <1>3, <1>4 DEF Answering
  <1>14. Starting(Tail(w), Append(p, Head(w)), r, id) = Starting(w, p, r, id)
    BY <1>1, <1>9, <1>2, <1>3, <1>4 DEF Starting, Starts
  <1> QED BY <1>10, <1>11, <1>12, <1>13, <1>14, <1>3, <1>4

\* A command leads to a call, and its answer.
Leads(c, m) ==
  /\ m.id = c.id
  /\ \/ c.k = "start" /\ m.k = "started"
     \/ c.k = "stop" /\ m.k = "stopped"
     \/ c.k = "get" /\ m.k = "got"

LEMMA CalledOpen ==
  ASSUME NEW S, NEW w \in Seq(S), NEW p \in Seq(S), NEW r \in Seq(S), NEW id, w # << >>, NEW m \in S,
         Leads(Head(w), m), Number(p, Posted, id) = 0
  PROVE  /\ Open(Tail(w), p, Append(r, m), id) = Open(w, p, r, id)
         /\ Starts(w, p, id) = Starts(Tail(w), p, id) + Worth(Head(w), {"start"}, id)
         /\ Halts(Tail(w), Append(r, m), id) = Halts(w, r, id) + Worth(Head(w), {"stop"}, id)
         /\ Answering(Tail(w), Append(r, m), id) = Answering(w, r, id) + Worth(Head(w), Posted, id)
         /\ Starting(Tail(w), p, Append(r, m), id) = Starting(w, p, r, id)
         /\ Youngest(w, p, r, id) => Youngest(Tail(w), p, Append(r, m), id)
  <1>0. Head(w) \in S /\ Tail(w) \in Seq(S) /\ Append(r, m) \in Seq(S)
    OBVIOUS
  <1>9. \A x, K : /\ Worth(x, K, id) \in Nat
                  /\ Tells(x, K, id) => Worth(x, K, id) = 1
                  /\ ~ Tells(x, K, id) => Worth(x, K, id) = 0
    BY WorthTyped
  <1>1. \A K : /\ Number(w, K, id) = Number(Tail(w), K, id) + Worth(Head(w), K, id)
               /\ Number(Append(r, m), K, id) = Number(r, K, id) + Worth(m, K, id)
               /\ Number(w, K, id) \in Nat /\ Number(Tail(w), K, id) \in Nat /\ Number(r, K, id) \in Nat
               /\ Number(p, K, id) \in Nat
    <2> TAKE K
    <2> QED BY <1>0, TailNumber, AppendNumber, NumberNone
  <1>8. /\ Worth(m, Business, id) = Worth(Head(w), Business, id)
        /\ Worth(m, Replied, id) = Worth(Head(w), Posted, id)
        /\ Worth(m, {"started"}, id) = Worth(Head(w), {"start"}, id)
        /\ Worth(m, {"stopped"}, id) = Worth(Head(w), {"stop"}, id)
    BY DEF Leads, Tells, Posted, Replied, Business, Worth
  <1>2. /\ Tells(m, Replied, id) => Tells(Head(w), Posted, id)
        /\ Tells(Head(w), {"stop"}, id) => Tells(m, {"stopped"}, id)
        /\ ~ Tells(Head(w), Replied, id) /\ ~ Tells(Head(w), {"started"}, id) /\ ~ Tells(Head(w), {"stopped"}, id)
        /\ ~ Tells(m, Posted, id)
    BY DEF Leads, Tells, Posted, Replied, Business
  <1>4. ASSUME Youngest(w, p, r, id)
        PROVE  Youngest(Tail(w), p, Append(r, m), id)
    <2>1. CASE Closes(w, "stop", Posted, id)
      <3>1. CASE Closes(Tail(w), "stop", Posted, id)
        BY <3>1 DEF Youngest
      <3>2. CASE Tells(Head(w), {"stop"}, id) /\ Number(Tail(w), Posted, id) = 0
        <4>1. Closes(Append(r, m), "stopped", Replied, id)
          BY <1>0, <1>2, <3>2, ClosesAppend
        <4> QED BY <3>2, <4>1 DEF Youngest
      <3> QED BY <2>1, <3>1, <3>2, ClosesTail
    <2>2. CASE Number(w, Posted, id) = 0
      <3>1. Number(Tail(w), Posted, id) = 0 /\ ~ Tells(Head(w), Posted, id) /\ ~ Tells(m, Replied, id)
        <4>1. Number(w, Posted, id) = Number(Tail(w), Posted, id) + Worth(Head(w), Posted, id)
          BY <1>1
        <4>2. Number(Tail(w), Posted, id) \in Nat /\ Worth(Head(w), Posted, id) \in Nat
          BY <1>1, <1>9
        <4>3. Number(Tail(w), Posted, id) = 0 /\ Worth(Head(w), Posted, id) = 0
          BY <2>2, <4>1, <4>2
        <4> QED BY <1>2, <1>9, <4>3
      <3>2. Closes(r, "stopped", Replied, id) => Closes(Append(r, m), "stopped", Replied, id)
        BY <1>0, <3>1, ClosesAppend
      <3>3. Number(r, Replied, id) = 0 => Number(Append(r, m), Replied, id) = 0
        BY <1>1, <1>9, <3>1
      <3>4. Closes(w, "stopped", Replied, id) => Closes(Tail(w), "stopped", Replied, id)
        BY <1>2, ClosesTail
      <3>5. ~ Closes(w, "stop", Posted, id)
        BY <2>2, ClosesCounts DEF Posted
      <3> QED BY <1>4, <2>2, <3>1, <3>2, <3>3, <3>4, <3>5 DEF Youngest
    <2> QED BY <1>4, <2>1, <2>2 DEF Youngest
  <1>10. Open(Tail(w), p, Append(r, m), id) = Open(w, p, r, id)
    <2>1. /\ Number(w, Business, id) = Number(Tail(w), Business, id) + Worth(Head(w), Business, id)
          /\ Number(Append(r, m), Business, id) = Number(r, Business, id) + Worth(m, Business, id)
          /\ Worth(m, Business, id) = Worth(Head(w), Business, id) /\ Worth(Head(w), Business, id) \in Nat
          /\ Number(Tail(w), Business, id) \in Nat /\ Number(p, Business, id) \in Nat /\ Number(r, Business, id) \in Nat
      BY <1>1, <1>8, <1>9, <1>2
    <2> QED BY <2>1 DEF Open
  <1>11. Starts(w, p, id) = Starts(Tail(w), p, id) + Worth(Head(w), {"start"}, id)
    <2>1. /\ Number(w, {"start"}, id) = Number(Tail(w), {"start"}, id) + Worth(Head(w), {"start"}, id)
          /\ Number(Append(r, m), {"start"}, id) = Number(r, {"start"}, id) + Worth(m, {"start"}, id)
          /\ Worth(Head(w), {"start"}, id) \in Nat
          /\ Number(Tail(w), {"start"}, id) \in Nat /\ Number(p, {"start"}, id) \in Nat /\ Number(r, {"start"}, id) \in Nat
      BY <1>1, <1>8, <1>9, <1>2
    <2> QED BY <2>1 DEF Starts
  <1>12. Halts(Tail(w), Append(r, m), id) = Halts(w, r, id) + Worth(Head(w), {"stop"}, id)
    <2>1. /\ Number(w, {"stopped"}, id) = Number(Tail(w), {"stopped"}, id) + Worth(Head(w), {"stopped"}, id)
          /\ Number(Append(r, m), {"stopped"}, id) = Number(r, {"stopped"}, id) + Worth(m, {"stopped"}, id)
          /\ Worth(m, {"stopped"}, id) = Worth(Head(w), {"stop"}, id) /\ Worth(Head(w), {"stop"}, id) \in Nat
          /\ Worth(Head(w), {"stopped"}, id) = 0
          /\ Number(Tail(w), {"stopped"}, id) \in Nat /\ Number(p, {"stopped"}, id) \in Nat /\ Number(r, {"stopped"}, id) \in Nat
      BY <1>1, <1>8, <1>9, <1>2
    <2> QED BY <2>1 DEF Halts
  <1>13. Answering(Tail(w), Append(r, m), id) = Answering(w, r, id) + Worth(Head(w), Posted, id)
    <2>1. /\ Number(w, Replied, id) = Number(Tail(w), Replied, id) + Worth(Head(w), Replied, id)
          /\ Number(Append(r, m), Replied, id) = Number(r, Replied, id) + Worth(m, Replied, id)
          /\ Worth(m, Replied, id) = Worth(Head(w), Posted, id) /\ Worth(Head(w), Posted, id) \in Nat
          /\ Worth(Head(w), Replied, id) = 0
          /\ Number(Tail(w), Replied, id) \in Nat /\ Number(p, Replied, id) \in Nat /\ Number(r, Replied, id) \in Nat
      BY <1>1, <1>8, <1>9, <1>2
    <2> QED BY <2>1 DEF Answering
  <1>14. Starting(Tail(w), p, Append(r, m), id) = Starting(w, p, r, id)
    <2>1. /\ Number(w, {"start"}, id) = Number(Tail(w), {"start"}, id) + Worth(Head(w), {"start"}, id)
          /\ Number(Append(r, m), {"start"}, id) = Number(r, {"start"}, id) + Worth(m, {"start"}, id)
          /\ Worth(Head(w), {"start"}, id) \in Nat
          /\ Number(Tail(w), {"start"}, id) \in Nat /\ Number(p, {"start"}, id) \in Nat /\ Number(r, {"start"}, id) \in Nat
          /\ Number(w, {"started"}, id) = Number(Tail(w), {"started"}, id) + Worth(Head(w), {"started"}, id)
          /\ Number(Append(r, m), {"started"}, id) = Number(r, {"started"}, id) + Worth(m, {"started"}, id)
          /\ Worth(m, {"started"}, id) = Worth(Head(w), {"start"}, id) /\ Worth(Head(w), {"start"}, id) \in Nat
          /\ Worth(Head(w), {"started"}, id) = 0
          /\ Number(Tail(w), {"started"}, id) \in Nat /\ Number(p, {"started"}, id) \in Nat /\ Number(r, {"started"}, id) \in Nat
      BY <1>1, <1>8, <1>9, <1>2
    <2> QED BY <2>1 DEF Starting, Starts
  <1> QED BY <1>10, <1>11, <1>12, <1>13, <1>14, <1>4

LEMMA DoneOpen ==
  ASSUME NEW S, NEW w \in Seq(S), NEW p \in Seq(S), NEW r \in Seq(S), NEW id, w # << >>
  PROVE  /\ Open(w, p, r, id) = Open(Tail(w), p, r, id) + Worth(Head(w), Business, id)
         /\ Starts(w, p, id) = Starts(Tail(w), p, id) + Worth(Head(w), {"start"}, id)
         /\ Halts(w, r, id) = Halts(Tail(w), r, id) + Worth(Head(w), {"stopped"}, id)
         /\ Answering(w, r, id) = Answering(Tail(w), r, id) + Worth(Head(w), Replied, id)
         /\ ~ Tells(Head(w), {"start", "started"}, id) => Starting(Tail(w), p, r, id) = Starting(w, p, r, id)
         /\ Youngest(w, p, r, id) /\ ~ Tells(Head(w), {"stop", "stopped"}, id) => Youngest(Tail(w), p, r, id)
         /\ Youngest(w, p, r, id) /\ ~ Tells(Head(w), {"stop"}, id) =>
              Youngest(Tail(w), p, r, id)
              \/ /\ Number(Tail(w), Posted, id) = 0 /\ Number(Tail(w), Replied, id) = 0
                 /\ Number(p, Posted, id) = 0 /\ Number(r, Replied, id) = 0
  <1>0. Head(w) \in S /\ Tail(w) \in Seq(S)
    OBVIOUS
  <1>9. \A x, K : /\ Worth(x, K, id) \in Nat
                  /\ Tells(x, K, id) => Worth(x, K, id) = 1
                  /\ ~ Tells(x, K, id) => Worth(x, K, id) = 0
    BY WorthTyped
  <1>1. \A K : /\ Number(w, K, id) = Number(Tail(w), K, id) + Worth(Head(w), K, id)
               /\ Number(w, K, id) \in Nat /\ Number(Tail(w), K, id) \in Nat /\ Number(r, K, id) \in Nat
               /\ Number(p, K, id) \in Nat
    <2> TAKE K
    <2> QED BY <1>0, TailNumber, NumberNone
  <1>2. /\ Tells(Head(w), {"start", "started"}, id) <=> Tells(Head(w), {"start"}, id) \/ Tells(Head(w), {"started"}, id)
        /\ Tells(Head(w), {"stop", "stopped"}, id) <=> Tells(Head(w), {"stop"}, id) \/ Tells(Head(w), {"stopped"}, id)
    BY DEF Tells
  <1>4. ASSUME Youngest(w, p, r, id), ~ Tells(Head(w), {"stop"}, id),
               \/ Tells(Head(w), {"stopped"}, id) => ~ /\ Number(Tail(w), Posted, id) = 0 /\ Number(Tail(w), Replied, id) = 0
                                                       /\ Number(p, Posted, id) = 0 /\ Number(r, Replied, id) = 0
        PROVE  Youngest(Tail(w), p, r, id)
    <2>1. CASE Closes(w, "stop", Posted, id)
      <3>1. Closes(Tail(w), "stop", Posted, id)
        BY <1>4, <2>1, ClosesTail
      <3> QED BY <3>1 DEF Youngest
    <2>2. CASE Number(w, Posted, id) = 0
      <3>1. Number(Tail(w), Posted, id) = 0
        BY <1>1, <1>9, <2>2
      <3>2. ASSUME Closes(w, "stopped", Replied, id), Number(p, Posted, id) = 0, Number(r, Replied, id) = 0
            PROVE  Closes(Tail(w), "stopped", Replied, id)
        BY <1>4, <3>1, <3>2, ClosesTail
      <3>5. ~ Closes(w, "stop", Posted, id)
        BY <2>2, ClosesCounts DEF Posted
      <3> QED BY <1>4, <2>2, <3>1, <3>2, <3>5 DEF Youngest
    <2> QED BY <1>4, <2>1, <2>2 DEF Youngest
  <1>5. Youngest(w, p, r, id) /\ ~ Tells(Head(w), {"stop", "stopped"}, id) => Youngest(Tail(w), p, r, id)
    BY <1>2, <1>4
  <1>6. Youngest(w, p, r, id) /\ ~ Tells(Head(w), {"stop"}, id) =>
          (Youngest(Tail(w), p, r, id)
           \/ /\ Number(Tail(w), Posted, id) = 0 /\ Number(Tail(w), Replied, id) = 0
              /\ Number(p, Posted, id) = 0 /\ Number(r, Replied, id) = 0)
    BY <1>4
  <1>7. ~ Tells(Head(w), {"start", "started"}, id) => Starting(Tail(w), p, r, id) = Starting(w, p, r, id)
    BY <1>1, <1>9, <1>2 DEF Starting, Starts
  <1>10. Open(w, p, r, id) = Open(Tail(w), p, r, id) + Worth(Head(w), Business, id)
    BY <1>1, <1>9, <1>5, <1>6, <1>7 DEF Open
  <1>11. Starts(w, p, id) = Starts(Tail(w), p, id) + Worth(Head(w), {"start"}, id)
    BY <1>1, <1>9, <1>5, <1>6, <1>7 DEF Starts
  <1>12. Halts(w, r, id) = Halts(Tail(w), r, id) + Worth(Head(w), {"stopped"}, id)
    BY <1>1, <1>9, <1>5, <1>6, <1>7 DEF Halts
  <1>13. Answering(w, r, id) = Answering(Tail(w), r, id) + Worth(Head(w), Replied, id)
    BY <1>1, <1>9, <1>5, <1>6, <1>7 DEF Answering
  <1> QED BY <1>10, <1>11, <1>12, <1>13, <1>5, <1>6, <1>7

LEMMA ServedOpen ==
  ASSUME NEW S, NEW w \in Seq(S), NEW p \in Seq(S), NEW r \in Seq(S), NEW id, r # << >>, NEW m \in S,
         m.k = Head(r).k, m.id = Head(r).id, m.k \in Replied
  PROVE  /\ Open(Append(w, m), p, Tail(r), id) = Open(w, p, r, id)
         /\ Starts(Append(w, m), p, id) = Starts(w, p, id)
         /\ Halts(Append(w, m), Tail(r), id) = Halts(w, r, id)
         /\ Answering(Append(w, m), Tail(r), id) = Answering(w, r, id)
         /\ Starting(Append(w, m), p, Tail(r), id) = Starting(w, p, r, id)
         /\ Youngest(w, p, r, id) => Youngest(Append(w, m), p, Tail(r), id)
  <1>0. Head(r) \in S /\ Tail(r) \in Seq(S) /\ Append(w, m) \in Seq(S)
    OBVIOUS
  <1>9. \A x, K : /\ Worth(x, K, id) \in Nat
                  /\ Tells(x, K, id) => Worth(x, K, id) = 1
                  /\ ~ Tells(x, K, id) => Worth(x, K, id) = 0
    BY WorthTyped
  <1>1. \A K : /\ Number(r, K, id) = Number(Tail(r), K, id) + Worth(m, K, id)
               /\ Number(Append(w, m), K, id) = Number(w, K, id) + Worth(m, K, id)
               /\ Number(w, K, id) \in Nat /\ Number(Tail(r), K, id) \in Nat /\ Number(r, K, id) \in Nat
               /\ Number(p, K, id) \in Nat
    <2>1. \A K : Tells(Head(r), K, id) <=> Tells(m, K, id)
      BY DEF Tells
    <2>2. \A K : Worth(Head(r), K, id) = Worth(m, K, id)
      BY <2>1 DEF Worth
    <2> TAKE K
    <2> QED BY <1>0, <2>2, TailNumber, AppendNumber, NumberNone
  <1>2. ~ Tells(m, Posted, id) /\ Worth(m, {"start"}, id) = 0
    BY DEF Tells, Posted, Replied, Worth
  <1>4. ASSUME Youngest(w, p, r, id)
        PROVE  Youngest(Append(w, m), p, Tail(r), id)
    <2>1. CASE Closes(w, "stop", Posted, id)
      <3>1. Closes(Append(w, m), "stop", Posted, id)
        BY <1>2, <2>1, ClosesAppend
      <3> QED BY <3>1 DEF Youngest
    <2>2. CASE Number(w, Posted, id) = 0
      <3>1. Number(Append(w, m), Posted, id) = 0
        BY <1>1, <1>9, <1>2, <2>2
      <3>2. CASE Closes(r, "stopped", Replied, id)
        <4>1. CASE Tells(Head(r), {"stopped"}, id) /\ Number(Tail(r), Replied, id) = 0
          <5>1. Closes(Append(w, m), "stopped", Replied, id)
            <6>1. Tells(m, {"stopped"}, id)
              BY <4>1 DEF Tells
            <6> QED BY <6>1, ClosesAppend
          <5> QED BY <1>4, <2>2, <3>1, <4>1, <5>1, ClosesCounts DEF Youngest, Posted
        <4>2. CASE Closes(Tail(r), "stopped", Replied, id)
          BY <1>4, <2>2, <3>1, <4>2, ClosesCounts DEF Youngest, Posted
        <4> QED BY <3>2, <4>1, <4>2, ClosesTail
      <3>3. ASSUME Closes(w, "stopped", Replied, id), Number(r, Replied, id) = 0
            PROVE  Number(Tail(r), Replied, id) = 0 /\ Closes(Append(w, m), "stopped", Replied, id)
        <4>1. Number(Tail(r), Replied, id) = 0 /\ ~ Tells(m, Replied, id)
          BY <1>1, <1>9, <3>3
        <4> QED BY <3>3, <4>1, ClosesAppend
      <3>5. ~ Closes(w, "stop", Posted, id)
        BY <2>2, ClosesCounts DEF Posted
      <3> QED BY <1>4, <2>2, <3>1, <3>2, <3>3, <3>5 DEF Youngest
    <2> QED BY <1>4, <2>1, <2>2 DEF Youngest
  <1>10. Open(Append(w, m), p, Tail(r), id) = Open(w, p, r, id)
    <2>1. /\ Number(r, Business, id) = Number(Tail(r), Business, id) + Worth(m, Business, id)
          /\ Number(Append(w, m), Business, id) = Number(w, Business, id) + Worth(m, Business, id)
          /\ Number(w, Business, id) \in Nat /\ Number(p, Business, id) \in Nat /\ Number(Tail(r), Business, id) \in Nat
          /\ Worth(m, Business, id) \in Nat
      BY <1>1, <1>9, <1>2
    <2> QED BY <2>1 DEF Open
  <1>11. Starts(Append(w, m), p, id) = Starts(w, p, id)
    <2>1. /\ Number(r, {"start"}, id) = Number(Tail(r), {"start"}, id) + Worth(m, {"start"}, id)
          /\ Number(Append(w, m), {"start"}, id) = Number(w, {"start"}, id) + Worth(m, {"start"}, id)
          /\ Number(w, {"start"}, id) \in Nat /\ Number(p, {"start"}, id) \in Nat /\ Number(Tail(r), {"start"}, id) \in Nat
          /\ Worth(m, {"start"}, id) = 0
      BY <1>1, <1>9, <1>2
    <2> QED BY <2>1 DEF Starts
  <1>12. Halts(Append(w, m), Tail(r), id) = Halts(w, r, id)
    <2>1. /\ Number(r, {"stopped"}, id) = Number(Tail(r), {"stopped"}, id) + Worth(m, {"stopped"}, id)
          /\ Number(Append(w, m), {"stopped"}, id) = Number(w, {"stopped"}, id) + Worth(m, {"stopped"}, id)
          /\ Number(w, {"stopped"}, id) \in Nat /\ Number(p, {"stopped"}, id) \in Nat /\ Number(Tail(r), {"stopped"}, id) \in Nat
          /\ Worth(m, {"stopped"}, id) \in Nat
      BY <1>1, <1>9, <1>2
    <2> QED BY <2>1 DEF Halts
  <1>13. Answering(Append(w, m), Tail(r), id) = Answering(w, r, id)
    <2>1. /\ Number(r, Replied, id) = Number(Tail(r), Replied, id) + Worth(m, Replied, id)
          /\ Number(Append(w, m), Replied, id) = Number(w, Replied, id) + Worth(m, Replied, id)
          /\ Number(w, Replied, id) \in Nat /\ Number(p, Replied, id) \in Nat /\ Number(Tail(r), Replied, id) \in Nat
          /\ Worth(m, Replied, id) \in Nat
      BY <1>1, <1>9, <1>2
    <2> QED BY <2>1 DEF Answering
  <1>14. Starting(Append(w, m), p, Tail(r), id) = Starting(w, p, r, id)
    <2>1. /\ Number(r, {"start"}, id) = Number(Tail(r), {"start"}, id) + Worth(m, {"start"}, id)
          /\ Number(Append(w, m), {"start"}, id) = Number(w, {"start"}, id) + Worth(m, {"start"}, id)
          /\ Number(w, {"start"}, id) \in Nat /\ Number(p, {"start"}, id) \in Nat /\ Number(Tail(r), {"start"}, id) \in Nat
          /\ Worth(m, {"start"}, id) = 0
          /\ Number(r, {"started"}, id) = Number(Tail(r), {"started"}, id) + Worth(m, {"started"}, id)
          /\ Number(Append(w, m), {"started"}, id) = Number(w, {"started"}, id) + Worth(m, {"started"}, id)
          /\ Number(w, {"started"}, id) \in Nat /\ Number(p, {"started"}, id) \in Nat /\ Number(Tail(r), {"started"}, id) \in Nat
          /\ Worth(m, {"started"}, id) \in Nat
      BY <1>1, <1>9, <1>2
    <2> QED BY <2>1 DEF Starting, Starts
  <1> QED BY <1>10, <1>11, <1>12, <1>13, <1>14, <1>4

\* An answer that nobody waits for.
LEMMA IgnoredOpen ==
  ASSUME NEW S, NEW w \in Seq(S), NEW p \in Seq(S), NEW r \in Seq(S), NEW id, r # << >>, Head(r).k \notin Business
  PROVE  /\ Open(w, p, Tail(r), id) = Open(w, p, r, id)
         /\ Halts(w, Tail(r), id) = Halts(w, r, id)
         /\ Answering(w, Tail(r), id) = Answering(w, r, id)
         /\ Starting(w, p, Tail(r), id) = Starting(w, p, r, id)
         /\ Youngest(w, p, r, id) => Youngest(w, p, Tail(r), id)
  <1>0. Head(r) \in S /\ Tail(r) \in Seq(S)
    OBVIOUS
  <1>9. \A x, K : /\ Worth(x, K, id) \in Nat
                  /\ Tells(x, K, id) => Worth(x, K, id) = 1
                  /\ ~ Tells(x, K, id) => Worth(x, K, id) = 0
    BY WorthTyped
  <1>1. \A K \in SUBSET Business : Number(r, K, id) = Number(Tail(r), K, id)
    <2> TAKE K \in SUBSET Business
    <2>1. Worth(Head(r), K, id) = 0
      BY DEF Tells, Worth
    <2> QED BY <2>1, TailNumber
  <1>2. {Replied, Business, {"stopped"}, {"started"}} \subseteq SUBSET Business
    BY DEF Replied, Business
  <1>3. Closes(r, "stopped", Replied, id) => Closes(Tail(r), "stopped", Replied, id)
    <2>1. ~ Tells(Head(r), {"stopped"}, id)
      BY DEF Tells, Replied, Business
    <2> QED BY <2>1, ClosesTail
  <1>10. Open(w, p, Tail(r), id) = Open(w, p, r, id)
    BY <1>1, <1>9, <1>2, <1>3 DEF Open
  <1>11. Halts(w, Tail(r), id) = Halts(w, r, id)
    BY <1>1, <1>9, <1>2, <1>3 DEF Halts
  <1>12. Answering(w, Tail(r), id) = Answering(w, r, id)
    BY <1>1, <1>9, <1>2, <1>3 DEF Answering
  <1>13. Starting(w, p, Tail(r), id) = Starting(w, p, r, id)
    BY <1>1, <1>9, <1>2, <1>3 DEF Starting, Starts
  <1>4. Youngest(w, p, r, id) => Youngest(w, p, Tail(r), id)
    BY <1>1, <1>2, <1>3 DEF Youngest
  <1> QED BY <1>10, <1>11, <1>12, <1>13, <1>4

LEMMA PostedOpen ==
  ASSUME NEW S, NEW w \in Seq(S), NEW p \in Seq(S), NEW r \in Seq(S), NEW id, NEW m \in S,
         m.k \notin Replied
  PROVE  /\ Open(Append(w, m), p, r, id) = Open(w, p, r, id) + Worth(m, Posted, id)
         /\ Starts(Append(w, m), p, id) = Starts(w, p, id) + Worth(m, {"start"}, id)
         /\ Halts(Append(w, m), r, id) = Halts(w, r, id)
         /\ Answering(Append(w, m), r, id) = Answering(w, r, id)
         /\ Starting(Append(w, m), p, r, id) = Starting(w, p, r, id) + Worth(m, {"start"}, id)
         /\ Youngest(w, p, r, id) /\ ~ Tells(m, Posted, id) => Youngest(Append(w, m), p, r, id)
         /\ Tells(m, {"stop"}, id) => Youngest(Append(w, m), p, r, id)
  <1>0. Append(w, m) \in Seq(S)
    OBVIOUS
  <1>9. \A x, K : /\ Worth(x, K, id) \in Nat
                  /\ Tells(x, K, id) => Worth(x, K, id) = 1
                  /\ ~ Tells(x, K, id) => Worth(x, K, id) = 0
    BY WorthTyped
  <1>1. \A K : /\ Number(Append(w, m), K, id) = Number(w, K, id) + Worth(m, K, id)
               /\ Number(w, K, id) \in Nat /\ Number(r, K, id) \in Nat /\ Number(p, K, id) \in Nat
    <2> TAKE K
    <2> QED BY <1>0, AppendNumber, NumberNone
  <1>2. /\ ~ Tells(m, Replied, id) /\ ~ Tells(m, {"started"}, id) /\ ~ Tells(m, {"stopped"}, id)
        /\ Worth(m, Business, id) = Worth(m, Posted, id) /\ Worth(m, Replied, id) = 0
        /\ Worth(m, {"started"}, id) = 0 /\ Worth(m, {"stopped"}, id) = 0
    BY DEF Tells, Business, Replied, Worth
  <1>3. ASSUME Youngest(w, p, r, id), ~ Tells(m, Posted, id)
        PROVE  Youngest(Append(w, m), p, r, id)
    <2>1. Closes(w, "stop", Posted, id) => Closes(Append(w, m), "stop", Posted, id)
      BY <1>3, ClosesAppend
    <2>2. Closes(w, "stopped", Replied, id) => Closes(Append(w, m), "stopped", Replied, id)
      BY <1>2, ClosesAppend
    <2>3. Number(w, Posted, id) = 0 => Number(Append(w, m), Posted, id) = 0
      BY <1>1, <1>9, <1>3
    <2> QED BY <1>3, <2>1, <2>2, <2>3 DEF Youngest
  <1>4. Tells(m, {"stop"}, id) => Youngest(Append(w, m), p, r, id)
    BY ClosesAppend DEF Youngest
  <1>10. Open(Append(w, m), p, r, id) = Open(w, p, r, id) + Worth(m, Posted, id)
    <2>1. /\ Number(Append(w, m), Business, id) = Number(w, Business, id) + Worth(m, Business, id)
          /\ Number(w, Business, id) \in Nat /\ Number(p, Business, id) \in Nat /\ Number(r, Business, id) \in Nat
          /\ Worth(m, Business, id) = Worth(m, Posted, id) /\ Worth(m, Posted, id) \in Nat
      BY <1>1, <1>9, <1>2
    <2> QED BY <2>1 DEF Open
  <1>11. Starts(Append(w, m), p, id) = Starts(w, p, id) + Worth(m, {"start"}, id)
    <2>1. /\ Number(Append(w, m), {"start"}, id) = Number(w, {"start"}, id) + Worth(m, {"start"}, id)
          /\ Number(w, {"start"}, id) \in Nat /\ Number(p, {"start"}, id) \in Nat /\ Number(r, {"start"}, id) \in Nat
          /\ Worth(m, {"start"}, id) \in Nat
      BY <1>1, <1>9, <1>2
    <2> QED BY <2>1 DEF Starts
  <1>12. Halts(Append(w, m), r, id) = Halts(w, r, id)
    <2>1. /\ Number(Append(w, m), {"stopped"}, id) = Number(w, {"stopped"}, id) + Worth(m, {"stopped"}, id)
          /\ Number(w, {"stopped"}, id) \in Nat /\ Number(p, {"stopped"}, id) \in Nat /\ Number(r, {"stopped"}, id) \in Nat
          /\ Worth(m, {"stopped"}, id) = 0
      BY <1>1, <1>9, <1>2
    <2> QED BY <2>1 DEF Halts
  <1>13. Answering(Append(w, m), r, id) = Answering(w, r, id)
    <2>1. /\ Number(Append(w, m), Replied, id) = Number(w, Replied, id) + Worth(m, Replied, id)
          /\ Number(w, Replied, id) \in Nat /\ Number(p, Replied, id) \in Nat /\ Number(r, Replied, id) \in Nat
          /\ Worth(m, Replied, id) = 0
      BY <1>1, <1>9, <1>2
    <2> QED BY <2>1 DEF Answering
  <1>14. Starting(Append(w, m), p, r, id) = Starting(w, p, r, id) + Worth(m, {"start"}, id)
    <2>1. /\ Number(Append(w, m), {"start"}, id) = Number(w, {"start"}, id) + Worth(m, {"start"}, id)
          /\ Number(w, {"start"}, id) \in Nat /\ Number(p, {"start"}, id) \in Nat /\ Number(r, {"start"}, id) \in Nat
          /\ Worth(m, {"start"}, id) \in Nat
          /\ Number(Append(w, m), {"started"}, id) = Number(w, {"started"}, id) + Worth(m, {"started"}, id)
          /\ Number(w, {"started"}, id) \in Nat /\ Number(p, {"started"}, id) \in Nat /\ Number(r, {"started"}, id) \in Nat
          /\ Worth(m, {"started"}, id) = 0
      BY <1>1, <1>9, <1>2
    <2> QED BY <2>1 DEF Starting, Starts
  <1> QED BY <1>10, <1>11, <1>12, <1>13, <1>14, <1>3, <1>4

\* A call that no command asked for.
LEMMA SweptOpen ==
  ASSUME NEW S, NEW w \in Seq(S), NEW p \in Seq(S), NEW r \in Seq(S), NEW id, NEW m \in S, m.k = "stopped"
  PROVE  /\ Open(w, p, Append(r, m), id) = Open(w, p, r, id) + Worth(m, {"stopped"}, id)
         /\ Halts(w, Append(r, m), id) = Halts(w, r, id) + Worth(m, {"stopped"}, id)
         /\ Answering(w, Append(r, m), id) = Answering(w, r, id) + Worth(m, {"stopped"}, id)
         /\ Starting(w, p, Append(r, m), id) = Starting(w, p, r, id)
         /\ Youngest(w, p, r, id) /\ ~ Tells(m, {"stopped"}, id) => Youngest(w, p, Append(r, m), id)
  <1>0. Append(r, m) \in Seq(S)
    OBVIOUS
  <1>9. \A x, K : /\ Worth(x, K, id) \in Nat
                  /\ Tells(x, K, id) => Worth(x, K, id) = 1
                  /\ ~ Tells(x, K, id) => Worth(x, K, id) = 0
    BY WorthTyped
  <1>1. \A K : /\ Number(Append(r, m), K, id) = Number(r, K, id) + Worth(m, K, id)
               /\ Number(w, K, id) \in Nat /\ Number(r, K, id) \in Nat /\ Number(p, K, id) \in Nat
    <2> TAKE K
    <2> QED BY <1>0, AppendNumber, NumberNone
  <1>2. /\ Worth(m, Replied, id) = Worth(m, {"stopped"}, id)
        /\ Worth(m, Business, id) = Worth(m, {"stopped"}, id)
        /\ Worth(m, {"started"}, id) = 0
        /\ Tells(m, Replied, id) => Tells(m, {"stopped"}, id)
    BY DEF Tells, Business, Replied, Worth
  <1>3. ASSUME Youngest(w, p, r, id), ~ Tells(m, {"stopped"}, id)
        PROVE  Youngest(w, p, Append(r, m), id)
    <2>1. Closes(r, "stopped", Replied, id) => Closes(Append(r, m), "stopped", Replied, id)
      BY <1>2, <1>3, ClosesAppend
    <2>2. Number(r, Replied, id) = 0 => Number(Append(r, m), Replied, id) = 0
      BY <1>1, <1>9, <1>2, <1>3
    <2> QED BY <1>3, <2>1, <2>2 DEF Youngest
  <1>10. Open(w, p, Append(r, m), id) = Open(w, p, r, id) + Worth(m, {"stopped"}, id)
    BY <1>1, <1>9, <1>2 DEF Open
  <1>11. Halts(w, Append(r, m), id) = Halts(w, r, id) + Worth(m, {"stopped"}, id)
    BY <1>1, <1>9, <1>2 DEF Halts
  <1>12. Answering(w, Append(r, m), id) = Answering(w, r, id) + Worth(m, {"stopped"}, id)
    BY <1>1, <1>9, <1>2 DEF Answering
  <1>13. Starting(w, p, Append(r, m), id) = Starting(w, p, r, id)
    BY <1>1, <1>9, <1>2 DEF Starting, Starts
  <1> QED BY <1>10, <1>11, <1>12, <1>13, <1>3

\* The commands put aside are posted again, and calls of which none is answered.
LEMMA UpOpen ==
  ASSUME NEW S, NEW w \in Seq(S), NEW p \in Seq(S), NEW r \in Seq(S), NEW id, NEW z \in Seq(S),
         Number(p, Replied, id) = 0, w # << >>, Head(w).k \notin Business, \A n \in DOMAIN z : z[n].k \notin Business
  PROVE  /\ Open(Tail(w) \o p, << >>, r \o z, id) = Open(w, p, r, id)
         /\ Starts(Tail(w) \o p, << >>, id) = Starts(w, p, id)
         /\ Halts(Tail(w) \o p, r \o z, id) = Halts(w, r, id)
         /\ Answering(Tail(w) \o p, r \o z, id) = Answering(w, r, id)
         /\ Starting(Tail(w) \o p, << >>, r \o z, id) = Starting(w, p, r, id)
         /\ Youngest(w, p, r, id) =>
              \/ Youngest(Tail(w) \o p, << >>, r \o z, id)
              \/ Number(w, {"stop"}, id) # 0 /\ Number(p, Posted, id) # 0
  <1>0. Head(w) \in S /\ Tail(w) \in Seq(S) /\ Tail(w) \o p \in Seq(S) /\ << >> \in Seq(S) /\ r \o z \in Seq(S)
    OBVIOUS
  <1>9. \A x, K : /\ Worth(x, K, id) \in Nat
                  /\ Tells(x, K, id) => Worth(x, K, id) = 1
                  /\ ~ Tells(x, K, id) => Worth(x, K, id) = 0
    BY WorthTyped
  <1>1. \A K \in SUBSET Business :
           /\ Number(w, K, id) = Number(Tail(w), K, id) /\ ~ Tells(Head(w), K, id)
           /\ Number(Tail(w) \o p, K, id) = Number(w, K, id) + Number(p, K, id)
           /\ Number(r \o z, K, id) = Number(r, K, id)
           /\ Number(<< >>, K, id) = 0 /\ Number(z, K, id) = 0
           /\ Number(w, K, id) \in Nat /\ Number(p, K, id) \in Nat /\ Number(r, K, id) \in Nat
    <2> TAKE K \in SUBSET Business
    <2>1. ~ Tells(Head(w), K, id) /\ \A n \in DOMAIN z : ~ Tells(z[n], K, id)
      BY DEF Tells
    <2>2. Number(w, K, id) = Number(Tail(w), K, id) /\ Number(Tail(w), K, id) \in Nat /\ Number(w, K, id) \in Nat
      BY <1>9, <2>1, TailNumber
    <2>3. Number(z, K, id) = 0
      BY <2>1, NumberNone
    <2>4. Number(<< >>, K, id) = 0
      <3>1. << >> \in Seq(S) /\ \A n \in DOMAIN << >> : ~ Tells(<< >>[n], K, id)
        BY <1>0
      <3> QED BY <3>1, NumberNone, Zenon
    <2>5. Number(p, K, id) \in Nat /\ Number(r, K, id) \in Nat
      BY NumberNone
    <2>6. Number(Tail(w) \o p, K, id) = Number(Tail(w), K, id) + Number(p, K, id)
      <3>1. Number(Joined(Tail(w), p), K, id) = Number(Tail(w), K, id) + Number(p, K, id)
        <4>1. Tail(w) \in Seq(S)
          OBVIOUS
        <4>2. \A v \in Seq(S) : Number(Joined(v, p), K, id) = Number(v, K, id) + Number(p, K, id)
          BY NumberConcat
        <4> QED BY <4>1, <4>2
      <3> QED BY <3>1 DEF Joined
    <2>7. Number(r \o z, K, id) = Number(r, K, id) + Number(z, K, id)
      <3>1. Number(Joined(r, z), K, id) = Number(r, K, id) + Number(z, K, id)
        BY NumberConcat
      <3> QED BY <3>1 DEF Joined
    <2> QED BY <2>1, <2>2, <2>3, <2>4, <2>5, <2>6, <2>7
  <1>2. {Posted, Replied, Business, {"start"}, {"stop"}, {"stopped"}, {"started"}} \subseteq SUBSET Business
    BY DEF Posted, Replied, Business
  <1>3. Number(p, {"stopped"}, id) = 0 /\ Number(p, {"started"}, id) = 0
    BY NumberKinds DEF Replied
  <1>4. ASSUME Youngest(w, p, r, id), ~ (Number(w, {"stop"}, id) # 0 /\ Number(p, Posted, id) # 0)
        PROVE  Youngest(Tail(w) \o p, << >>, r \o z, id)
    <2>1. CASE Closes(w, "stop", Posted, id)
      <3>1. Number(p, Posted, id) = 0
        BY <1>4, <2>1, ClosesCounts
      <3>2. Closes(Tail(w), "stop", Posted, id)
        <4>1. ~ Tells(Head(w), {"stop"}, id)
          BY <1>1, <1>9, <1>2
        <4> QED BY <2>1, <4>1, ClosesTail
      <3>3. Closes(Tail(w) \o p, "stop", Posted, id)
        BY <1>0, <3>1, <3>2, ClosesConcat
      <3> QED BY <3>3 DEF Youngest
    <2>2. CASE Number(w, Posted, id) = 0 /\ Closes(p, "stop", Posted, id)
      BY <1>0, <2>2, ClosesConcat DEF Youngest
    <2>3. CASE Number(w, Posted, id) = 0 /\ Number(p, Posted, id) = 0
      <3>1. Number(Tail(w) \o p, Posted, id) = 0 /\ Number(<< >>, Posted, id) = 0
        BY <1>1, <1>9, <1>2, <2>3
      <3>2. Closes(r, "stopped", Replied, id) => Closes(r \o z, "stopped", Replied, id)
        <4>1. Number(z, Replied, id) = 0
          BY <1>1, <1>9, <1>2
        <4> QED BY <4>1, ClosesConcat
      <3>3. Number(r, Replied, id) = 0 => Number(r \o z, Replied, id) = 0
        BY <1>1, <1>9, <1>2
      <3>4. ASSUME Closes(w, "stopped", Replied, id)
            PROVE  Closes(Tail(w) \o p, "stopped", Replied, id)
        <4>1. ~ Tells(Head(w), {"stopped"}, id)
          BY <1>1, <1>9, <1>2
        <4>2. Closes(Tail(w), "stopped", Replied, id)
          BY <3>4, <4>1, ClosesTail
        <4> QED BY <1>0, <4>2, ClosesConcat
      <3>5. ~ Closes(w, "stop", Posted, id) /\ ~ Closes(p, "stop", Posted, id)
        BY <2>3, ClosesCounts DEF Posted
      <3> QED BY <1>4, <2>3, <3>1, <3>2, <3>3, <3>4, <3>5 DEF Youngest
    <2> QED BY <1>4, <2>1, <2>2, <2>3 DEF Youngest
  <1>10. Open(Tail(w) \o p, << >>, r \o z, id) = Open(w, p, r, id)
    BY <1>1, <1>9, <1>2, <1>3, <1>4 DEF Open
  <1>11. Starts(Tail(w) \o p, << >>, id) = Starts(w, p, id)
    BY <1>1, <1>9, <1>2, <1>3, <1>4 DEF Starts
  <1>12. Halts(Tail(w) \o p, r \o z, id) = Halts(w, r, id)
    BY <1>1, <1>9, <1>2, <1>3, <1>4 DEF Halts
  <1>13. Answering(Tail(w) \o p, r \o z, id) = Answering(w, r, id)
    BY <1>1, <1>9, <1>2, <1>3, <1>4 DEF Answering
  <1>14. Starting(Tail(w) \o p, << >>, r \o z, id) = Starting(w, p, r, id)
    BY <1>1, <1>9, <1>2, <1>3, <1>4 DEF Starting, Starts
  <1> QED BY <1>10, <1>11, <1>12, <1>13, <1>14, <1>3, <1>4

-----------------------------------------------------------------------------
(* The queues *)

LEMMA SameSequence ==
  ASSUME NEW S, NEW x \in Seq(S), NEW y \in Seq(S), Len(x) = Len(y), \A n \in 1 .. Len(x) : x[n] = y[n]
  PROVE  x = y
  <1>1. x = [n \in 1 .. Len(x) |-> x[n]] /\ y = [n \in 1 .. Len(y) |-> y[n]]
    OBVIOUS
  <1> QED BY <1>1

LEMMA RangeSequence ==
  ASSUME NEW S, NEW N \in Nat, NEW f \in [1 .. N -> S]
  PROVE  f \in Seq(S) /\ Len(f) = N
  OBVIOUS

LEMMA JoinedFacts ==
  ASSUME NEW S, NEW a \in Seq(S), NEW b \in Seq(S)
  PROVE  /\ Joined(a, b) \in Seq(S) /\ Len(Joined(a, b)) = Len(a) + Len(b)
         /\ \A n \in 1 .. (Len(a) + Len(b)) :
              /\ n <= Len(a) => Joined(a, b)[n] = a[n] /\ n \in 1 .. Len(a)
              /\ ~ (n <= Len(a)) => Joined(a, b)[n] = b[n - Len(a)] /\ n - Len(a) \in 1 .. Len(b)
  BY DEF Joined

LEMMA RepliesAppend ==
  ASSUME NEW D, NEW q \in Seq(HalCalls(D)), NEW x \in HalCalls(D)
  PROVE  /\ RepliesOf(q) \in Seq(Back(D)) /\ x.reply \in Back(D)
         /\ RepliesOf(Append(q, x)) = Append(RepliesOf(q), x.reply)
  <1>1. \A y \in HalCalls(D) : y.reply \in Back(D)
    BY DEF HalCalls
  <1>2. /\ Len(q) \in Nat /\ DOMAIN q = 1 .. Len(q) /\ \A n \in DOMAIN q : q[n] \in HalCalls(D)
        /\ DOMAIN Append(q, x) = 1 .. (Len(q) + 1)
        /\ \A n \in 1 .. (Len(q) + 1) : Append(q, x)[n] = IF n <= Len(q) THEN q[n] ELSE x
    OBVIOUS
  <1>3. RepliesOf(q) = [n \in 1 .. Len(q) |-> q[n].reply]
    BY <1>2 DEF RepliesOf
  <1>4. RepliesOf(q) \in Seq(Back(D)) /\ Len(RepliesOf(q)) = Len(q) /\ \A n \in 1 .. Len(q) : RepliesOf(q)[n] = q[n].reply
    BY <1>1, <1>2, <1>3
  <1>5. RepliesOf(Append(q, x)) = [n \in 1 .. (Len(q) + 1) |-> IF n <= Len(q) THEN q[n].reply ELSE x.reply]
    BY <1>2 DEF RepliesOf
  <1>6. Append(RepliesOf(q), x.reply) = [n \in 1 .. (Len(q) + 1) |-> IF n <= Len(q) THEN RepliesOf(q)[n] ELSE x.reply]
    BY <1>1, <1>4
  <1> QED BY <1>1, <1>2, <1>4, <1>5, <1>6

LEMMA RepliesTail ==
  ASSUME NEW D, NEW q \in Seq(HalCalls(D)), q # << >>
  PROVE  /\ RepliesOf(q) \in Seq(Back(D)) /\ RepliesOf(q) # << >>
         /\ RepliesOf(Tail(q)) = Tail(RepliesOf(q)) /\ Head(RepliesOf(q)) = Head(q).reply
         /\ Head(q) \in HalCalls(D) /\ Head(q).reply \in Back(D)
  <1>1. \A y \in HalCalls(D) : y.reply \in Back(D)
    BY DEF HalCalls
  <1>2. /\ Len(q) \in Nat /\ Len(q) > 0 /\ DOMAIN q = 1 .. Len(q) /\ \A n \in DOMAIN q : q[n] \in HalCalls(D)
        /\ Head(q) = q[1]
        /\ DOMAIN Tail(q) = 1 .. (Len(q) - 1)
        /\ \A n \in 1 .. (Len(q) - 1) : Tail(q)[n] = q[n + 1]
    OBVIOUS
  <1>3. RepliesOf(q) = [n \in 1 .. Len(q) |-> q[n].reply]
    BY <1>2 DEF RepliesOf
  <1>4. RepliesOf(q) \in Seq(Back(D)) /\ Len(RepliesOf(q)) = Len(q) /\ \A n \in 1 .. Len(q) : RepliesOf(q)[n] = q[n].reply
    BY <1>1, <1>2, <1>3
  <1>5. RepliesOf(q) # << >>
    BY <1>2, <1>4
  <1>6. RepliesOf(Tail(q)) = [n \in 1 .. (Len(q) - 1) |-> q[n + 1].reply]
    BY <1>2 DEF RepliesOf
  <1>7. RepliesOf(Tail(q)) \in Seq(Back(D)) /\ Len(RepliesOf(Tail(q))) = Len(q) - 1
        /\ \A n \in 1 .. (Len(q) - 1) : RepliesOf(Tail(q))[n] = q[n + 1].reply
    <2>1. Len(q) - 1 \in Nat /\ \A n \in 1 .. (Len(q) - 1) : n + 1 \in DOMAIN q
      BY <1>2
    <2>2. RepliesOf(Tail(q)) \in [1 .. (Len(q) - 1) -> Back(D)]
      BY <1>1, <1>2, <1>6, <2>1
    <2> QED BY <1>6, <2>1, <2>2, RangeSequence
  <1>8. Tail(RepliesOf(q)) \in Seq(Back(D)) /\ Len(Tail(RepliesOf(q))) = Len(q) - 1
        /\ \A n \in 1 .. (Len(q) - 1) : Tail(RepliesOf(q))[n] = q[n + 1].reply
    <2>1. \A s \in Seq(Back(D)) : s # << >> => /\ Tail(s) \in Seq(Back(D)) /\ Len(Tail(s)) = Len(s) - 1
                                              /\ \A n \in 1 .. (Len(s) - 1) : Tail(s)[n] = s[n + 1]
      OBVIOUS
    <2>2. \A n \in 1 .. (Len(q) - 1) : n + 1 \in 1 .. Len(q)
      BY <1>2
    <2> QED BY <1>4, <1>5, <2>1, <2>2
  <1>9. RepliesOf(Tail(q)) = Tail(RepliesOf(q))
    BY <1>7, <1>8, SameSequence
  <1>10. Head(RepliesOf(q)) = Head(q).reply
    BY <1>2, <1>4, <1>5
  <1> QED BY <1>1, <1>2, <1>4, <1>5, <1>9, <1>10

LEMMA RepliesConcat ==
  ASSUME NEW D, NEW q \in Seq(HalCalls(D)), NEW z \in Seq(HalCalls(D))
  PROVE  RepliesOf(Joined(q, z)) = Joined(RepliesOf(q), RepliesOf(z))
  <1>1. \A y \in HalCalls(D) : y.reply \in Back(D)
    BY DEF HalCalls
  <1>2. /\ Len(q) \in Nat /\ DOMAIN q = 1 .. Len(q) /\ \A n \in DOMAIN q : q[n] \in HalCalls(D)
        /\ Len(z) \in Nat /\ DOMAIN z = 1 .. Len(z) /\ \A n \in DOMAIN z : z[n] \in HalCalls(D)
    OBVIOUS
  <1>3. RepliesOf(q) = [n \in 1 .. Len(q) |-> q[n].reply] /\ RepliesOf(z) = [n \in 1 .. Len(z) |-> z[n].reply]
    BY <1>2 DEF RepliesOf
  <1>4. /\ RepliesOf(q) \in Seq(Back(D)) /\ Len(RepliesOf(q)) = Len(q) /\ \A n \in 1 .. Len(q) : RepliesOf(q)[n] = q[n].reply
        /\ RepliesOf(z) \in Seq(Back(D)) /\ Len(RepliesOf(z)) = Len(z) /\ \A n \in 1 .. Len(z) : RepliesOf(z)[n] = z[n].reply
    BY <1>1, <1>2, <1>3
  <1> DEFINE N == Len(q) + Len(z)
             one == RepliesOf(Joined(q, z))
             two == Joined(RepliesOf(q), RepliesOf(z))
  <1>5. N \in Nat /\ Joined(q, z) \in Seq(HalCalls(D)) /\ Len(Joined(q, z)) = N
    BY <1>2, JoinedFacts
  <1>14. \A a, b \in Seq(Back(D)) :
           /\ Joined(a, b) \in Seq(Back(D)) /\ Len(Joined(a, b)) = Len(a) + Len(b)
           /\ \A n \in 1 .. (Len(a) + Len(b)) :
                /\ n <= Len(a) => Joined(a, b)[n] = a[n]
                /\ ~ (n <= Len(a)) => Joined(a, b)[n] = b[n - Len(a)]
    <2> TAKE a, b \in Seq(Back(D))
    <2> QED BY JoinedFacts
  <1>6. two \in Seq(Back(D)) /\ Len(two) = N
    BY <1>4, <1>14
  <1>7. one = [n \in 1 .. N |-> Joined(q, z)[n].reply]
    <2>1. DOMAIN Joined(q, z) = 1 .. N
      BY <1>5
    <2> QED BY <2>1 DEF RepliesOf
  <1>8. one \in Seq(Back(D)) /\ Len(one) = N
    <2>1. \A n \in 1 .. N : Joined(q, z)[n] \in HalCalls(D)
      BY <1>5
    <2>2. one \in [1 .. N -> Back(D)]
      BY <1>1, <1>7, <2>1
    <2> HIDE DEF one, N
    <2> QED BY <1>5, <2>2, RangeSequence
  <1>9. ASSUME NEW n \in 1 .. N
        PROVE  one[n] = two[n]
    <2>1. one[n] = Joined(q, z)[n].reply
      BY <1>7
    <2>2. CASE n <= Len(q)
      <3>1. Joined(q, z)[n] = q[n] /\ n \in 1 .. Len(q)
        BY <2>2, JoinedFacts
      <3>2. two[n] = RepliesOf(q)[n]
        <4>1. n \in 1 .. (Len(RepliesOf(q)) + Len(RepliesOf(z))) /\ n <= Len(RepliesOf(q))
          BY <1>4, <2>2
        <4> QED BY <1>4, <4>1, JoinedFacts
      <3> QED BY <1>4, <2>1, <3>1, <3>2
    <2>3. CASE ~ (n <= Len(q))
      <3>1. Joined(q, z)[n] = z[n - Len(q)] /\ n - Len(q) \in 1 .. Len(z)
        BY <2>3, JoinedFacts
      <3>2. two[n] = RepliesOf(z)[n - Len(q)]
        <4>1. n \in 1 .. (Len(RepliesOf(q)) + Len(RepliesOf(z))) /\ ~ (n <= Len(RepliesOf(q)))
          BY <1>4, <2>3
        <4>2. two[n] = RepliesOf(z)[n - Len(RepliesOf(q))]
          BY <1>4, <1>14, <4>1
        <4> QED BY <1>4, <4>2
      <3> QED BY <1>4, <2>1, <3>1, <3>2
    <2> QED BY <2>2, <2>3
  <1> HIDE DEF one, two, N
  <1>10. one = two
    BY <1>6, <1>8, <1>9, SameSequence
  <1> QED BY <1>10 DEF one, two

Heap(D) == Heard(D) \cup {Ignore}

LEMMA QueuesTyped ==
  ASSUME Kept
  PROVE  /\ msgQ \in Seq(Heap(DOMAIN owner)) /\ pending \in Seq(Heap(DOMAIN owner))
         /\ RepliesOf(apiQ) \in Seq(Heap(DOMAIN owner)) /\ RepliesOf(apiQ) \in Seq(Back(DOMAIN owner))
         /\ \A n \in DOMAIN pending : pending[n].k \in Posted
         /\ \A n \in DOMAIN RepliesOf(apiQ) : RepliesOf(apiQ)[n].k \in Replied \cup {"ignore"}
  <1> DEFINE D == DOMAIN owner
  <1>1. msgQ \in Seq(Heard(D)) /\ pending \in Seq(Told(Posted, D)) /\ apiQ \in Seq(HalCalls(D))
    BY DEF Kept, Mail
  <1>2. Heard(D) \subseteq Heap(D) /\ Told(Posted, D) \subseteq Heap(D) /\ Back(D) \subseteq Heap(D)
    BY DEF Heap, Heard, Told, Business, Back
  <1>3. RepliesOf(apiQ) \in Seq(Back(D))
    <2>0. \A y \in HalCalls(D) : y.reply \in Back(D)
      BY DEF HalCalls
    <2>1. \A n \in DOMAIN apiQ : apiQ[n].reply \in Back(D)
      BY <1>1, <2>0
    <2>2. RepliesOf(apiQ) = [n \in 1 .. Len(apiQ) |-> apiQ[n].reply] /\ DOMAIN apiQ = 1 .. Len(apiQ) /\ Len(apiQ) \in Nat
      BY <1>1 DEF RepliesOf
    <2> QED BY <2>1, <2>2
  <1>4. \A m \in Told(Posted, D) : m.k \in Posted
    BY DEF Told
  <1>5. \A m \in Back(D) : m.k \in Replied \cup {"ignore"}
    <2>1. Ignore.k = "ignore" /\ \A m \in Told(Replied, D) : m.k \in Replied
      BY DEF Told, Ignore, Msg
    <2> QED BY <2>1 DEF Back
  <1> HIDE DEF D
  <1>6. ASSUME NEW S, NEW T, S \subseteq T
        PROVE  Seq(S) \subseteq Seq(T)
    BY <1>6
  <1>7. msgQ \in Seq(Heap(D)) /\ pending \in Seq(Heap(D)) /\ RepliesOf(apiQ) \in Seq(Heap(D))
    BY <1>1, <1>2, <1>3, <1>6
  <1>8. \A n \in DOMAIN pending : pending[n] \in Told(Posted, D)
    BY <1>1
  <1>9. \A n \in DOMAIN RepliesOf(apiQ) : RepliesOf(apiQ)[n] \in Back(D)
    BY <1>3
  <1> QED BY <1>3, <1>4, <1>5, <1>7, <1>8, <1>9 DEF D

LEMMA Counts ==
  ASSUME NEW S, NEW w \in Seq(S), NEW p \in Seq(S), NEW r \in Seq(S), NEW id
  PROVE  /\ Open(w, p, r, id) \in Nat /\ Starts(w, p, id) \in Nat /\ Halts(w, r, id) \in Nat
         /\ Answering(w, r, id) \in Nat /\ Starting(w, p, r, id) \in Nat
         /\ Answering(w, r, id) = 0 => Halts(w, r, id) = 0
         /\ Open(w, p, r, id) = 0 => Starting(w, p, r, id) = 0
         /\ Youngest(w, p, r, id) => Open(w, p, r, id) # 0
  <1>1. \A q \in {w, p, r} :
          /\ \A K : Number(q, K, id) \in Nat
          /\ Number(q, Business, id) = 0 => \A k \in Business : Number(q, {k}, id) = 0
          /\ Number(q, Replied, id) = 0 => \A k \in Replied : Number(q, {k}, id) = 0
    <2>1. ASSUME NEW q \in Seq(S)
          PROVE  /\ \A K : Number(q, K, id) \in Nat
                 /\ Number(q, Business, id) = 0 => \A k \in Business : Number(q, {k}, id) = 0
                 /\ Number(q, Replied, id) = 0 => \A k \in Replied : Number(q, {k}, id) = 0
      BY NumberKinds
    <2> QED BY <2>1
  <1>2. "start" \in Business /\ "started" \in Business /\ "stopped" \in Replied
    BY DEF Business, Posted, Replied
  <1>3. Open(w, p, r, id) \in Nat /\ Starts(w, p, id) \in Nat /\ Halts(w, r, id) \in Nat
    BY <1>1 DEF Open, Starts, Halts
  <1>4. Answering(w, r, id) \in Nat /\ Starting(w, p, r, id) \in Nat
    BY <1>1 DEF Answering, Starting, Starts
  <1>5. Answering(w, r, id) = 0 => Halts(w, r, id) = 0
    <2>1. Number(w, Replied, id) \in Nat /\ Number(r, Replied, id) \in Nat
      BY <1>1
    <2>2. Answering(w, r, id) = 0 => Number(w, Replied, id) = 0 /\ Number(r, Replied, id) = 0
      BY <2>1 DEF Answering
    <2>3. Answering(w, r, id) = 0 => Number(w, {"stopped"}, id) = 0 /\ Number(r, {"stopped"}, id) = 0
      BY <1>1, <1>2, <2>2
    <2> QED BY <2>3 DEF Halts
  <1>6. Open(w, p, r, id) = 0 => Starting(w, p, r, id) = 0
    <2>1. Number(w, Business, id) \in Nat /\ Number(p, Business, id) \in Nat /\ Number(r, Business, id) \in Nat
      BY <1>1
    <2>2. Open(w, p, r, id) = 0 =>
            Number(w, Business, id) = 0 /\ Number(p, Business, id) = 0 /\ Number(r, Business, id) = 0
      BY <2>1 DEF Open
    <2>3. Open(w, p, r, id) = 0 => /\ Number(w, {"start"}, id) = 0 /\ Number(p, {"start"}, id) = 0
                                   /\ Number(w, {"started"}, id) = 0 /\ Number(r, {"started"}, id) = 0
      BY <1>1, <1>2, <2>2
    <2> QED BY <2>3 DEF Starting, Starts
  <1> QED BY <1>3, <1>4, <1>5, <1>6, YoungestOpen

\* Nothing is under way about a session that was not handed out.
LEMMA UnknownCounts ==
  ASSUME Kept, NEW id, id \notin DOMAIN owner
  PROVE  /\ \A K \in SUBSET Business : /\ Number(msgQ, K, id) = 0 /\ Number(pending, K, id) = 0
                                       /\ Number(RepliesOf(apiQ), K, id) = 0
         /\ OpenNow(id) = 0 /\ StartsNow(id) = 0 /\ HaltsNow(id) = 0 /\ AnswersNow(id) = 0 /\ StartingNow(id) = 0
  <1>1. ASSUME NEW m \in Heap(DOMAIN owner), m.k \in Business
        PROVE  m.id # id
    <2>1. \A c \in Removals : c.k = "remove"
      BY DEF Removals
    <2>2. LinkUp.k = "engineUp" /\ Ignore.k = "ignore"
      BY DEF LinkUp, Ignore, Msg
    <2>3. "remove" \notin Business /\ "engineUp" \notin Business /\ "ignore" \notin Business
      BY DEF Business, Posted, Replied
    <2>4. m \in Told(Business, DOMAIN owner)
      BY <1>1, <2>1, <2>2, <2>3 DEF Heap, Heard
    <2> QED BY <2>4 DEF Told
  <1>2. ASSUME NEW q \in Seq(Heap(DOMAIN owner)), NEW K \in SUBSET Business
        PROVE  Number(q, K, id) = 0
    <2>1. \A n \in DOMAIN q : q[n] \in Heap(DOMAIN owner)
      OBVIOUS
    <2>2. \A n \in DOMAIN q : ~ Tells(q[n], K, id)
      BY <1>1, <2>1 DEF Tells
    <2> QED BY <2>2, NumberNone
  <1>3. \A K \in SUBSET Business : /\ Number(msgQ, K, id) = 0 /\ Number(pending, K, id) = 0
                                   /\ Number(RepliesOf(apiQ), K, id) = 0
    BY <1>2, QueuesTyped
  <1>4. Business \in SUBSET Business /\ Replied \in SUBSET Business /\ {"start"} \in SUBSET Business
        /\ {"started"} \in SUBSET Business /\ {"stopped"} \in SUBSET Business
    BY DEF Business, Posted, Replied
  <1>5. OpenNow(id) = 0 /\ AnswersNow(id) = 0
    BY <1>3, <1>4 DEF OpenNow, Open, AnswersNow, Answering
  <1>6. StartsNow(id) = 0 /\ HaltsNow(id) = 0
    BY <1>3, <1>4 DEF StartsNow, Starts, HaltsNow, Halts
  <1>7. StartingNow(id) = 0
    BY <1>3, <1>4 DEF StartingNow, Starting, Starts
  <1> QED BY <1>3, <1>5, <1>6, <1>7

-----------------------------------------------------------------------------
(* What a step does not change of a session *)

Steady(id) ==
  /\ OpenNow(id)' = OpenNow(id) /\ StartsNow(id)' = StartsNow(id) /\ HaltsNow(id)' = HaltsNow(id)
  /\ AnswersNow(id)' = AnswersNow(id) /\ StartingNow(id)' = StartingNow(id)
  /\ YoungestNow(id) => YoungestNow(id)'

LEMMA AsideSteady ==
  ASSUME Kept, msgQ # << >>, Head(msgQ).k \in Posted, NEW id,
         msgQ' = Tail(msgQ), pending' = Append(pending, Head(msgQ)), apiQ' = apiQ
  PROVE  Steady(id)
  <1> DEFINE r == RepliesOf(apiQ)
  <1>1. RepliesOf(apiQ') = r
    OBVIOUS
  <1> HIDE DEF r
  <1>2. r \in Seq(Heap(DOMAIN owner)) /\ msgQ \in Seq(Heap(DOMAIN owner)) /\ pending \in Seq(Heap(DOMAIN owner))
    BY QueuesTyped DEF r
  <1>3. /\ Open(Tail(msgQ), Append(pending, Head(msgQ)), r, id) = Open(msgQ, pending, r, id)
        /\ Starts(Tail(msgQ), Append(pending, Head(msgQ)), id) = Starts(msgQ, pending, id)
        /\ Halts(Tail(msgQ), r, id) = Halts(msgQ, r, id)
        /\ Answering(Tail(msgQ), r, id) = Answering(msgQ, r, id)
        /\ Starting(Tail(msgQ), Append(pending, Head(msgQ)), r, id) = Starting(msgQ, pending, r, id)
        /\ Youngest(msgQ, pending, r, id) => Youngest(Tail(msgQ), Append(pending, Head(msgQ)), r, id)
    BY <1>2, AsideOpen
  <1> QED BY <1>1, <1>3 DEF Steady, OpenNow, StartsNow, HaltsNow, AnswersNow, StartingNow, YoungestNow, r

LEMMA CalledSteady ==
  ASSUME Kept, msgQ # << >>, capsKnown, NEW x \in HalCalls(DOMAIN owner), Leads(Head(msgQ), x.reply), NEW id,
         msgQ' = Tail(msgQ), pending' = pending, apiQ' = Append(apiQ, x), capsKnown' = capsKnown
  PROVE  /\ OpenNow(id)' = OpenNow(id)
         /\ StartsNow(id) = StartsNow(id)' + Worth(Head(msgQ), {"start"}, id)
         /\ HaltsNow(id)' = HaltsNow(id) + Worth(Head(msgQ), {"stop"}, id)
         /\ AnswersNow(id)' = AnswersNow(id) + Worth(Head(msgQ), Posted, id)
         /\ StartingNow(id)' = StartingNow(id)
         /\ YoungestNow(id) => YoungestNow(id)'
         /\ StartsNow(id)' \in Nat
         /\ Head(msgQ).id # id => Steady(id)
         /\ Doomed(id) /\ ~ Tells(Head(msgQ), {"stop"}, id) => Doomed(id)'
  <1> DEFINE r == RepliesOf(apiQ)
             m == x.reply
  <1>1. RepliesOf(apiQ') = Append(r, m) /\ m \in Back(DOMAIN owner)
    <2>1. apiQ \in Seq(HalCalls(DOMAIN owner))
      BY DEF Kept, Mail, Ledger
    <2> QED BY <2>1, RepliesAppend
  <1>2. m \in Heap(DOMAIN owner)
    BY <1>1 DEF Heap, Heard, Back, Told, Business
  <1>3. r \in Seq(Heap(DOMAIN owner)) /\ msgQ \in Seq(Heap(DOMAIN owner)) /\ pending \in Seq(Heap(DOMAIN owner))
    BY QueuesTyped
  <1>4. Number(pending, Posted, id) = 0
    <2>1. \A n \in DOMAIN pending : ~ Tells(pending[n], Posted, id)
      BY DEF Kept, Mail, Ledger
    <2> QED BY <1>3, <2>1, NumberNone
  <1> HIDE DEF r, m
  <1>5. /\ Open(Tail(msgQ), pending, Append(r, m), id) = Open(msgQ, pending, r, id)
        /\ Starts(msgQ, pending, id) = Starts(Tail(msgQ), pending, id) + Worth(Head(msgQ), {"start"}, id)
        /\ Halts(Tail(msgQ), Append(r, m), id) = Halts(msgQ, r, id) + Worth(Head(msgQ), {"stop"}, id)
        /\ Answering(Tail(msgQ), Append(r, m), id) = Answering(msgQ, r, id) + Worth(Head(msgQ), Posted, id)
        /\ Starting(Tail(msgQ), pending, Append(r, m), id) = Starting(msgQ, pending, r, id)
        /\ Youngest(msgQ, pending, r, id) => Youngest(Tail(msgQ), pending, Append(r, m), id)
    <2>1. Leads(Head(msgQ), m)
      BY DEF m
    <2> QED BY <1>2, <1>3, <1>4, <2>1, CalledOpen
  <1>6. /\ OpenNow(id)' = OpenNow(id)
        /\ StartsNow(id) = StartsNow(id)' + Worth(Head(msgQ), {"start"}, id)
        /\ HaltsNow(id)' = HaltsNow(id) + Worth(Head(msgQ), {"stop"}, id)
        /\ AnswersNow(id)' = AnswersNow(id) + Worth(Head(msgQ), Posted, id)
        /\ StartingNow(id)' = StartingNow(id)
        /\ YoungestNow(id) => YoungestNow(id)'
    BY <1>1, <1>5 DEF OpenNow, StartsNow, HaltsNow, AnswersNow, StartingNow, YoungestNow, r
  <1>7. StartsNow(id)' \in Nat /\ HaltsNow(id) \in Nat /\ AnswersNow(id) \in Nat
    <2>1. Tail(msgQ) \in Seq(Heap(DOMAIN owner))
      BY <1>3
    <2>2. Starts(Tail(msgQ), pending, id) \in Nat
      BY <1>3, <2>1, Counts
    <2>3. HaltsNow(id) \in Nat /\ AnswersNow(id) \in Nat
      BY <1>3, Counts DEF HaltsNow, AnswersNow, r
    <2> QED BY <2>2, <2>3 DEF StartsNow
  <1>8. ASSUME Head(msgQ).id # id
        PROVE  Steady(id)
    <2>1. Worth(Head(msgQ), {"start"}, id) = 0 /\ Worth(Head(msgQ), {"stop"}, id) = 0 /\ Worth(Head(msgQ), Posted, id) = 0
      BY <1>8 DEF Worth, Tells
    <2>2. StartsNow(id)' = StartsNow(id) /\ HaltsNow(id)' = HaltsNow(id) /\ AnswersNow(id)' = AnswersNow(id)
      BY <1>6, <1>7, <2>1
    <2> QED BY <1>6, <2>2 DEF Steady
  <1>9. Doomed(id) /\ ~ Tells(Head(msgQ), {"stop"}, id) => Doomed(id)'
    BY <1>3, PrecedesTail DEF Doomed
  <1> QED BY <1>6, <1>7, <1>8, <1>9

\* A message is done with.
LEMMA DoneSteady ==
  ASSUME Kept, msgQ # << >>, NEW id,
         msgQ' = Tail(msgQ), pending' = pending, apiQ' = apiQ, capsKnown' = capsKnown
  PROVE  /\ OpenNow(id) = OpenNow(id)' + Worth(Head(msgQ), Business, id)
         /\ StartsNow(id) = StartsNow(id)' + Worth(Head(msgQ), {"start"}, id)
         /\ HaltsNow(id) = HaltsNow(id)' + Worth(Head(msgQ), {"stopped"}, id)
         /\ AnswersNow(id) = AnswersNow(id)' + Worth(Head(msgQ), Replied, id)
         /\ ~ Tells(Head(msgQ), {"start", "started"}, id) => StartingNow(id)' = StartingNow(id)
         /\ YoungestNow(id) /\ ~ Tells(Head(msgQ), {"stop"}, id) => YoungestNow(id)' \/ OpenNow(id)' = 0
         /\ YoungestNow(id) /\ ~ Tells(Head(msgQ), {"stop", "stopped"}, id) => YoungestNow(id)'
         /\ OpenNow(id)' \in Nat /\ StartsNow(id)' \in Nat /\ HaltsNow(id)' \in Nat /\ AnswersNow(id)' \in Nat
         /\ OpenNow(id)' = 0 => StartingNow(id)' = 0
         /\ ~ Tells(Head(msgQ), Business, id) => Steady(id)
         /\ Doomed(id) /\ ~ Tells(Head(msgQ), {"stop"}, id) => Doomed(id)'
  <1> DEFINE r == RepliesOf(apiQ)
             h == Head(msgQ)
  <1>1. RepliesOf(apiQ') = r
    OBVIOUS
  <1>3. r \in Seq(Heap(DOMAIN owner)) /\ msgQ \in Seq(Heap(DOMAIN owner)) /\ pending \in Seq(Heap(DOMAIN owner))
        /\ Tail(msgQ) \in Seq(Heap(DOMAIN owner))
    BY QueuesTyped
  <1>4. Number(pending, Replied, id) = 0 /\ Number(r, Posted, id) = 0
    <2>1. \A n \in DOMAIN pending : ~ Tells(pending[n], Replied, id)
      BY QueuesTyped DEF Tells, Posted, Replied
    <2>2. \A n \in DOMAIN r : ~ Tells(r[n], Posted, id)
      <3> HIDE DEF r
      <3>1. \A n \in DOMAIN r : r[n].k \in Replied \cup {"ignore"}
        BY QueuesTyped DEF r
      <3> QED BY <3>1 DEF Tells, Posted, Replied
    <2> HIDE DEF r
    <2> QED BY <1>3, <2>1, <2>2, NumberNone
  <1> HIDE DEF r, h
  <1>5. /\ Open(msgQ, pending, r, id) = Open(Tail(msgQ), pending, r, id) + Worth(h, Business, id)
        /\ Starts(msgQ, pending, id) = Starts(Tail(msgQ), pending, id) + Worth(h, {"start"}, id)
        /\ Halts(msgQ, r, id) = Halts(Tail(msgQ), r, id) + Worth(h, {"stopped"}, id)
        /\ Answering(msgQ, r, id) = Answering(Tail(msgQ), r, id) + Worth(h, Replied, id)
        /\ ~ Tells(h, {"start", "started"}, id) => Starting(Tail(msgQ), pending, r, id) = Starting(msgQ, pending, r, id)
        /\ Youngest(msgQ, pending, r, id) /\ ~ Tells(h, {"stop", "stopped"}, id) => Youngest(Tail(msgQ), pending, r, id)
        /\ Youngest(msgQ, pending, r, id) /\ ~ Tells(h, {"stop"}, id) =>
             Youngest(Tail(msgQ), pending, r, id)
             \/ /\ Number(Tail(msgQ), Posted, id) = 0 /\ Number(Tail(msgQ), Replied, id) = 0
                /\ Number(pending, Posted, id) = 0 /\ Number(r, Replied, id) = 0
    BY <1>3, DoneOpen DEF h
  <1>6. ASSUME NEW q \in Seq(Heap(DOMAIN owner)), Number(q, Posted, id) = 0, Number(q, Replied, id) = 0
        PROVE  Number(q, Business, id) = 0
    <2>1. \A n \in DOMAIN q : ~ Tells(q[n], Posted, id) /\ ~ Tells(q[n], Replied, id)
      BY <1>6, NumberNone
    <2>2. \A n \in DOMAIN q : ~ Tells(q[n], Business, id)
      BY <2>1, TellsKinds
    <2> QED BY <2>2, NumberNone
  <1>7. Youngest(msgQ, pending, r, id) /\ ~ Tells(h, {"stop"}, id) =>
           Youngest(Tail(msgQ), pending, r, id) \/ Open(Tail(msgQ), pending, r, id) = 0
    <2>1. ASSUME /\ Number(Tail(msgQ), Posted, id) = 0 /\ Number(Tail(msgQ), Replied, id) = 0
                 /\ Number(pending, Posted, id) = 0 /\ Number(r, Replied, id) = 0
          PROVE  Open(Tail(msgQ), pending, r, id) = 0
      <3>1. Number(Tail(msgQ), Business, id) = 0
        BY <1>3, <1>6, <2>1
      <3>2. Number(pending, Business, id) = 0
        BY <1>3, <1>4, <1>6, <2>1
      <3>3. Number(r, Business, id) = 0
        BY <1>3, <1>4, <1>6, <2>1
      <3> QED BY <3>1, <3>2, <3>3 DEF Open
    <2> QED BY <1>5, <2>1
  <1>8. /\ Open(Tail(msgQ), pending, r, id) \in Nat /\ Starts(Tail(msgQ), pending, id) \in Nat
        /\ Halts(Tail(msgQ), r, id) \in Nat /\ Answering(Tail(msgQ), r, id) \in Nat
        /\ Open(Tail(msgQ), pending, r, id) = 0 => Starting(Tail(msgQ), pending, r, id) = 0
    BY <1>3, Counts
  <1>9. /\ OpenNow(id) = OpenNow(id)' + Worth(h, Business, id)
        /\ StartsNow(id) = StartsNow(id)' + Worth(h, {"start"}, id)
        /\ HaltsNow(id) = HaltsNow(id)' + Worth(h, {"stopped"}, id)
        /\ AnswersNow(id) = AnswersNow(id)' + Worth(h, Replied, id)
        /\ ~ Tells(h, {"start", "started"}, id) => StartingNow(id)' = StartingNow(id)
        /\ YoungestNow(id) /\ ~ Tells(h, {"stop"}, id) => YoungestNow(id)' \/ OpenNow(id)' = 0
        /\ YoungestNow(id) /\ ~ Tells(h, {"stop", "stopped"}, id) => YoungestNow(id)'
        /\ OpenNow(id)' \in Nat /\ StartsNow(id)' \in Nat /\ HaltsNow(id)' \in Nat /\ AnswersNow(id)' \in Nat
        /\ OpenNow(id)' = 0 => StartingNow(id)' = 0
    BY <1>1, <1>5, <1>7, <1>8 DEF OpenNow, StartsNow, HaltsNow, AnswersNow, StartingNow, YoungestNow, r
  <1>10. ASSUME ~ Tells(h, Business, id)
         PROVE  Steady(id)
    <2>1. /\ Worth(h, Business, id) = 0 /\ Worth(h, {"start"}, id) = 0 /\ Worth(h, {"stopped"}, id) = 0
          /\ Worth(h, Replied, id) = 0 /\ ~ Tells(h, {"start", "started"}, id) /\ ~ Tells(h, {"stop", "stopped"}, id)
      BY <1>10 DEF Worth, Tells, Business, Posted, Replied
    <2>2. /\ OpenNow(id)' = OpenNow(id) /\ StartsNow(id)' = StartsNow(id) /\ HaltsNow(id)' = HaltsNow(id)
          /\ AnswersNow(id)' = AnswersNow(id)
      BY <1>9, <2>1
    <2> QED BY <1>9, <2>1, <2>2 DEF Steady
  <1>11. Doomed(id) /\ ~ Tells(h, {"stop"}, id) => Doomed(id)'
    BY <1>3, PrecedesTail DEF Doomed, h
  <1> QED BY <1>9, <1>10, <1>11 DEF h

LEMMA ServedSteady ==
  ASSUME Kept, apiQ # << >>, NEW id, NEW m \in Heap(DOMAIN owner),
         apiQ' = Tail(apiQ), pending' = pending, capsKnown' = capsKnown,
         \/ msgQ' = msgQ /\ Head(apiQ).reply.k = "ignore"
         \/ /\ msgQ' = Append(msgQ, m) /\ m.k = Head(apiQ).reply.k /\ m.id = Head(apiQ).reply.id
            /\ m.k \in Replied
  PROVE  Steady(id) /\ (Doomed(id) => Doomed(id)')
  <1> DEFINE r == RepliesOf(apiQ)
  <1>1. RepliesOf(apiQ') = Tail(r) /\ r # << >> /\ Head(r) = Head(apiQ).reply
    <2>1. apiQ \in Seq(HalCalls(DOMAIN owner))
      BY DEF Kept, Mail
    <2> QED BY <2>1, RepliesTail
  <1>2. r \in Seq(Heap(DOMAIN owner)) /\ msgQ \in Seq(Heap(DOMAIN owner)) /\ pending \in Seq(Heap(DOMAIN owner))
    BY QueuesTyped
  <1> HIDE DEF r
  <1>3. CASE msgQ' = msgQ /\ Head(apiQ).reply.k = "ignore"
    <2>1. Head(r).k \notin Business
      BY <1>1, <1>3 DEF Business, Posted, Replied
    <2>2. /\ Open(msgQ, pending, Tail(r), id) = Open(msgQ, pending, r, id)
          /\ Halts(msgQ, Tail(r), id) = Halts(msgQ, r, id)
          /\ Answering(msgQ, Tail(r), id) = Answering(msgQ, r, id)
          /\ Starting(msgQ, pending, Tail(r), id) = Starting(msgQ, pending, r, id)
          /\ Youngest(msgQ, pending, r, id) => Youngest(msgQ, pending, Tail(r), id)
      BY <1>1, <1>2, <2>1, IgnoredOpen
    <2>3. Steady(id)
      BY <1>1, <1>3, <2>2
      DEF Steady, OpenNow, StartsNow, HaltsNow, AnswersNow, StartingNow, YoungestNow, r
    <2> QED BY <1>3, <2>3 DEF Doomed
  <1>4. CASE msgQ' = Append(msgQ, m) /\ m.k = Head(apiQ).reply.k /\ m.id = Head(apiQ).reply.id /\ m.k \in Replied
    <2>1. /\ Open(Append(msgQ, m), pending, Tail(r), id) = Open(msgQ, pending, r, id)
          /\ Starts(Append(msgQ, m), pending, id) = Starts(msgQ, pending, id)
          /\ Halts(Append(msgQ, m), Tail(r), id) = Halts(msgQ, r, id)
          /\ Answering(Append(msgQ, m), Tail(r), id) = Answering(msgQ, r, id)
          /\ Starting(Append(msgQ, m), pending, Tail(r), id) = Starting(msgQ, pending, r, id)
          /\ Youngest(msgQ, pending, r, id) => Youngest(Append(msgQ, m), pending, Tail(r), id)
      BY <1>1, <1>2, <1>4, ServedOpen
    <2>2. Steady(id)
      BY <1>1, <1>4, <2>1
      DEF Steady, OpenNow, StartsNow, HaltsNow, AnswersNow, StartingNow, YoungestNow, r
    <2>3. Doomed(id) => Doomed(id)'
      BY <1>2, <1>4, PrecedesAppend DEF Doomed
    <2> QED BY <2>2, <2>3
  <1> QED BY <1>3, <1>4

LEMMA PostedSteady ==
  ASSUME Kept, NEW S, NEW m \in S, Heap(DOMAIN owner) \subseteq S, m.k \notin Replied, NEW id,
         msgQ' = Append(msgQ, m), pending' = pending, apiQ' = apiQ, capsKnown' = capsKnown
  PROVE  /\ OpenNow(id)' = OpenNow(id) + Worth(m, Posted, id)
         /\ StartsNow(id)' = StartsNow(id) + Worth(m, {"start"}, id)
         /\ HaltsNow(id)' = HaltsNow(id)
         /\ AnswersNow(id)' = AnswersNow(id)
         /\ StartingNow(id)' = StartingNow(id) + Worth(m, {"start"}, id)
         /\ YoungestNow(id) /\ ~ Tells(m, Posted, id) => YoungestNow(id)'
         /\ Tells(m, {"stop"}, id) => YoungestNow(id)'
         /\ OpenNow(id) \in Nat /\ StartsNow(id) \in Nat /\ StartingNow(id) \in Nat
         /\ ~ Tells(m, Posted, id) => Steady(id)
         /\ Doomed(id) => Doomed(id)'
  <1> DEFINE r == RepliesOf(apiQ)
  <1>1. RepliesOf(apiQ') = r
    OBVIOUS
  <1>2. r \in Seq(Heap(DOMAIN owner)) /\ msgQ \in Seq(Heap(DOMAIN owner)) /\ pending \in Seq(Heap(DOMAIN owner))
    BY QueuesTyped
  <1> HIDE DEF r
  <1>3. r \in Seq(S) /\ msgQ \in Seq(S) /\ pending \in Seq(S)
    <2> DEFINE T == Heap(DOMAIN owner)
    <2>1. T \subseteq S /\ r \in Seq(T) /\ msgQ \in Seq(T) /\ pending \in Seq(T)
      BY <1>2
    <2> HIDE DEF T
    <2> QED BY <2>1
  <1>4. /\ Open(Append(msgQ, m), pending, r, id) = Open(msgQ, pending, r, id) + Worth(m, Posted, id)
        /\ Starts(Append(msgQ, m), pending, id) = Starts(msgQ, pending, id) + Worth(m, {"start"}, id)
        /\ Halts(Append(msgQ, m), r, id) = Halts(msgQ, r, id)
        /\ Answering(Append(msgQ, m), r, id) = Answering(msgQ, r, id)
        /\ Starting(Append(msgQ, m), pending, r, id) = Starting(msgQ, pending, r, id) + Worth(m, {"start"}, id)
        /\ Youngest(msgQ, pending, r, id) /\ ~ Tells(m, Posted, id) => Youngest(Append(msgQ, m), pending, r, id)
        /\ Tells(m, {"stop"}, id) => Youngest(Append(msgQ, m), pending, r, id)
    BY <1>3, PostedOpen
  <1>5. Open(msgQ, pending, r, id) \in Nat /\ Starts(msgQ, pending, id) \in Nat /\ Starting(msgQ, pending, r, id) \in Nat
    BY <1>3, Counts
  <1>6. /\ OpenNow(id)' = OpenNow(id) + Worth(m, Posted, id)
        /\ StartsNow(id)' = StartsNow(id) + Worth(m, {"start"}, id)
        /\ HaltsNow(id)' = HaltsNow(id)
        /\ AnswersNow(id)' = AnswersNow(id)
        /\ StartingNow(id)' = StartingNow(id) + Worth(m, {"start"}, id)
        /\ YoungestNow(id) /\ ~ Tells(m, Posted, id) => YoungestNow(id)'
        /\ Tells(m, {"stop"}, id) => YoungestNow(id)'
        /\ OpenNow(id) \in Nat /\ StartsNow(id) \in Nat /\ StartingNow(id) \in Nat
    BY <1>1, <1>4, <1>5 DEF OpenNow, StartsNow, HaltsNow, AnswersNow, StartingNow, YoungestNow, r
  <1>7. ASSUME ~ Tells(m, Posted, id)
        PROVE  Steady(id)
    <2>1. Worth(m, Posted, id) = 0 /\ Worth(m, {"start"}, id) = 0
      BY <1>7 DEF Worth, Tells, Posted
    <2>2. OpenNow(id)' = OpenNow(id) /\ StartsNow(id)' = StartsNow(id) /\ StartingNow(id)' = StartingNow(id)
      BY <1>6, <2>1
    <2> QED BY <1>6, <1>7, <2>2 DEF Steady
  <1>8. Doomed(id) => Doomed(id)'
    BY <1>3, PrecedesAppend DEF Doomed
  <1> QED BY <1>6, <1>7, <1>8

LEMMA SweptSteady ==
  ASSUME Kept, NEW x \in HalCalls(DOMAIN owner), x.reply.k = "stopped", NEW id,
         msgQ' = msgQ, pending' = pending, apiQ' = Append(apiQ, x), capsKnown' = capsKnown
  PROVE  /\ OpenNow(id)' = OpenNow(id) + Worth(x.reply, {"stopped"}, id)
         /\ StartsNow(id)' = StartsNow(id)
         /\ HaltsNow(id)' = HaltsNow(id) + Worth(x.reply, {"stopped"}, id)
         /\ x.reply.id # id => Steady(id)
         /\ Doomed(id) => Doomed(id)'
  <1> DEFINE r == RepliesOf(apiQ)
             m == x.reply
  <1>1. RepliesOf(apiQ') = Append(r, m) /\ m \in Back(DOMAIN owner)
    <2>1. apiQ \in Seq(HalCalls(DOMAIN owner))
      BY DEF Kept, Mail
    <2> QED BY <2>1, RepliesAppend
  <1>2. m \in Heap(DOMAIN owner) /\ m.k = "stopped"
    BY <1>1 DEF Heap, Heard, Back, Told, Business
  <1>3. r \in Seq(Heap(DOMAIN owner)) /\ msgQ \in Seq(Heap(DOMAIN owner)) /\ pending \in Seq(Heap(DOMAIN owner))
    BY QueuesTyped
  <1> HIDE DEF r, m
  <1>4. /\ Open(msgQ, pending, Append(r, m), id) = Open(msgQ, pending, r, id) + Worth(m, {"stopped"}, id)
        /\ Halts(msgQ, Append(r, m), id) = Halts(msgQ, r, id) + Worth(m, {"stopped"}, id)
        /\ Answering(msgQ, Append(r, m), id) = Answering(msgQ, r, id) + Worth(m, {"stopped"}, id)
        /\ Starting(msgQ, pending, Append(r, m), id) = Starting(msgQ, pending, r, id)
        /\ Youngest(msgQ, pending, r, id) /\ ~ Tells(m, {"stopped"}, id) => Youngest(msgQ, pending, Append(r, m), id)
    BY <1>2, <1>3, SweptOpen
  <1>5. Open(msgQ, pending, r, id) \in Nat /\ Halts(msgQ, r, id) \in Nat /\ Answering(msgQ, r, id) \in Nat
    BY <1>3, Counts
  <1>6. /\ OpenNow(id)' = OpenNow(id) + Worth(m, {"stopped"}, id)
        /\ StartsNow(id)' = StartsNow(id)
        /\ HaltsNow(id)' = HaltsNow(id) + Worth(m, {"stopped"}, id)
        /\ AnswersNow(id)' = AnswersNow(id) + Worth(m, {"stopped"}, id)
        /\ StartingNow(id)' = StartingNow(id)
        /\ YoungestNow(id) /\ ~ Tells(m, {"stopped"}, id) => YoungestNow(id)'
        /\ OpenNow(id) \in Nat /\ HaltsNow(id) \in Nat /\ AnswersNow(id) \in Nat
    BY <1>1, <1>4, <1>5 DEF OpenNow, StartsNow, HaltsNow, AnswersNow, StartingNow, YoungestNow, r
  <1>7. ASSUME m.id # id
        PROVE  Steady(id)
    <2>1. Worth(m, {"stopped"}, id) = 0 /\ ~ Tells(m, {"stopped"}, id)
      BY <1>7 DEF Worth, Tells
    <2>2. OpenNow(id)' = OpenNow(id) /\ HaltsNow(id)' = HaltsNow(id) /\ AnswersNow(id)' = AnswersNow(id)
      BY <1>6, <2>1
    <2> QED BY <1>6, <1>7, <2>1, <2>2 DEF Steady
  <1>8. Doomed(id) => Doomed(id)'
    BY DEF Doomed
  <1> QED BY <1>6, <1>7, <1>8 DEF m

LEMMA UpSteady ==
  ASSUME Kept, msgQ # << >>, Head(msgQ).k = "engineUp", NEW id,
         NEW z \in Seq(HalCalls(DOMAIN owner)), \A n \in DOMAIN z : z[n].reply = Ignore,
         msgQ' = Tail(msgQ) \o pending, pending' = << >>, apiQ' = apiQ \o z, capsKnown' = TRUE
  PROVE  /\ OpenNow(id)' = OpenNow(id) /\ StartsNow(id)' = StartsNow(id) /\ HaltsNow(id)' = HaltsNow(id)
         /\ AnswersNow(id)' = AnswersNow(id) /\ StartingNow(id)' = StartingNow(id)
         /\ YoungestNow(id) => (YoungestNow(id)' \/ (Number(msgQ, {"stop"}, id) # 0 /\ Number(pending, Business, id) # 0))
         /\ pending = << >> => Steady(id)
         /\ Doomed(id) => Doomed(id)'
         /\ Number(msgQ, {"stop"}, id) # 0 /\ Number(pending, {"start"}, id) # 0 => Doomed(id)'
  <1> DEFINE r == RepliesOf(apiQ)
             y == RepliesOf(z)
             S == Heap(DOMAIN owner)
  <1>1. RepliesOf(apiQ') = r \o y
    <2>1. apiQ \in Seq(HalCalls(DOMAIN owner))
      BY DEF Kept, Mail
    <2> QED BY <2>1, RepliesConcat DEF Joined
  <1>2. r \in Seq(S) /\ msgQ \in Seq(S) /\ pending \in Seq(S)
    BY QueuesTyped
  <1>3. y \in Seq(S) /\ \A n \in DOMAIN y : y[n].k \notin Business
    <2>1. y \in [1 .. Len(z) -> S] /\ \A n \in DOMAIN y : y[n] = Ignore
      <3>1. Ignore \in S /\ DOMAIN z = 1 .. Len(z)
        BY DEF Heap
      <3> HIDE DEF S
      <3> QED BY <3>1 DEF RepliesOf
    <2>2. Ignore.k \notin Business
      BY DEF Ignore, Msg, Business, Posted, Replied
    <2>3. Len(z) \in Nat
      OBVIOUS
    <2> HIDE DEF S, y
    <2>4. y \in Seq(S)
      BY <2>1, <2>3, RangeSequence
    <2> QED BY <2>1, <2>2, <2>4
  <1>4. Number(pending, Replied, id) = 0
    <2>1. \A n \in DOMAIN pending : ~ Tells(pending[n], Replied, id)
      BY QueuesTyped DEF Tells, Posted, Replied
    <2> HIDE DEF S
    <2> QED BY <1>2, <2>1, NumberNone
  <1>5. Head(msgQ).k \notin Business
    BY DEF Business, Posted, Replied
  <1> HIDE DEF r, y, S
  <1>6. /\ Open(Tail(msgQ) \o pending, << >>, r \o y, id) = Open(msgQ, pending, r, id)
        /\ Starts(Tail(msgQ) \o pending, << >>, id) = Starts(msgQ, pending, id)
        /\ Halts(Tail(msgQ) \o pending, r \o y, id) = Halts(msgQ, r, id)
        /\ Answering(Tail(msgQ) \o pending, r \o y, id) = Answering(msgQ, r, id)
        /\ Starting(Tail(msgQ) \o pending, << >>, r \o y, id) = Starting(msgQ, pending, r, id)
        /\ Youngest(msgQ, pending, r, id) =>
              \/ Youngest(Tail(msgQ) \o pending, << >>, r \o y, id)
              \/ Number(msgQ, {"stop"}, id) # 0 /\ Number(pending, Posted, id) # 0
    BY <1>2, <1>3, <1>4, <1>5, UpOpen
  <1>7. Number(pending, Business, id) = 0 => Number(pending, Posted, id) = 0
    BY <1>2, NumberKinds
  <1>8. /\ OpenNow(id)' = OpenNow(id) /\ StartsNow(id)' = StartsNow(id) /\ HaltsNow(id)' = HaltsNow(id)
        /\ AnswersNow(id)' = AnswersNow(id) /\ StartingNow(id)' = StartingNow(id)
        /\ YoungestNow(id) => (YoungestNow(id)' \/ (Number(msgQ, {"stop"}, id) # 0 /\ Number(pending, Business, id) # 0))
    <2> DEFINE w2 == Tail(msgQ) \o pending
               r2 == r \o y
               p2 == << >>
    <2>1. msgQ' = w2 /\ pending' = p2 /\ RepliesOf(apiQ)' = r2
      BY <1>1
    <2>2. /\ Open(w2, p2, r2, id) = Open(msgQ, pending, r, id)
          /\ Starts(w2, p2, id) = Starts(msgQ, pending, id)
          /\ Halts(w2, r2, id) = Halts(msgQ, r, id)
          /\ Answering(w2, r2, id) = Answering(msgQ, r, id)
          /\ Starting(w2, p2, r2, id) = Starting(msgQ, pending, r, id)
          /\ Youngest(msgQ, pending, r, id) =>
                Youngest(w2, p2, r2, id) \/ (Number(msgQ, {"stop"}, id) # 0 /\ Number(pending, Posted, id) # 0)
      BY <1>6
    <2> HIDE DEF w2, r2, p2
    <2>3. /\ OpenNow(id)' = OpenNow(id) /\ StartsNow(id)' = StartsNow(id) /\ HaltsNow(id)' = HaltsNow(id)
          /\ AnswersNow(id)' = AnswersNow(id) /\ StartingNow(id)' = StartingNow(id)
      BY <2>1, <2>2 DEF OpenNow, StartsNow, HaltsNow, AnswersNow, StartingNow, r
    <2>4. YoungestNow(id) => YoungestNow(id)' \/ (Number(msgQ, {"stop"}, id) # 0 /\ Number(pending, Posted, id) # 0)
      BY <2>1, <2>2 DEF YoungestNow, r
    <2> QED BY <1>7, <2>3, <2>4
  <1>9. ASSUME pending = << >>
        PROVE  Steady(id)
    <2>1. \A n \in DOMAIN pending : ~ Tells(pending[n], Business, id)
      BY <1>9
    <2>2. Number(pending, Business, id) = 0
      BY <1>2, <2>1, NumberNone
    <2> QED BY <1>8, <2>2 DEF Steady
  <1>10. Tail(msgQ) \in Seq(S) /\ ~ Tells(Head(msgQ), {"stop"}, id)
    BY <1>2 DEF Tells
  <1>11. ASSUME Doomed(id)
         PROVE  Doomed(id)'
    <2>1. pending = << >>
      BY <1>11 DEF Doomed, Kept, Ledger
    <2>2. Tail(msgQ) \o pending = Tail(msgQ)
      BY <1>10, <2>1
    <2>3. Precedes(Tail(msgQ), {"stop"}, "start", id)
      BY <1>2, <1>10, <1>11, PrecedesTail DEF Doomed
    <2> QED BY <2>2, <2>3 DEF Doomed
  <1>12. ASSUME Number(msgQ, {"stop"}, id) # 0, Number(pending, {"start"}, id) # 0
         PROVE  Doomed(id)'
    <2>1. Number(msgQ, {"stop"}, id) = Number(Tail(msgQ), {"stop"}, id) + Worth(Head(msgQ), {"stop"}, id)
      BY <1>2, TailNumber
    <2>2. Worth(Head(msgQ), {"stop"}, id) = 0 /\ Number(Tail(msgQ), {"stop"}, id) \in Nat
      BY <1>10, NumberNone DEF Worth
    <2>3. Number(Tail(msgQ), {"stop"}, id) # 0
      BY <1>12, <2>1, <2>2
    <2> QED BY <1>2, <1>10, <1>12, <2>3, PrecedesConcat DEF Doomed
  <1> QED BY <1>8, <1>9, <1>11, <1>12

-----------------------------------------------------------------------------
(* What each step is, as far as these sessions are concerned *)

books == <<live, clientData, owner>>
talk  == <<session, requests, taken, lost>>

PutAside ==
  /\ msgQ # << >> /\ Head(msgQ).k \in Posted /\ ~ capsKnown /\ sweep = {} /\ taken = Nothing
  /\ msgQ' = Tail(msgQ) /\ pending' = Append(pending, Head(msgQ))
  /\ UNCHANGED <<books, apiQ, capsKnown, saved, trips, sweep, talk>>

\* A command leads to a call.
PassOn(x) ==
  /\ msgQ # << >> /\ capsKnown /\ sweep = {} /\ taken = Nothing
  /\ Leads(Head(msgQ), x.reply)
  /\ msgQ' = Tail(msgQ) /\ apiQ' = Append(apiQ, x)
  /\ LET m == Head(msgQ)
     IN  \/ m.k = "start" /\ owner[m.id] \in clientData /\ saved' = With(saved, m.id, m.opts.mode)
         \/ m.k = "stop" /\ m.id \in DOMAIN saved /\ saved' = Without(saved, m.id)
         \/ m.k = "get" /\ m.id \in DOMAIN saved /\ saved' = saved
  /\ UNCHANGED <<books, pending, capsKnown, trips, sweep, talk>>

\* The start of a client that has gone.
DropStart ==
  /\ msgQ # << >> /\ Head(msgQ).k = "start" /\ capsKnown /\ sweep = {} /\ taken = Nothing
  /\ owner[Head(msgQ).id] \notin clientData
  /\ msgQ' = Tail(msgQ)
  /\ UNCHANGED <<books, pending, apiQ, capsKnown, saved, trips, sweep, talk>>

\* The stop of a session that is not known.
NotAnswered ==
  /\ msgQ # << >> /\ Head(msgQ).k = "stop" /\ sweep = {} /\ taken = Nothing
  /\ msgQ' = Tail(msgQ) /\ lost' = lost \cup {Head(msgQ).id}
  /\ UNCHANGED <<books, pending, apiQ, capsKnown, saved, trips, sweep, session, requests, taken>>

Given(op, id, ok) ==
  /\ owner[id] \in clientData /\ session[owner[id]] = id /\ requests[owner[id]] # << >>
  /\ taken' = [op |-> Head(requests[owner[id]]).op, of |-> Head(requests[owner[id]]).of,
               answers |-> op, id |-> id, ok |-> ok]
  /\ requests' = [requests EXCEPT ![owner[id]] = Tail(@)]
  /\ UNCHANGED <<session, lost>>

Missed(id) == lost' = lost \cup {id} /\ UNCHANGED <<session, requests, taken>>

GiveAnswer ==
  /\ msgQ # << >> /\ Head(msgQ).k \in Replied \cup {"get"} /\ sweep = {} /\ taken = Nothing
  /\ Head(msgQ).k = "get" => capsKnown
  /\ msgQ' = Tail(msgQ)
  /\ LET m == Head(msgQ)
     IN  /\ saved' = CASE m.k = "started" /\ ~ m.ok -> Without(saved, m.id)
                       [] m.k = "stopped" /\ ~ m.ok -> With(saved, m.id, m.opts.mode)
                       [] OTHER -> saved
         /\ (\E op, ok : ok \in BOOLEAN /\ Given(op, m.id, ok) /\ (m.k # "get" => ok = m.ok)) \/ Missed(m.id)
  /\ UNCHANGED <<books, pending, apiQ, capsKnown, trips, sweep>>

RemoveStarts ==
  /\ msgQ # << >> /\ Head(msgQ).k = "remove" /\ sweep = {}
  /\ sweep' = {i \in DOMAIN saved : owner[i] = Head(msgQ).client} \cup {0}
  /\ UNCHANGED <<books, msgQ, pending, apiQ, capsKnown, saved, trips, talk>>

SweepOne(id, x) ==
  /\ id \in sweep \ {0} /\ x.reply.k = "stopped" /\ x.reply.id = id
  /\ apiQ' = Append(apiQ, x)
  /\ saved' = Without(saved, id)
  /\ sweep' = sweep \ {id}
  /\ UNCHANGED <<books, msgQ, pending, capsKnown, trips, talk>>

SweepEnds ==
  /\ sweep = {0} /\ sweep' = {}
  /\ clientData' = clientData \ {Head(msgQ).client}
  /\ msgQ' = Tail(msgQ)
  /\ UNCHANGED <<live, owner, pending, apiQ, capsKnown, saved, trips, talk>>

ComeUp(z) ==
  /\ msgQ # << >> /\ Head(msgQ).k = "engineUp" /\ sweep = {}
  /\ \A n \in DOMAIN z : z[n].reply = Ignore
  /\ msgQ' = Tail(msgQ) \o pending /\ pending' = << >> /\ apiQ' = apiQ \o z /\ capsKnown' = TRUE
  /\ UNCHANGED <<books, saved, trips, sweep, talk>>

HearBack(m) ==
  /\ apiQ # << >> /\ apiQ' = Tail(apiQ)
  /\ \/ msgQ' = msgQ /\ Head(apiQ).reply.k = "ignore"
     \/ /\ msgQ' = Append(msgQ, m) /\ m.k = Head(apiQ).reply.k /\ m.id = Head(apiQ).reply.id
        /\ m.k \in Replied
  /\ UNCHANGED <<books, pending, capsKnown, saved, trips, sweep, talk>>

LinkOpens ==
  /\ msgQ' = Append(msgQ, LinkUp)
  /\ UNCHANGED <<books, pending, apiQ, capsKnown, saved, trips, sweep, talk>>

Waiting == UNCHANGED <<books, msgQ, pending, apiQ, capsKnown, saved, trips, sweep, talk>>

LEMMA ToldFields ==
  ASSUME NEW K, NEW D, NEW m \in Told(K, D)
  PROVE  /\ m.k \in K /\ m.id \in D /\ m.opts \in Plainly /\ m.opts \in Options
         /\ m.opts.mode \in {"routine", "noReport"} /\ m.acc = 0 /\ m.again = FALSE /\ m.ok \in BOOLEAN
  BY DEF Told, Plainly, Options, Modes

LEMMA HeardHead ==
  ASSUME Kept, msgQ # << >>
  PROVE  /\ Tail(msgQ) \in Seq(Heard(DOMAIN owner)) /\ Head(msgQ) \in Heard(DOMAIN owner)
         /\ Head(msgQ).k \in Business => Head(msgQ) \in Told(Business, DOMAIN owner)
         /\ Head(msgQ).k \in Business \cup {"engineUp", "remove"}
         /\ Head(msgQ).k = "remove" => Head(msgQ).client \in Clients /\ Head(msgQ).client \notin live
  <1>1. msgQ \in Seq(Heard(DOMAIN owner))
    BY DEF Kept, Mail
  <1>2. Tail(msgQ) \in Seq(Heard(DOMAIN owner)) /\ Head(msgQ) \in Heard(DOMAIN owner)
        /\ Head(msgQ) = msgQ[1] /\ 1 \in DOMAIN msgQ
    BY <1>1
  <1>3. LinkUp.k = "engineUp" /\ \A c \in Removals : c.k = "remove" /\ c.client \in Clients
    BY DEF LinkUp, Msg, Removals
  <1>4. \A m \in Told(Business, DOMAIN owner) : m.k \in Business
    BY ToldFields
  <1>5. "engineUp" \notin Business /\ "remove" \notin Business
    BY DEF Business, Posted, Replied
  <1> QED BY <1>2, <1>3, <1>4, <1>5 DEF Heard, Kept, Sweeps

LEMMA PlainTrips ==
  ASSUME Kept
  PROVE  DOMAIN trips = {} /\ \A id \in DOMAIN saved : saved[id] \in {"routine", "noReport"}
  BY DEF Kept, Ledger, Partial

LEMMA RoutinePlain == Routine \in Plainly
  BY BatchingAssumption DEF Plainly, Routine, Options, Modes, Distances

StartCall(id, o)  == Call("start", id, o, Msg("started", id, o, 0))
StopCall(id, was) == Call("stop", id, Routine, StopMsg("stopped", id, Routine, was, FALSE))
GetCall(id)       == Call("get", id, Routine, Msg("got", id, Routine, 0))

LEMMA StartCallTyped ==
  ASSUME NEW D, NEW id \in D, NEW o \in Plainly
  PROVE  /\ StartCall(id, o) \in HalCalls(D) /\ StartCall(id, o).reply.k = "started"
         /\ StartCall(id, o).reply.id = id
  <1>1. Msg("started", id, o, 0) \in Back(D) /\ Msg("started", id, o, 0).k = "started" /\ Msg("started", id, o, 0).id = id
    BY DEF Msg, Told, Modes, Back, Replied
  <1>2. o \in Options
    BY DEF Plainly
  <1> QED BY <1>1, <1>2 DEF StartCall, Call, HalCalls

LEMMA StopCallTyped ==
  ASSUME NEW D, NEW id \in D, NEW was \in Modes
  PROVE  /\ StopCall(id, was) \in HalCalls(D) /\ StopCall(id, was).reply.k = "stopped"
         /\ StopCall(id, was).reply.id = id
  <1> DEFINE m == StopMsg("stopped", id, Routine, was, FALSE)
  <1>1. m \in Back(D) /\ m.k = "stopped" /\ m.id = id
    BY RoutinePlain DEF StopMsg, Told, Back, Replied
  <1>2. Routine \in Options
    BY RoutinePlain DEF Plainly
  <1>3. StopCall(id, was) = Call("stop", id, Routine, m)
    BY DEF StopCall
  <1> HIDE DEF m
  <1> QED BY <1>1, <1>2, <1>3 DEF Call, HalCalls

LEMMA GetCallTyped ==
  ASSUME NEW D, NEW id \in D
  PROVE  /\ GetCall(id) \in HalCalls(D) /\ GetCall(id).reply.k = "got"
         /\ GetCall(id).reply.id = id
  <1>1. Msg("got", id, Routine, 0) \in Back(D) /\ Msg("got", id, Routine, 0).k = "got" /\ Msg("got", id, Routine, 0).id = id
    BY RoutinePlain DEF Msg, Told, Modes, Back, Replied
  <1>2. Routine \in Options
    BY RoutinePlain DEF Plainly
  <1> QED BY <1>1, <1>2 DEF GetCall, Call, HalCalls

LEMMA SetAsideShape ==
  ASSUME Kept, taken = Nothing, (SetAside /\ Silent) \/ GetSetAside
  PROVE  PutAside
  <1>1. /\ \E k \in {"start", "update", "stop", "get"} : Receive(k)
        /\ ~ capsKnown /\ pending' = Append(pending, Head(msgQ))
        /\ UNCHANGED <<apiQ, capsKnown, clientData, adapterVars, halVars>>
    BY DEF SetAside, GetSetAside, Silent
  <1>2. PICK k \in {"start", "update", "stop", "get"} : Receive(k)
    BY <1>1
  <1>3. /\ sweep = {} /\ msgQ # << >> /\ Head(msgQ).k = k /\ msgQ' = Tail(msgQ)
        /\ UNCHANGED <<live, owner, sweep>>
    BY <1>2 DEF Receive, AtHead, clientVars
  <1>4. Head(msgQ).k \in Posted
    BY <1>3, HeardHead DEF Business, Posted, Replied
  <1> QED BY <1>1, <1>3, <1>4 DEF PutAside, books, talk, adapterVars, halVars

LEMMA StartShape ==
  ASSUME Kept, taken = Nothing, StartBatching, Silent
  PROVE  (\E x \in HalCalls(DOMAIN owner) : PassOn(x)) \/ DropStart
  <1> DEFINE m == Head(msgQ)
  <1>1. /\ sweep = {} /\ msgQ # << >> /\ m.k = "start" /\ msgQ' = Tail(msgQ) /\ capsKnown
        /\ UNCHANGED <<live, owner, sweep, pending, capsKnown, clientData>>
    BY DEF StartBatching, Command, Receive, AtHead, clientVars
  <1>2. UNCHANGED <<session, requests, taken, lost>>
    BY DEF Silent, halVars
  <1>3. m \in Told(Business, DOMAIN owner)
    BY <1>1, HeardHead DEF Business, Posted
  <1>4. m.opts \in Plainly /\ m.id \in DOMAIN owner /\ m.opts.mode # "trip" /\ m.opts.mode \in Modes
    <2>1. m.opts \in Plainly /\ m.id \in DOMAIN owner /\ m.opts.mode \in {"routine", "noReport"}
      BY <1>3, ToldFields
    <2> HIDE DEF m
    <2> QED BY <2>1 DEF Modes
  <1> HIDE DEF m
  <1>5. CASE owner[m.id] \in clientData
    <2> DEFINE x == StartCall(m.id, m.opts)
    <2>1. StartPlain(saved, trips, batchFull, apiQ, m.id, m.opts)
      BY <1>4, <1>5 DEF StartBatching, Start, m
    <2>2. saved' = With(saved, m.id, m.opts.mode) /\ trips' = trips /\ apiQ' = Append(apiQ, x)
      BY <2>1 DEF StartPlain, StartCall
    <2>3. x \in HalCalls(DOMAIN owner) /\ x.reply.k = "started" /\ x.reply.id = m.id
      BY <1>4, StartCallTyped
    <2> HIDE DEF x
    <2>4. Leads(m, x.reply)
      BY <1>1, <2>3 DEF Leads
    <2>5. PassOn(x)
      BY <1>1, <1>2, <1>5, <2>2, <2>4 DEF PassOn, books, talk, m
    <2> QED BY <2>3, <2>5
  <1>6. CASE owner[m.id] \notin clientData
    <2>1. UNCHANGED <<apiQ, saved, trips>>
      BY <1>6 DEF StartBatching, adapterVars, m
    <2> QED BY <1>1, <1>2, <1>6, <2>1 DEF DropStart, books, talk, m
  <1> QED BY <1>5, <1>6

LEMMA StopShape ==
  ASSUME Kept, taken = Nothing, StopAsked
  PROVE  (\E x \in HalCalls(DOMAIN owner) : PassOn(x)) \/ NotAnswered
  <1> DEFINE m == Head(msgQ)
  <1>1. /\ sweep = {} /\ msgQ # << >> /\ m.k = "stop" /\ msgQ' = Tail(msgQ) /\ capsKnown
        /\ UNCHANGED <<live, owner, sweep, pending, capsKnown, clientData>>
    BY DEF StopAsked, StopBatching, Command, Receive, AtHead, clientVars
  <1>2. /\ UNCHANGED <<session, requests, taken>>
        /\ lost' = IF m.id \in DOMAIN saved THEN lost ELSE lost \cup {m.id}
    BY DEF StopAsked
  <1>3. m \in Told(Business, DOMAIN owner)
    BY <1>1, HeardHead DEF Business, Posted
  <1>4. m.id \in DOMAIN owner
    BY <1>3, ToldFields
  <1>5. Leave(m.id, Routine, FALSE)
    BY DEF StopAsked, StopBatching
  <1> HIDE DEF m
  <1>6. CASE m.id \in DOMAIN saved
    <2> DEFINE x == StopCall(m.id, saved[m.id])
    <2>1. StopPlain(m.id, Routine, FALSE)
      BY <1>5, <1>6, PlainTrips DEF Leave
    <2>2. saved' = Without(saved, m.id) /\ trips' = trips /\ apiQ' = Append(apiQ, x)
      BY <2>1 DEF StopPlain, StopCall
    <2>3. saved[m.id] \in Modes
      BY <1>6, PlainTrips DEF Modes
    <2>4. x \in HalCalls(DOMAIN owner) /\ x.reply.k = "stopped" /\ x.reply.id = m.id
      BY <1>4, <2>3, StopCallTyped
    <2> HIDE DEF x
    <2>5. Leads(m, x.reply)
      BY <1>1, <2>4 DEF Leads
    <2>6. PassOn(x)
      BY <1>1, <1>2, <1>6, <2>2, <2>5 DEF PassOn, books, talk, m
    <2> QED BY <2>4, <2>6
  <1>7. CASE m.id \notin DOMAIN saved
    <2>1. UNCHANGED <<apiQ, saved, trips>>
      BY <1>5, <1>7 DEF Leave, adapterVars
    <2> QED BY <1>1, <1>2, <1>7, <2>1 DEF NotAnswered, books, talk, m
  <1> QED BY <1>6, <1>7

LEMMA RespondShape ==
  ASSUME NEW op, NEW id, NEW ok, Respond(op, id, ok)
  PROVE  Given(op, id, ok) \/ Missed(id)
  BY DEF Respond, Given, Missed

LEMMA GetShape ==
  ASSUME Kept, taken = Nothing, GetBatchedLocations
  PROVE  (\E x \in HalCalls(DOMAIN owner) : PassOn(x)) \/ GiveAnswer
  <1> DEFINE m == Head(msgQ)
  <1>1. /\ sweep = {} /\ msgQ # << >> /\ m.k = "get" /\ msgQ' = Tail(msgQ) /\ capsKnown
        /\ UNCHANGED <<live, owner, sweep, pending, capsKnown, clientData, saved, trips>>
    BY DEF GetBatchedLocations, Command, Receive, AtHead, clientVars, adapterVars
  <1>3. m \in Told(Business, DOMAIN owner)
    BY <1>1, HeardHead DEF Business, Posted
  <1>4. m.id \in DOMAIN owner
    BY <1>3, ToldFields
  <1> HIDE DEF m
  <1>6. CASE owner[m.id] \in clientData /\ m.id \in DOMAIN saved
    <2> DEFINE x == GetCall(m.id)
    <2>1. apiQ' = Append(apiQ, x) /\ UNCHANGED <<session, requests, taken, lost>>
      BY <1>6 DEF GetBatchedLocations, Silent, halVars, m, GetCall
    <2>4. x \in HalCalls(DOMAIN owner) /\ x.reply.k = "got" /\ x.reply.id = m.id
      BY <1>4, GetCallTyped
    <2> HIDE DEF x
    <2>5. Leads(m, x.reply)
      BY <1>1, <2>4 DEF Leads
    <2>6. PassOn(x)
      BY <1>1, <1>6, <2>1, <2>5 DEF PassOn, books, talk, m
    <2> QED BY <2>4, <2>6
  <1>7. CASE ~ (owner[m.id] \in clientData /\ m.id \in DOMAIN saved)
    <2>1. apiQ' = apiQ /\ Respond("get", m.id, FALSE)
      BY <1>7 DEF GetBatchedLocations, m
    <2>2. Given("get", m.id, FALSE) \/ Missed(m.id)
      BY <2>1, RespondShape
    <2>3. saved' = saved /\ m.k # "started" /\ m.k # "stopped"
      BY <1>1
    <2> QED BY <1>1, <2>1, <2>2, <2>3 DEF GiveAnswer, books, m
  <1> QED BY <1>6, <1>7

LEMMA AnswerShape ==
  ASSUME Kept, taken = Nothing,
         \/ Got
         \/ Started /\ Respond("start", Head(msgQ).id, Head(msgQ).ok)
         \/ Stopped /\ Respond("stop", Head(msgQ).id, Head(msgQ).ok)
  PROVE  GiveAnswer
  <1> DEFINE m == Head(msgQ)
  <1>1. \E k \in {"got", "started", "stopped"} : Reply(k)
    BY DEF Got, Started, Stopped
  <1>2. /\ sweep = {} /\ msgQ # << >> /\ m.k \in {"got", "started", "stopped"} /\ msgQ' = Tail(msgQ)
        /\ UNCHANGED <<live, owner, sweep, pending, capsKnown, clientData>>
    BY <1>1 DEF Reply, Receive, AtHead, clientVars
  <1>3. m \in Told(Business, DOMAIN owner)
    BY <1>2, HeardHead DEF Business, Replied
  <1>4. m.id \in DOMAIN owner /\ m.again = FALSE /\ m.ok \in BOOLEAN
    BY <1>3, ToldFields
  <1>5. \E op : Given(op, m.id, m.ok) \/ Missed(m.id)
    <2>1. \E op : Respond(op, m.id, m.ok)
      BY DEF Got
    <2> QED BY <2>1, RespondShape
  <1>6. CASE Got
    <2>1. UNCHANGED <<apiQ, saved, trips>> /\ m.k = "got"
      BY <1>6 DEF Got, Reply, Receive, AtHead, adapterVars
    <2> QED BY <1>2, <1>4, <1>5, <2>1 DEF GiveAnswer, books, Replied
  <1>7. CASE Started
    <2>1. UNCHANGED <<apiQ, trips>> /\ m.k = "started" /\ saved' = IF m.ok THEN saved ELSE Without(saved, m.id)
      BY <1>7 DEF Started, Reply, Receive, AtHead
    <2> HIDE DEF m
    <2> QED BY <1>2, <1>4, <1>5, <2>1 DEF GiveAnswer, books, Replied, m
  <1>8. CASE Stopped
    <2>1. /\ m.k = "stopped" /\ UNCHANGED <<apiQ, trips>>
          /\ saved' = IF m.ok THEN saved ELSE With(saved, m.id, m.opts.mode)
      BY <1>4, <1>8 DEF Stopped, Reply, Receive, AtHead
    <2> HIDE DEF m
    <2> QED BY <1>2, <1>4, <1>5, <2>1 DEF GiveAnswer, books, Replied, m
  <1> QED BY <1>6, <1>7, <1>8

LEMMA RemovalShape ==
  ASSUME Kept, Silent
  PROVE  /\ RemoveClient => RemoveStarts
         /\ Swept => SweepEnds
         /\ SweepSession => \E id \in DOMAIN owner, x \in HalCalls(DOMAIN owner) : SweepOne(id, x)
  <1>1. UNCHANGED <<session, requests, taken, lost>>
    BY DEF Silent, halVars
  <1>2. RemoveClient => RemoveStarts
    BY <1>1 DEF RemoveClient, AtHead, RemoveStarts, books, talk, clientVars, adapterVars
  <1>3. Swept => SweepEnds
    BY <1>1 DEF Swept, SweepEnds, books, talk, clientVars
  <1>4. ASSUME SweepSession
        PROVE  \E id \in DOMAIN owner, x \in HalCalls(DOMAIN owner) : SweepOne(id, x)
    <2>1. PICK id \in sweep \ {0} :
            /\ IF saved[id] = "trip" THEN LeaveTrip(id, Routine, FALSE) ELSE StopPlain(id, Routine, FALSE)
            /\ sweep' = sweep \ {id}
            /\ UNCHANGED <<clientVars, msgQ, pending, capsKnown, clientData, engineVars>>
      BY <1>4 DEF SweepSession
    <2>2. id \in DOMAIN saved /\ id \in DOMAIN owner
      BY DEF Kept, Sweeps, Ledger
    <2>3. saved[id] \in {"routine", "noReport"}
      BY <2>2, PlainTrips
    <2>4. StopPlain(id, Routine, FALSE)
      BY <2>1, <2>3
    <2> DEFINE x == StopCall(id, saved[id])
    <2>5. saved' = Without(saved, id) /\ trips' = trips /\ apiQ' = Append(apiQ, x)
      BY <2>4 DEF StopPlain, StopCall
    <2>6. x \in HalCalls(DOMAIN owner) /\ x.reply.k = "stopped" /\ x.reply.id = id
      <3>1. saved[id] \in Modes
        BY <2>3 DEF Modes
      <3> QED BY <2>2, <3>1, StopCallTyped
    <2> HIDE DEF x
    <2>7. SweepOne(id, x)
      BY <1>1, <2>1, <2>5, <2>6 DEF SweepOne, books, talk, clientVars
    <2> QED BY <2>2, <2>6, <2>7
  <1> QED BY <1>2, <1>3, <1>4

LEMMA UpShape ==
  ASSUME Kept, Silent, EngineUp
  PROVE  \E z \in Seq(HalCalls(DOMAIN owner)) : ComeUp(z)
  <1>1. /\ sweep = {} /\ msgQ # << >> /\ Head(msgQ).k = "engineUp"
        /\ capsKnown' = TRUE /\ msgQ' = Tail(msgQ) \o pending /\ pending' = << >>
        /\ UNCHANGED <<live, owner, clientData, saved, trips, sweep>>
    BY DEF EngineUp, AtHead, clientVars
  <1>2. UNCHANGED <<session, requests, taken, lost>>
    BY DEF Silent, halVars
  <1> DEFINE S == {i \in DOMAIN saved : saved[i] # "trip"}
  <1>3. PICK ids \in InOrder(S) : apiQ' = apiQ \o [n \in DOMAIN ids |-> Again(ids[n])]
    BY PlainTrips DEF EngineUp
  <1>4. S \subseteq DOMAIN owner /\ S \subseteq Ids
    BY DEF Kept, Ledger, Partial
  <1>5. \A i \in S : saved[i] \in {"routine", "noReport"}
    BY PlainTrips
  <1> HIDE DEF S
  <1>6. ids \in Seq(S)
    BY <1>4, InOrderTyped
  <1> DEFINE z == [n \in DOMAIN ids |-> Again(ids[n])]
  <1>7. \A i \in S : Again(i) \in HalCalls(DOMAIN owner) /\ Again(i).reply = Ignore
    <2> SUFFICES ASSUME NEW i \in S
                 PROVE  Again(i) \in HalCalls(DOMAIN owner) /\ Again(i).reply = Ignore
      OBVIOUS
    <2>1. [mode |-> saved[i], distance |-> 0, tbf |-> 0] \in Options
      BY <1>5, BatchingAssumption DEF Options, Modes, Distances
    <2>2. Ignore \in Back(DOMAIN owner)
      BY DEF Back
    <2> QED BY <1>4, <2>1, <2>2 DEF Again, Call, HalCalls
  <1>8. DOMAIN ids = 1 .. Len(ids) /\ Len(ids) \in Nat /\ \A n \in DOMAIN ids : ids[n] \in S
    BY <1>6
  <1>9. z \in Seq(HalCalls(DOMAIN owner)) /\ \A n \in DOMAIN z : z[n].reply = Ignore
    <2>1. z \in [1 .. Len(ids) -> HalCalls(DOMAIN owner)]
      BY <1>7, <1>8
    <2>2. \A n \in DOMAIN z : z[n].reply = Ignore
      BY <1>7, <1>8
    <2> HIDE DEF z
    <2> QED BY <1>8, <2>1, <2>2, RangeSequence
  <1> HIDE DEF z
  <1>10. ComeUp(z)
    BY <1>1, <1>2, <1>3, <1>9 DEF ComeUp, books, talk, z
  <1> QED BY <1>9, <1>10

LEMMA EngineShape ==
  ASSUME Kept, HalEngineNext
  PROVE  (\E m \in Told(Replied, DOMAIN owner) \cup {Ignore} : HearBack(m)) \/ LinkOpens \/ Waiting
  <1>1. UNCHANGED <<session, requests, taken, lost>>
    BY DEF HalEngineNext, Silent, halVars
  <1>2. CASE Accept \/ Refuse
    <2> DEFINE y == Head(apiQ).reply
    <2>1. PICK acc : \E ok \in BOOLEAN : Serve(Answer(y, ok, acc))
      BY <1>2 DEF Accept, Refuse
    <2>8. PICK ok \in BOOLEAN : Serve(Answer(y, ok, acc))
      BY <2>1
    <2> DEFINE m == Answer(y, ok, acc)
    <2>2. /\ apiQ # << >> /\ apiQ' = Tail(apiQ)
          /\ msgQ' = IF m.k = "ignore" THEN msgQ ELSE Append(msgQ, m)
          /\ UNCHANGED <<live, owner, pending, capsKnown, clientData, saved, trips, sweep>>
      BY <2>8 DEF Serve, clientVars, adapterVars
    <2>3. y \in Back(DOMAIN owner)
      <3>1. apiQ \in Seq(HalCalls(DOMAIN owner))
        BY DEF Kept, Mail
      <3> QED BY <2>2, <3>1, RepliesTail
    <2>4. CASE y = Ignore
      <3>1. m.k = "ignore"
        BY <2>4 DEF Ignore, Msg, Answer
      <3>2. y.k = "ignore"
        BY <2>4 DEF Ignore, Msg
      <3>3. HearBack(Ignore)
        BY <1>1, <2>2, <3>1, <3>2 DEF HearBack, books, talk
      <3> QED BY <3>3
    <2>5. CASE y \in Told(Replied, DOMAIN owner)
      <3> HIDE DEF y
      <3>0. Query # 0
        BY BatchingAssumption DEF Query
      <3>1. m = [y EXCEPT !.ok = ok] /\ m \in Told(Replied, DOMAIN owner) /\ m.k = y.k /\ m.id = y.id
        BY <2>5, <3>0 DEF Answer, Told
      <3> HIDE DEF m
      <3>2. m.k \in Replied /\ m.k # "ignore"
        <4>1. m.k \in Replied
          BY <3>1, ToldFields
        <4> QED BY <4>1 DEF Replied
      <3>3. HearBack(m)
        BY <1>1, <2>2, <3>1, <3>2 DEF HearBack, books, talk, y
      <3> QED BY <3>1, <3>3
    <2> QED BY <2>3, <2>4, <2>5 DEF Back
  <1>3. CASE EngineDown
    BY <1>1, <1>3 DEF EngineDown, Waiting, books, talk, clientVars, adapterVars
  <1>4. CASE OpenLink
    BY <1>1, <1>4 DEF OpenLink, LinkOpens, LinkUp, books, talk, clientVars, adapterVars
  <1> QED BY <1>2, <1>3, <1>4 DEF HalEngineNext

LEMMA AdapterShape ==
  ASSUME Kept, HalAdapterNext
  PROVE  \/ OnResponse \/ PutAside \/ DropStart \/ NotAnswered \/ GiveAnswer \/ RemoveStarts \/ SweepEnds
         \/ \E x \in HalCalls(DOMAIN owner) : PassOn(x)
         \/ \E id \in DOMAIN owner, x \in HalCalls(DOMAIN owner) : SweepOne(id, x)
         \/ \E z \in Seq(HalCalls(DOMAIN owner)) : ComeUp(z)
  BY SetAsideShape, StartShape, StopShape, GetShape, AnswerShape, RemovalShape, UpShape DEF HalAdapterNext

-----------------------------------------------------------------------------
(* The framework's calls *)

NewSession(c, m) ==
  /\ c \in live /\ session[c] = 0
  /\ m.id \notin DOMAIN owner /\ m.id \in Ids /\ owner' = With(owner, m.id, c)
  /\ DOMAIN owner' = DOMAIN owner \cup {m.id} /\ DOMAIN owner' = 1 .. m.id
  /\ m \in Told({"start"}, {m.id})
  /\ msgQ' = Append(msgQ, m)
  /\ session' = [session EXCEPT ![c] = m.id]
  /\ requests' = [requests EXCEPT ![c] = Append(@, [op |-> "start", of |-> m.id])]
  /\ UNCHANGED <<live, clientData, pending, apiQ, capsKnown, saved, trips, sweep, taken, lost>>

Asks(c, m) ==
  /\ c \in live /\ session[c] # 0 /\ m \in Told({"stop", "get"}, {session[c]})
  /\ msgQ' = Append(msgQ, m)
  /\ requests' = [requests EXCEPT ![c] = Append(@, [op |-> m.k, of |-> session[c]])]
  /\ UNCHANGED <<books, pending, apiQ, capsKnown, saved, trips, sweep, session, taken, lost>>

Leaves(c) ==
  /\ c \in live /\ live' = live \ {c}
  /\ msgQ' = Append(msgQ, Remove(c))
  /\ requests' = [requests EXCEPT ![c] = << >>]
  /\ UNCHANGED <<clientData, owner, pending, apiQ, capsKnown, saved, trips, sweep, session, taken, lost>>

LEMMA NewShape ==
  ASSUME Kept, NEW c \in Clients, NEW o \in Plain, StartSession(c, o)
  PROVE  \E m : NewSession(c, m)
  <1> DEFINE id == Cardinality(DOMAIN owner) + 1
             m  == Msg("start", id, o, 0)
  <1>1. id \in Ids /\ owner' = With(owner, id, c) /\ PostCommand(m) /\ c \in live /\ live' = live
    BY DEF StartSession, StartBatchingCommand
  <1>2. PICK k \in Nat : DOMAIN owner = 1 .. k
    BY DEF Kept, Ledger, Numbered
  <1>3. id = k + 1
    <2>1. 1 \in Int /\ k \in Int
      OBVIOUS
    <2>2. Cardinality(1 .. k) = IF 1 > k THEN 0 ELSE k - 1 + 1
      BY <2>1, FS_Interval
    <2>3. Cardinality(1 .. k) = k
      BY <2>2
    <2> QED BY <1>2, <2>3
  <1>4. /\ session[c] = 0 /\ session' = [session EXCEPT ![c] = id]
        /\ requests' = [requests EXCEPT ![c] = Append(@, [op |-> "start", of |-> id])]
        /\ UNCHANGED <<taken, lost>>
    BY DEF StartSession, Push
  <1> HIDE DEF id
  <1>5. DOMAIN owner' = DOMAIN owner \cup {id} /\ DOMAIN owner' = 1 .. id
    BY <1>1, <1>2, <1>3 DEF With
  <1>6. id \notin DOMAIN owner
    BY <1>2, <1>3
  <1>7. m.id = id /\ m \in Told({"start"}, {id})
    <2>1. o \in Plainly
      BY BatchingAssumption DEF Plainly
    <2> QED BY <2>1 DEF Msg, Told, Modes
  <1> HIDE DEF m
  <1>8. msgQ' = Append(msgQ, m) /\ UNCHANGED <<clientData, pending, apiQ, capsKnown, saved, trips, sweep>>
    BY <1>1 DEF PostCommand, adapterVars
  <1>9. NewSession(c, m)
    BY <1>1, <1>4, <1>5, <1>6, <1>7, <1>8 DEF NewSession
  <1> QED BY <1>9

LEMMA AskShape ==
  ASSUME Kept, NEW c \in Clients, StopSession(c) \/ FlushBatchedLocations(c)
  PROVE  \E m : Asks(c, m)
  <1>1. session[c] # 0
    BY DEF StopSession, FlushBatchedLocations
  <1>2. owner[session[c]] = c
    BY <1>1 DEF Kept, Talks
  <1>3. PICK k \in {"stop", "get"} : /\ PostCommand(Msg(k, session[c], Routine, 0))
                                    /\ Push(c, k, session[c])
    BY DEF StopSession, FlushBatchedLocations, StopBatchingCommand
  <1>4. c \in live /\ UNCHANGED <<live, owner, session>>
    BY <1>2 DEF StopSession, FlushBatchedLocations, StopBatchingCommand
  <1> DEFINE m == Msg(k, session[c], Routine, 0)
  <1>5. m.k = k /\ m \in Told({"stop", "get"}, {session[c]})
    BY RoutinePlain DEF Msg, Told, Modes
  <1> HIDE DEF m
  <1>6. msgQ' = Append(msgQ, m) /\ UNCHANGED <<clientData, pending, apiQ, capsKnown, saved, trips, sweep>>
    BY <1>3 DEF PostCommand, adapterVars, m
  <1>7. /\ requests' = [requests EXCEPT ![c] = Append(@, [op |-> m.k, of |-> session[c]])]
        /\ UNCHANGED <<taken, lost>>
    BY <1>3, <1>5 DEF Push
  <1>8. Asks(c, m)
    BY <1>1, <1>4, <1>5, <1>6, <1>7 DEF Asks, books
  <1> QED BY <1>8

LEMMA LeaveShape ==
  ASSUME Kept, NEW c \in Clients, DestroyClient(c)
  PROVE  Leaves(c)
  BY DEF DestroyClient, Destroy, PostCommand, Leaves, adapterVars

LEMMA FrameworkShape ==
  ASSUME Kept, FrameworkNext
  PROVE  \E c \in Clients : (\E m : NewSession(c, m) \/ Asks(c, m)) \/ Leaves(c)
  <1>1. PICK c \in Clients : (\E o \in Plain : StartSession(c, o)) \/ StopSession(c) \/ FlushBatchedLocations(c) \/ DestroyClient(c)
    BY DEF FrameworkNext
  <1> QED BY <1>1, NewShape, AskShape, LeaveShape

-----------------------------------------------------------------------------
(* The books are kept *)

LEMMA Widening ==
  ASSUME NEW D, NEW E, D \subseteq E
  PROVE  /\ \A K : Told(K, D) \subseteq Told(K, E)
         /\ Heard(D) \subseteq Heard(E) /\ HalCalls(D) \subseteq HalCalls(E)
  <1>1. \A K : Told(K, D) \subseteq Told(K, E)
    BY DEF Told
  <1>2. Heard(D) \subseteq Heard(E) /\ Back(D) \subseteq Back(E)
    BY <1>1 DEF Heard, Back
  <1> QED BY <1>1, <1>2 DEF HalCalls

LEMMA SequenceWider ==
  ASSUME NEW S, NEW T, S \subseteq T
  PROVE  Seq(S) \subseteq Seq(T)
  OBVIOUS

\* The messages after one was handled.
LEMMA TailSwept ==
  ASSUME Kept, msgQ # << >>, sweep' = {}, live' = live, msgQ' = Tail(msgQ)
  PROVE  Sweeps'
  <1>1. msgQ \in Seq(Heard(DOMAIN owner))
    BY DEF Kept, Mail
  <1>2. \A n \in DOMAIN Tail(msgQ) : n + 1 \in DOMAIN msgQ /\ Tail(msgQ)[n] = msgQ[n + 1]
    BY <1>1, TailFacts
  <1>3. \A n \in DOMAIN msgQ : msgQ[n].k = "remove" => msgQ[n].client \notin live
    BY DEF Kept, Sweeps
  <1> QED BY <1>2, <1>3 DEF Sweeps

\* And after one was posted.
LEMMA AppendSwept ==
  ASSUME Kept, NEW m, NEW S, m \in S, Heard(DOMAIN owner) \subseteq S, m.k = "remove" => m.client \notin live',
         msgQ' = Append(msgQ, m), live' \subseteq live, saved' = saved, sweep' = sweep,
         \A id \in DOMAIN owner : owner'[id] = owner[id]
  PROVE  Sweeps'
  <1>1. msgQ \in Seq(Heard(DOMAIN owner))
    BY DEF Kept, Mail
  <1>2. msgQ \in Seq(S)
    BY <1>1, SequenceWider
  <1>3. /\ DOMAIN Append(msgQ, m) = DOMAIN msgQ \cup {Len(msgQ) + 1} /\ Append(msgQ, m)[Len(msgQ) + 1] = m
        /\ \A n \in DOMAIN msgQ : Append(msgQ, m)[n] = msgQ[n]
    BY <1>2, AppendFacts
  <1>4. msgQ # << >> => Append(msgQ, m) # << >> /\ Head(Append(msgQ, m)) = Head(msgQ)
    BY <1>2
  <1>5. \A n \in DOMAIN msgQ' : msgQ'[n].k = "remove" => msgQ'[n].client \notin live'
    BY <1>3 DEF Kept, Sweeps
  <1>6. sweep # {} => /\ msgQ' # << >> /\ Head(msgQ').k = "remove"
                      /\ \A i \in sweep \ {0} : owner'[i] = Head(msgQ').client
    <2>1. sweep \ {0} \subseteq DOMAIN owner
      BY DEF Kept, Sweeps, Ledger
    <2> QED BY <1>4, <2>1 DEF Kept, Sweeps
  <1>7. sweep' \subseteq DOMAIN saved' \cup {0}
    BY DEF Kept, Sweeps
  <1> QED BY <1>5, <1>6, <1>7 DEF Sweeps

\* Sessions that are saved or erased.
LEMMA SavedTyped ==
  ASSUME Kept, NEW id \in DOMAIN owner, NEW mode \in {"routine", "noReport"}, NEW s,
         s = With(saved, id, mode) \/ s = Without(saved, id) \/ s = saved
  PROVE  Partial(s, {"routine", "noReport"}) /\ DOMAIN s \subseteq DOMAIN owner
  <1> DEFINE P == {"routine", "noReport"}
  <1>1. Partial(saved, P) /\ DOMAIN saved \subseteq DOMAIN owner /\ id \in Ids /\ mode \in P
    BY DEF Kept, Ledger, Partial
  <1> HIDE DEF P
  <1>2. Partial(With(saved, id, mode), P) /\ DOMAIN With(saved, id, mode) = DOMAIN saved \cup {id}
    BY <1>1 DEF Partial, With
  <1>3. Partial(Without(saved, id), P) /\ DOMAIN Without(saved, id) = DOMAIN saved \ {id}
    BY <1>1, WithoutTyped
  <1> QED BY <1>1, <1>2, <1>3 DEF P

LEMMA AsideKept ==
  ASSUME Kept, PutAside
  PROVE  Kept'
  <1>1. Ledger'
    BY DEF PutAside, books, Kept, Ledger, Partial, Numbered
  <1>2. Head(msgQ) \in Told(Posted, DOMAIN owner)
    <2>1. Head(msgQ) \in Told(Business, DOMAIN owner) /\ Head(msgQ).k \in Posted
      BY HeardHead DEF PutAside, Business
    <2> QED BY <2>1 DEF Told
  <1>3. Mail'
    <2>1. Tail(msgQ) \in Seq(Heard(DOMAIN owner))
      BY HeardHead DEF PutAside
    <2>2. Append(pending, Head(msgQ)) \in Seq(Told(Posted, DOMAIN owner))
      BY <1>2 DEF Kept, Mail
    <2> QED BY <2>1, <2>2 DEF PutAside, books, Kept, Mail
  <1>4. Talks'
    BY DEF PutAside, books, talk, Kept, Talks
  <1>5. Sweeps'
    BY TailSwept DEF PutAside, books
  <1> QED BY <1>1, <1>3, <1>4, <1>5 DEF Kept

LEMMA PassKept ==
  ASSUME Kept, NEW x \in HalCalls(DOMAIN owner), PassOn(x)
  PROVE  Kept'
  <1>0. Head(msgQ).k \in Business => Head(msgQ).id \in DOMAIN owner /\ Head(msgQ).opts.mode \in {"routine", "noReport"}
    <2>1. Head(msgQ).k \in Business => Head(msgQ) \in Told(Business, DOMAIN owner)
      BY HeardHead DEF PassOn
    <2> QED BY <2>1, ToldFields
  <1>1. Partial(saved', {"routine", "noReport"}) /\ DOMAIN saved' \subseteq DOMAIN owner
    <2> DEFINE m == Head(msgQ)
    <2>1. m.id \in DOMAIN owner /\ m.opts.mode \in {"routine", "noReport"}
      BY <1>0 DEF PassOn, Business, Posted
    <2>2. saved' = With(saved, m.id, m.opts.mode) \/ saved' = Without(saved, m.id) \/ saved' = saved
      BY DEF PassOn
    <2> HIDE DEF m
    <2> QED BY <2>1, <2>2, SavedTyped
  <1>2. Ledger'
    BY <1>1 DEF PassOn, books, Kept, Ledger, Partial, Numbered
  <1>3. Mail'
    <2>1. Tail(msgQ) \in Seq(Heard(DOMAIN owner))
      BY HeardHead DEF PassOn
    <2>2. Append(apiQ, x) \in Seq(HalCalls(DOMAIN owner))
      BY DEF Kept, Mail
    <2> QED BY <2>1, <2>2 DEF PassOn, books, Kept, Mail
  <1>4. Talks'
    BY DEF PassOn, books, talk, Kept, Talks
  <1>5. Sweeps'
    BY TailSwept DEF PassOn, books
  <1> QED BY <1>2, <1>3, <1>4, <1>5 DEF Kept

LEMMA DroppedKept ==
  ASSUME Kept, DropStart \/ NotAnswered
  PROVE  Kept'
  <1>0. UNCHANGED <<live, clientData, owner, pending, capsKnown, saved, trips>>
    BY DEF DropStart, NotAnswered, books
  <1>1. Ledger'
    BY <1>0 DEF Kept, Ledger, Partial, Numbered
  <1>2. Mail'
    <2>1. Tail(msgQ) \in Seq(Heard(DOMAIN owner))
      BY HeardHead DEF DropStart, NotAnswered
    <2> QED BY <2>1 DEF DropStart, NotAnswered, books, Kept, Mail
  <1>3. Talks'
    BY DEF DropStart, NotAnswered, books, talk, Kept, Talks
  <1>4. Sweeps'
    BY TailSwept DEF DropStart, NotAnswered, books
  <1> QED BY <1>1, <1>2, <1>3, <1>4 DEF Kept

LEMMA GivenKept ==
  ASSUME Kept, GiveAnswer
  PROVE  Kept'
  <1> DEFINE m == Head(msgQ)
  <1>0. m.id \in DOMAIN owner /\ m.opts.mode \in {"routine", "noReport"} /\ msgQ # << >>
    <2>1. m \in Told(Business, DOMAIN owner)
      BY HeardHead DEF GiveAnswer, Business, Posted
    <2> QED BY <2>1, ToldFields DEF GiveAnswer
  <1>1. saved' = With(saved, m.id, m.opts.mode) \/ saved' = Without(saved, m.id) \/ saved' = saved
    BY DEF GiveAnswer
  <1>2. /\ (\E op, ok : ok \in BOOLEAN /\ Given(op, m.id, ok)) \/ Missed(m.id)
        /\ msgQ' = Tail(msgQ) /\ sweep = {}
        /\ UNCHANGED <<live, clientData, owner, pending, apiQ, capsKnown, trips, sweep>>
    BY DEF GiveAnswer, books
  <1> HIDE DEF m
  <1>3. Partial(saved', {"routine", "noReport"}) /\ DOMAIN saved' \subseteq DOMAIN owner
    BY <1>0, <1>1, SavedTyped
  <1>4. Ledger'
    BY <1>2, <1>3 DEF Kept, Ledger, Partial, Numbered
  <1>5. Mail'
    <2>1. Tail(msgQ) \in Seq(Heard(DOMAIN owner))
      BY <1>0, HeardHead
    <2> QED BY <1>2, <2>1 DEF Kept, Mail
  <1>6. Talks'
    <2>1. CASE \E op, ok : ok \in BOOLEAN /\ Given(op, m.id, ok)
      <3>1. /\ session[owner[m.id]] = m.id /\ session' = session /\ taken'.id = m.id
            /\ requests[owner[m.id]] # << >>
            /\ requests' = [requests EXCEPT ![owner[m.id]] = Tail(@)]
        BY <2>1 DEF Given
      <3>2. requests \in [Clients -> Seq(Requests)] /\ owner[m.id] \in Clients
        BY <1>0 DEF Kept, Talks, Ledger, Partial
      <3>3. requests' \in [Clients -> Seq(Requests)]
        <4>1. Tail(requests[owner[m.id]]) \in Seq(Requests)
          BY <3>1, <3>2, TailFacts
        <4> QED BY <3>1, <3>2, <4>1
      <3> QED BY <1>0, <1>2, <3>1, <3>3 DEF Kept, Talks
    <2>2. CASE Missed(m.id)
      BY <1>2, <2>2 DEF Missed, Kept, Talks
    <2> QED BY <1>2, <2>1, <2>2
  <1>7. Sweeps'
    BY <1>0, <1>2, TailSwept
  <1> QED BY <1>4, <1>5, <1>6, <1>7 DEF Kept

LEMMA RemoveKept ==
  ASSUME Kept, RemoveStarts
  PROVE  Kept'
  <1>1. Ledger' /\ Mail' /\ Talks'
    BY DEF RemoveStarts, books, talk, Kept, Ledger, Mail, Talks, Partial, Numbered
  <1>2. Sweeps'
    BY DEF RemoveStarts, books, Kept, Sweeps
  <1> QED BY <1>1, <1>2 DEF Kept

LEMMA SweptKept ==
  ASSUME Kept, NEW id \in DOMAIN owner, NEW x \in HalCalls(DOMAIN owner), SweepOne(id, x)
  PROVE  Kept'
  <1>1. Partial(saved', {"routine", "noReport"}) /\ DOMAIN saved' \subseteq DOMAIN owner /\ DOMAIN saved' = DOMAIN saved \ {id}
    <2>1. saved' = Without(saved, id)
      BY DEF SweepOne
    <2>2. DOMAIN Without(saved, id) = DOMAIN saved \ {id}
      BY DEF Without, Restrict
    <2> QED BY <2>1, <2>2, SavedTyped
  <1>2. Ledger'
    BY <1>1 DEF SweepOne, books, Kept, Ledger, Partial, Numbered
  <1>3. Mail'
    <2>1. Append(apiQ, x) \in Seq(HalCalls(DOMAIN owner))
      BY DEF Kept, Mail
    <2> QED BY <2>1 DEF SweepOne, books, Kept, Mail
  <1>4. Talks'
    BY DEF SweepOne, books, talk, Kept, Talks
  <1>5. Sweeps'
    <2>1. sweep' = sweep \ {id} /\ sweep # {} /\ UNCHANGED <<live, owner, msgQ>>
      BY DEF SweepOne, books
    <2> QED BY <1>1, <2>1 DEF Kept, Sweeps
  <1> QED BY <1>2, <1>3, <1>4, <1>5 DEF Kept

LEMMA EndsKept ==
  ASSUME Kept, SweepEnds
  PROVE  Kept'
  <1>0. /\ msgQ # << >> /\ Head(msgQ).k = "remove" /\ msgQ' = Tail(msgQ) /\ sweep' = {}
        /\ clientData' = clientData \ {Head(msgQ).client}
        /\ UNCHANGED <<live, owner, pending, apiQ, capsKnown, saved, trips, session, requests, taken, lost>>
    BY DEF SweepEnds, Kept, Sweeps, talk
  <1>1. Ledger'
    <2>1. Head(msgQ).client \notin live
      BY <1>0, HeardHead
    <2> QED BY <1>0, <2>1 DEF Kept, Ledger, Partial, Numbered
  <1>2. Mail'
    <2>1. Tail(msgQ) \in Seq(Heard(DOMAIN owner))
      BY <1>0, HeardHead
    <2> QED BY <1>0, <2>1 DEF Kept, Mail
  <1>3. Talks'
    BY <1>0 DEF Kept, Talks
  <1>4. Sweeps'
    BY <1>0, TailSwept
  <1> QED BY <1>1, <1>2, <1>3, <1>4 DEF Kept

LEMMA UpKept ==
  ASSUME Kept, NEW z \in Seq(HalCalls(DOMAIN owner)), ComeUp(z)
  PROVE  Kept'
  <1>0. /\ msgQ # << >> /\ sweep = {}
        /\ msgQ' = Tail(msgQ) \o pending /\ pending' = << >> /\ apiQ' = apiQ \o z /\ capsKnown' = TRUE
        /\ UNCHANGED <<live, clientData, owner, saved, trips, sweep, session, requests, taken, lost>>
    BY DEF ComeUp, books, talk
  <1>1. Ledger'
    BY <1>0 DEF Kept, Ledger, Partial, Numbered
  <1> DEFINE H == Heard(DOMAIN owner)
             T == Told(Posted, DOMAIN owner)
  <1>2. T \subseteq H /\ \A m \in T : m.k # "remove"
    <2>1. T \subseteq Told(Business, DOMAIN owner)
      BY DEF Told, Business
    <2>2. \A m \in T : m.k \in Posted
      BY ToldFields
    <2> HIDE DEF T
    <2> QED BY <2>1, <2>2 DEF Heard, Posted
  <1>3. Tail(msgQ) \in Seq(H) /\ pending \in Seq(T) /\ pending \in Seq(H)
    <2>1. Tail(msgQ) \in Seq(H) /\ pending \in Seq(T)
      BY <1>0, HeardHead DEF Kept, Mail
    <2> HIDE DEF H, T
    <2> QED BY <1>2, <2>1, SequenceWider
  <1>4. Mail'
    <2> DEFINE C == HalCalls(DOMAIN owner)
    <2>1. apiQ \in Seq(C) /\ z \in Seq(C)
      BY DEF Kept, Mail
    <2> HIDE DEF H, T, C
    <2>2. Tail(msgQ) \o pending \in Seq(H) /\ << >> \in Seq(T) /\ apiQ \o z \in Seq(C)
      BY <1>3, <2>1
    <2> QED BY <1>0, <2>2 DEF Mail, H, T, C
  <1>5. Talks'
    BY <1>0 DEF Kept, Talks
  <1>6. Sweeps'
    <2> HIDE DEF H, T
    <2> DEFINE a == Tail(msgQ)
    <2>1. \A n \in DOMAIN a : a[n].k = "remove" => a[n].client \notin live
      <3>1. msgQ \in Seq(H)
        BY DEF Kept, Mail, H
      <3>2. \A n \in DOMAIN a : n + 1 \in DOMAIN msgQ /\ a[n] = msgQ[n + 1]
        BY <1>0, <3>1, TailFacts
      <3> HIDE DEF a
      <3> QED BY <3>2 DEF Kept, Sweeps
    <2>2. \A n \in DOMAIN pending : pending[n].k # "remove"
      BY <1>2, <1>3
    <2>3. a \in Seq(H)
      BY <1>3
    <2> HIDE DEF a
    <2>4. \A n \in DOMAIN (a \o pending) :
            \/ n \in DOMAIN a /\ (a \o pending)[n] = a[n]
            \/ n - Len(a) \in DOMAIN pending /\ (a \o pending)[n] = pending[n - Len(a)]
      BY <1>3, <2>3
    <2>5. \A n \in DOMAIN msgQ' : msgQ'[n].k = "remove" => msgQ'[n].client \notin live
      BY <1>0, <2>1, <2>2, <2>4 DEF a
    <2> QED BY <1>0, <2>5 DEF Sweeps
  <1> QED BY <1>1, <1>4, <1>5, <1>6 DEF Kept

LEMMA BackKept ==
  ASSUME Kept, NEW m \in Told(Replied, DOMAIN owner) \cup {Ignore}, HearBack(m)
  PROVE  Kept'
  <1>0. /\ apiQ # << >> /\ apiQ' = Tail(apiQ)
        /\ UNCHANGED <<live, clientData, owner, pending, capsKnown, saved, trips, sweep, session, requests, taken, lost>>
    BY DEF HearBack, books, talk
  <1>1. Ledger'
    BY <1>0 DEF Kept, Ledger, Partial, Numbered
  <1>2. Tail(apiQ) \in Seq(HalCalls(DOMAIN owner))
    BY <1>0 DEF Kept, Mail
  <1>3. Talks'
    BY <1>0 DEF Kept, Talks
  <1>4. CASE msgQ' = msgQ
    <2>1. Mail'
      BY <1>0, <1>2, <1>4 DEF Kept, Mail
    <2>2. Sweeps'
      BY <1>0, <1>4 DEF Kept, Sweeps
    <2> QED BY <1>1, <1>3, <2>1, <2>2 DEF Kept
  <1>5. CASE msgQ' = Append(msgQ, m) /\ m.k \in Replied
    <2> DEFINE H == Heard(DOMAIN owner)
    <2>1. m \in H /\ m.k # "remove"
      <3>1. Ignore.k \notin Replied
        BY DEF Ignore, Msg, Replied
      <3>2. m \in Told(Replied, DOMAIN owner)
        BY <1>5, <3>1
      <3>3. m \in Told(Business, DOMAIN owner)
        BY <3>2 DEF Told, Business
      <3> QED BY <1>5, <3>3 DEF Heard, Replied
    <2>2. Append(msgQ, m) \in Seq(H)
      BY <2>1 DEF Kept, Mail
    <2>3. Mail'
      BY <1>0, <1>2, <1>5, <2>2 DEF Kept, Mail
    <2>4. Sweeps'
      <3>1. Heard(DOMAIN owner) \subseteq H
        OBVIOUS
      <3> HIDE DEF H
      <3> QED BY <1>0, <1>5, <2>1, <3>1, AppendSwept
    <2> QED BY <1>1, <1>3, <2>3, <2>4 DEF Kept
  <1> QED BY <1>4, <1>5 DEF HearBack

LEMMA OpensKept ==
  ASSUME Kept, LinkOpens
  PROVE  Kept'
  <1>0. /\ msgQ' = Append(msgQ, LinkUp)
        /\ UNCHANGED <<live, clientData, owner, pending, apiQ, capsKnown, saved, trips, sweep, session, requests, taken, lost>>
    BY DEF LinkOpens, books, talk
  <1>1. Ledger' /\ Talks'
    BY <1>0 DEF Kept, Ledger, Partial, Numbered, Talks
  <1> DEFINE H == Heard(DOMAIN owner)
  <1>2. LinkUp \in H /\ LinkUp.k # "remove"
    BY DEF Heard, LinkUp, Msg
  <1>3. Append(msgQ, LinkUp) \in Seq(H)
    BY <1>2 DEF Kept, Mail
  <1>4. Mail'
    BY <1>0, <1>3 DEF Kept, Mail
  <1>5. Sweeps'
    <2> DEFINE m == LinkUp
    <2>1. Heard(DOMAIN owner) \subseteq H /\ m \in H /\ m.k # "remove" /\ msgQ' = Append(msgQ, m)
      BY <1>0, <1>2
    <2> HIDE DEF H, m
    <2> QED BY <1>0, <2>1, AppendSwept
  <1> QED BY <1>1, <1>4, <1>5 DEF Kept

LEMMA WaitKept ==
  ASSUME Kept, Waiting
  PROVE  Kept'
  BY DEF Waiting, books, talk, Kept, Ledger, Mail, Talks, Sweeps, Partial, Numbered

LEMMA ResponseKept ==
  ASSUME Kept, OnResponse
  PROVE  Kept'
  <1>0. /\ taken' = Nothing /\ (session' = session \/ \E c \in Clients : session' = [session EXCEPT ![c] = 0])
        /\ UNCHANGED <<requests, lost, live, clientData, owner, msgQ, pending, apiQ, capsKnown, saved, trips, sweep>>
    <2>1. taken # Nothing => owner[taken.id] \in Clients
      BY DEF Kept, Talks, Ledger, Partial
    <2> QED BY <2>1 DEF OnResponse, vars, clientVars, adapterVars
  <1>1. Ledger' /\ Mail' /\ Sweeps'
    BY <1>0 DEF Kept, Ledger, Mail, Sweeps, Partial, Numbered
  <1>2. Talks'
    BY <1>0 DEF Kept, Talks
  <1> QED BY <1>1, <1>2 DEF Kept

LEMMA NewKept ==
  ASSUME Kept, NEW c \in Clients, NEW m, NewSession(c, m)
  PROVE  Kept'
  <1> DEFINE id == m.id
  <1>0. /\ c \in live /\ session[c] = 0 /\ id \notin DOMAIN owner /\ id \in Ids /\ owner' = With(owner, id, c)
        /\ DOMAIN owner' = DOMAIN owner \cup {id} /\ DOMAIN owner' = 1 .. id
        /\ m \in Told({"start"}, {id}) /\ msgQ' = Append(msgQ, m)
        /\ session' = [session EXCEPT ![c] = id]
        /\ requests' = [requests EXCEPT ![c] = Append(@, [op |-> "start", of |-> id])]
        /\ UNCHANGED <<live, clientData, pending, apiQ, capsKnown, saved, trips, sweep, taken, lost>>
    BY DEF NewSession
  <1>00. m.k # "remove"
    BY <1>0 DEF Told
  <1> HIDE DEF id
  <1>1. /\ \A i \in DOMAIN owner : owner'[i] = owner[i]
        /\ owner'[id] = c
    BY <1>0 DEF With
  <1>2. Ledger'
    <2>1. Partial(owner', Clients)
      BY <1>0, WithTyped DEF Kept, Ledger
    <2>2. \E k \in Nat : DOMAIN owner' = 1 .. k
      BY <1>0 DEF Ids
    <2>3. Numbered'
      BY <2>2 DEF Numbered
    <2>4. DOMAIN saved \subseteq DOMAIN owner'
      BY <1>0 DEF Kept, Ledger
    <2> QED BY <1>0, <2>1, <2>3, <2>4 DEF Kept, Ledger, Partial
  <1>3. DOMAIN owner \subseteq DOMAIN owner' /\ id \in DOMAIN owner'
    BY <1>0
  <1> DEFINE H == Heard(DOMAIN owner')
  <1>4. Heard(DOMAIN owner) \subseteq H /\ m \in H
    <2>1. m \in Told(Business, DOMAIN owner')
      BY <1>0, <1>3 DEF Told, Business, Posted
    <2>2. Heard(DOMAIN owner) \subseteq H
      <3> DEFINE D == DOMAIN owner
                 E == DOMAIN owner'
      <3>1. D \subseteq E
        BY <1>3
      <3> HIDE DEF D, E
      <3>2. Heard(D) \subseteq Heard(E)
        BY <3>1, Widening
      <3> QED BY <3>2 DEF D, E
    <2> QED BY <2>1, <2>2 DEF Heard
  <1>5. Mail'
    <2> DEFINE D == DOMAIN owner
               E == DOMAIN owner'
    <2>1. D \subseteq E
      BY <1>3
    <2>2. msgQ \in Seq(Heard(D)) /\ pending \in Seq(Told(Posted, D)) /\ apiQ \in Seq(HalCalls(D)) /\ m \in Heard(E)
      BY <1>4 DEF Kept, Mail
    <2>3. msgQ' = Append(msgQ, m) /\ pending' = pending /\ apiQ' = apiQ
      BY <1>0
    <2> HIDE DEF D, E
    <2>4. Heard(D) \subseteq Heard(E) /\ Told(Posted, D) \subseteq Told(Posted, E) /\ HalCalls(D) \subseteq HalCalls(E)
      BY <2>1, Widening
    <2>5. msgQ \in Seq(Heard(E)) /\ pending \in Seq(Told(Posted, E)) /\ apiQ \in Seq(HalCalls(E))
      BY <2>2, <2>4
    <2>6. Append(msgQ, m) \in Seq(Heard(E))
      BY <2>2, <2>5
    <2> QED BY <2>3, <2>5, <2>6 DEF Mail, E
  <1>6. Talks'
    <2>1. session' \in [Clients -> DOMAIN owner' \cup {0}]
      BY <1>0, <1>3 DEF Kept, Talks
    <2>2. requests' \in [Clients -> Seq(Requests)]
      <3>1. [op |-> "start", of |-> id] \in Requests
        BY <1>0 DEF Requests
      <3> QED BY <1>0, <3>1 DEF Kept, Talks
    <2>3. \A d \in Clients : session'[d] # 0 => owner'[session'[d]] = d
      BY <1>0, <1>1 DEF Kept, Talks
    <2>4. taken # Nothing => taken.id \in DOMAIN owner' /\ session'[owner'[taken.id]] = taken.id
      <3>1. ASSUME taken # Nothing
            PROVE  taken.id \in DOMAIN owner /\ taken.id # 0 /\ session[owner[taken.id]] = taken.id
        BY <3>1 DEF Kept, Talks, Ledger, Partial, Ids
      <3>2. taken # Nothing => owner[taken.id] # c /\ owner'[taken.id] = owner[taken.id]
        BY <1>0, <1>1, <3>1
      <3> QED BY <1>0, <1>3, <3>1, <3>2 DEF Kept, Talks, Ledger, Partial
    <2> QED BY <1>0, <2>1, <2>2, <2>3, <2>4 DEF Talks
  <1>7. Sweeps'
    <2> HIDE DEF H
    <2>1. live' \subseteq live
      BY <1>0
    <2> QED BY <1>0, <1>00, <1>1, <1>4, <2>1, AppendSwept
  <1> QED BY <1>2, <1>5, <1>6, <1>7 DEF Kept

LEMMA AskKept ==
  ASSUME Kept, NEW c \in Clients, NEW m, Asks(c, m)
  PROVE  Kept'
  <1>0. /\ session[c] # 0 /\ m \in Told({"stop", "get"}, {session[c]}) /\ msgQ' = Append(msgQ, m)
        /\ requests' = [requests EXCEPT ![c] = Append(@, [op |-> m.k, of |-> session[c]])]
        /\ UNCHANGED <<live, clientData, owner, pending, apiQ, capsKnown, saved, trips, sweep, session, taken, lost>>
    BY DEF Asks, books
  <1>1. Ledger'
    BY <1>0 DEF Kept, Ledger, Partial, Numbered
  <1>2. session[c] \in DOMAIN owner /\ session[c] \in Ids
    BY <1>0 DEF Kept, Talks, Ledger, Partial
  <1>3. m.k \in {"stop", "get"}
    BY <1>0, ToldFields
  <1> DEFINE H == Heard(DOMAIN owner)
  <1>4. m \in H
    <2>1. m \in Told(Business, DOMAIN owner)
      BY <1>0, <1>2 DEF Told, Business, Posted
    <2> QED BY <2>1 DEF Heard
  <1>5. Append(msgQ, m) \in Seq(H)
    BY <1>4 DEF Kept, Mail
  <1>6. Mail'
    BY <1>0, <1>5 DEF Kept, Mail
  <1>7. Talks'
    <2>1. [op |-> m.k, of |-> session[c]] \in Requests
      BY <1>2, <1>3 DEF Requests
    <2>2. requests' \in [Clients -> Seq(Requests)]
      BY <1>0, <2>1 DEF Kept, Talks
    <2> QED BY <1>0, <2>2 DEF Kept, Talks
  <1>8. Sweeps'
    <2>1. Heard(DOMAIN owner) \subseteq H /\ m.k # "remove"
      BY <1>3
    <2> HIDE DEF H
    <2> QED BY <1>0, <1>4, <2>1, AppendSwept
  <1> QED BY <1>1, <1>6, <1>7, <1>8 DEF Kept

LEMMA LeaveKept ==
  ASSUME Kept, NEW c \in Clients, Leaves(c)
  PROVE  Kept'
  <1> DEFINE m == Remove(c)
             H == Heard(DOMAIN owner)
  <1>0. /\ live' = live \ {c} /\ msgQ' = Append(msgQ, m) /\ requests' = [requests EXCEPT ![c] = << >>]
        /\ UNCHANGED <<clientData, owner, pending, apiQ, capsKnown, saved, trips, sweep, session, taken, lost>>
    BY DEF Leaves
  <1>1. m \in H /\ m.client = c
    BY DEF Remove, Removals, Heard
  <1> HIDE DEF m
  <1>2. Ledger'
    BY <1>0 DEF Kept, Ledger, Partial, Numbered
  <1>3. Append(msgQ, m) \in Seq(H)
    BY <1>1 DEF Kept, Mail
  <1>4. Mail'
    BY <1>0, <1>3 DEF Kept, Mail
  <1>5. Talks'
    <2>1. requests' \in [Clients -> Seq(Requests)]
      BY <1>0 DEF Kept, Talks
    <2> QED BY <1>0, <2>1 DEF Kept, Talks
  <1>6. Sweeps'
    <2>1. Heard(DOMAIN owner) \subseteq H
      OBVIOUS
    <2> HIDE DEF H
    <2> QED BY <1>0, <1>1, <2>1, AppendSwept
  <1> QED BY <1>2, <1>4, <1>5, <1>6 DEF Kept

-----------------------------------------------------------------------------
(* While no answer is lost *)

LEMMA OnceStays ==
  ASSUME NEW id, Steady(id), id \in DOMAIN saved' => id \in DOMAIN saved, Once(id)
  PROVE  Once(id)'
  BY DEF Steady, Once

\* What has gone wrong for a client stays so.
LEMMA LossyStays ==
  ASSUME NEW c, Lossy(c), DOMAIN owner \subseteq DOMAIN owner',
         \A id \in DOMAIN owner : owner[id] = c =>
           /\ owner'[id] = c
           /\ id # session[c] => id # session'[c]
           /\ id # session[c] /\ OpenNow(id) # 0 => OpenNow(id)' # 0
           /\ Doomed(id) => Doomed(id)'
  PROVE  Lossy(c)'
  <1>1. PICK id \in DOMAIN owner : owner[id] = c /\ ((id # session[c] /\ OpenNow(id) # 0) \/ Doomed(id))
    BY DEF Lossy
  <1>2. id \in DOMAIN owner' /\ owner'[id] = c
    BY <1>1
  <1>3. (id # session'[c] /\ OpenNow(id)' # 0) \/ Doomed(id)'
    BY <1>1
  <1> QED BY <1>2, <1>3 DEF Lossy

\* A client whose sessions a step leaves as they are.
LEMMA TrackedStays ==
  ASSUME Kept, NEW c \in Clients, Tracked(c), session'[c] = session[c], requests'[c] = requests[c],
         \A id \in DOMAIN owner' : owner'[id] = c => id \in DOMAIN owner /\ owner[id] = c,
         \A id \in DOMAIN owner : owner[id] = c =>
           /\ OpenNow(id)' = OpenNow(id) /\ StartingNow(id)' = StartingNow(id)
           /\ id \in DOMAIN saved' => id \in DOMAIN saved,
         requests[c] # << >> /\ YoungestNow(session[c]) => YoungestNow(session[c])',
         \/ taken' = taken /\ \A id \in DOMAIN owner : owner'[id] = owner[id]
         \/ taken' = Nothing \/ owner'[taken'.id] # c
  PROVE  Tracked(c)'
  <1> DEFINE s == session[c]
             q == requests[c]
  <1>1. s # 0 => s \in DOMAIN owner /\ owner[s] = c
    BY DEF Kept, Talks
  <1>2. s' = s /\ q' = q
    OBVIOUS
  <1>3. s # 0 => /\ OpenNow(s)' = OpenNow(s) /\ StartingNow(s)' = StartingNow(s)
                 /\ s \in DOMAIN saved' => s \in DOMAIN saved
    BY <1>1
  <1>4. s = 0 => q = << >>
    BY DEF Tracked
  <1>5. 0 \notin DOMAIN saved
    BY DEF Kept, Ledger, Partial, Ids
  <1>6. \A id \in DOMAIN owner' : owner'[id] = c /\ id # s' => id \notin DOMAIN saved'
    BY <1>2 DEF Tracked
  <1>7. s' # 0 => Len(q') = OpenNow(s)'
    BY <1>2, <1>3 DEF Tracked
  <1>8. q' # << >> /\ q'[1].op = "start" => StartingNow(s)' # 0
    BY <1>2, <1>3, <1>4 DEF Tracked
  <1>9. q' # << >> /\ q'[Len(q')].op = "stop" => YoungestNow(s)'
    BY <1>2 DEF Tracked
  <1>10. Goes' /\ owner'[taken'.id] = c => s' \notin DOMAIN saved' \/ OpenNow(s)' # 0
    <2>1. SUFFICES ASSUME Goes', owner'[taken'.id] = c
                   PROVE  s' \notin DOMAIN saved' \/ OpenNow(s)' # 0
      OBVIOUS
    <2>2. taken' = taken /\ taken # Nothing /\ \A id \in DOMAIN owner : owner'[id] = owner[id]
      BY <2>1 DEF Goes
    <2>3. taken.id \in DOMAIN owner /\ session[owner[taken.id]] = taken.id /\ taken.id # 0
      BY <2>2 DEF Kept, Talks, Ledger, Partial, Ids
    <2>4. Goes /\ owner[taken.id] = c /\ s # 0
      BY <2>1, <2>2, <2>3 DEF Goes
    <2>5. s \notin DOMAIN saved \/ OpenNow(s) # 0
      BY <2>4 DEF Tracked
    <2> QED BY <1>2, <1>3, <2>4, <2>5
  <1>11. (s' = 0 => q' = << >>) /\ \A n \in DOMAIN q' : q'[n].op = "start" => n = 1
    BY <1>2 DEF Tracked
  <1> QED BY <1>6, <1>7, <1>8, <1>9, <1>10, <1>11 DEF Tracked

\* All together, when a step leaves every session of a client as it is.
Alike(id) == Steady(id) /\ (Doomed(id) => Doomed(id)') /\ (id \in DOMAIN saved' => id \in DOMAIN saved)

LEMMA ClientStays ==
  ASSUME Kept, NEW c \in Clients, Lossy(c) \/ Tracked(c), session'[c] = session[c], requests'[c] = requests[c],
         DOMAIN owner \subseteq DOMAIN owner', \A id \in DOMAIN owner : owner'[id] = owner[id],
         \A id \in DOMAIN owner' : owner'[id] = c => id \in DOMAIN owner,
         \A id \in DOMAIN owner : owner[id] = c => Alike(id),
         taken' = taken \/ taken' = Nothing \/ owner'[taken'.id] # c
  PROVE  Lossy(c)' \/ Tracked(c)'
  <1>1. CASE Lossy(c)
    <2>1. \A id \in DOMAIN owner : owner[id] = c =>
           /\ owner'[id] = c
           /\ id # session[c] => id # session'[c]
           /\ id # session[c] /\ OpenNow(id) # 0 => OpenNow(id)' # 0
           /\ Doomed(id) => Doomed(id)'
      BY DEF Alike, Steady
    <2> QED BY <1>1, <2>1, LossyStays
  <1>2. CASE Tracked(c)
    <2>1. \A id \in DOMAIN owner' : owner'[id] = c => id \in DOMAIN owner /\ owner[id] = c
      OBVIOUS
    <2>2. \A id \in DOMAIN owner : owner[id] = c =>
           /\ OpenNow(id)' = OpenNow(id) /\ StartingNow(id)' = StartingNow(id)
           /\ id \in DOMAIN saved' => id \in DOMAIN saved
      BY DEF Alike, Steady
    <2>3. requests[c] # << >> /\ YoungestNow(session[c]) => YoungestNow(session[c])'
      <3>1. requests[c] # << >> => session[c] # 0
        BY <1>2 DEF Tracked
      <3>2. session[c] # 0 => session[c] \in DOMAIN owner /\ owner[session[c]] = c
        BY DEF Kept, Talks
      <3>3. session'[c] = session[c]
        OBVIOUS
      <3>4. session[c] # 0 => Steady(session[c])
        BY <3>2 DEF Alike
      <3> QED BY <3>1, <3>4 DEF Steady
    <2> QED BY <1>2, <2>1, <2>2, <2>3, TrackedStays
  <1> QED BY <1>1, <1>2

LEMMA AlikeGood ==
  ASSUME Kept, Good, UNCHANGED <<owner, session, requests, taken>>, live' \subseteq live,
         \A id \in DOMAIN owner : owner[id] \in live' => Alike(id),
         \A id \in DOMAIN owner : Once(id)',
         Prompt'
  PROVE  Good'
  <1>1. ASSUME NEW c \in live'
        PROVE  Lossy(c)' \/ Tracked(c)'
    <2>1. c \in Clients /\ (Lossy(c) \/ Tracked(c))
      BY <1>1 DEF Good, Kept, Ledger
    <2>2. \A id \in DOMAIN owner : owner[id] = c => Alike(id)
      BY <1>1
    <2> QED BY <2>1, <2>2, ClientStays
  <1> QED BY <1>1 DEF Good

\* Nothing changes in the queues.
LEMMA StillAlike ==
  ASSUME UNCHANGED <<msgQ, pending, apiQ, capsKnown>>, NEW id
  PROVE  /\ Steady(id) /\ (Doomed(id) => Doomed(id)') /\ (Early(id) => Early(id)')
         /\ (saved' = saved => Alike(id))
  <1>1. RepliesOf(apiQ) = RepliesOf(apiQ')
    OBVIOUS
  <1>2. Steady(id)
    BY <1>1 DEF Steady, OpenNow, StartsNow, HaltsNow, AnswersNow, StartingNow, YoungestNow
  <1>3. (Doomed(id) => Doomed(id)') /\ (Early(id) => Early(id)')
    BY <1>2 DEF Doomed, Early, Steady
  <1> QED BY <1>2, <1>3 DEF Alike

LEMMA StillGood ==
  ASSUME Kept, Good, RemoveStarts \/ Waiting
  PROVE  Good'
  <1>1. UNCHANGED <<live, owner, session, requests, taken, msgQ, pending, apiQ, capsKnown, saved>>
    BY DEF RemoveStarts, Waiting, books, talk
  <1>2. \A id : Steady(id) /\ (Early(id) => Early(id)') /\ Alike(id)
    BY <1>1, StillAlike
  <1>3. \A id \in DOMAIN owner : Once(id)'
    BY <1>1, <1>2, OnceStays DEF Good
  <1>4. Prompt'
    BY <1>1, <1>2 DEF Good, Prompt
  <1> QED BY <1>1, <1>2, <1>3, <1>4, AlikeGood

LEMMA AsideGood ==
  ASSUME Kept, Good, PutAside
  PROVE  Good'
  <1>1. /\ msgQ # << >> /\ Head(msgQ).k \in Posted /\ ~ capsKnown
        /\ msgQ' = Tail(msgQ) /\ pending' = Append(pending, Head(msgQ)) /\ apiQ' = apiQ
        /\ UNCHANGED <<live, owner, session, requests, taken, capsKnown, saved>>
    BY DEF PutAside, books, talk
  <1>2. \A id : Steady(id)
    BY <1>1, AsideSteady
  <1>3. \A id : Alike(id)
    BY <1>1, <1>2 DEF Alike, Doomed
  <1>4. \A id \in DOMAIN owner : Once(id)'
    BY <1>1, <1>2, OnceStays DEF Good
  <1>5. ASSUME NEW id \in DOMAIN owner
        PROVE  Early(id)'
    <2> DEFINE S == Heap(DOMAIN owner)
               h == Head(msgQ)
    <2>0. msgQ \in Seq(S) /\ pending \in Seq(S)
      BY QueuesTyped
    <2> HIDE DEF S
    <2>1. h \in S /\ Tail(msgQ) \in Seq(S)
      BY <1>1, <2>0
    <2>2. Early(id) /\ Once(id)
      BY <1>1 DEF Good, Prompt
    <2>3. StartsNow(id)' # 0
      BY <1>2, <2>2 DEF Steady, Early
    <2>4. ~ Precedes(msgQ', {"stop", "get"}, "start", id)
      BY <1>1, <2>0, <2>2, PrecedesTail DEF Early
    <2>5. /\ Number(pending', Business, id) = Number(pending, Business, id) + Worth(h, Business, id)
          /\ Number(pending', {"start"}, id) = Number(pending, {"start"}, id) + Worth(h, {"start"}, id)
      BY <1>1, <2>0, <2>1, AppendNumber
    <2>6. /\ Number(pending, Business, id) \in Nat /\ Number(pending, {"start"}, id) \in Nat
          /\ Number(Tail(msgQ), {"start"}, id) \in Nat
          /\ Number(msgQ, {"start"}, id) = Number(Tail(msgQ), {"start"}, id) + Worth(h, {"start"}, id)
      BY <1>1, <2>0, <2>1, NumberKinds, TailNumber
    <2>7. ASSUME Number(pending', Business, id) # 0
          PROVE  Number(pending', {"start"}, id) # 0
      <3>1. CASE Number(pending, Business, id) # 0
        <4>1. Number(pending, {"start"}, id) # 0
          BY <2>2, <3>1 DEF Early
        <4> QED BY <2>5, <2>6, <4>1, WorthTyped
      <3>2. CASE Tells(h, {"start"}, id)
        BY <2>5, <2>6, <3>2, WorthTyped
      <3>3. CASE Number(pending, Business, id) = 0 /\ ~ Tells(h, {"start"}, id)
        <4>1. Worth(h, Business, id) # 0
          BY <2>5, <2>6, <2>7, <3>3
        <4>2. Tells(h, Business, id)
          BY <4>1, WorthTyped
        <4>3. Tells(h, {"stop", "get"}, id)
          BY <1>1, <3>3, <4>2 DEF Tells, Posted
        <4>4. Number(Tail(msgQ), {"start"}, id) = 0
          BY <1>1, <2>0, <2>2, <4>3, PrecedesTail DEF Early
        <4>5. Number(msgQ, {"start"}, id) = 0
          BY <2>6, <3>3, <4>4, WorthTyped
        <4>6. Number(pending, {"start"}, id) # 0
          BY <2>2, <2>6, <4>5 DEF Early, StartsNow, Starts
        <4> QED BY <2>5, <2>6, <4>6, WorthTyped
      <3> QED BY <3>1, <3>2, <3>3
    <2> QED BY <2>3, <2>4, <2>7 DEF Early
  <1>6. Prompt'
    BY <1>1, <1>5 DEF Good, Prompt
  <1> QED BY <1>1, <1>3, <1>4, <1>6, AlikeGood

LEMMA BackGood ==
  ASSUME Kept, Good, NEW m \in Told(Replied, DOMAIN owner) \cup {Ignore}, HearBack(m)
  PROVE  Good'
  <1>1. /\ apiQ # << >> /\ apiQ' = Tail(apiQ)
        /\ \/ msgQ' = msgQ /\ Head(apiQ).reply.k = "ignore"
           \/ /\ msgQ' = Append(msgQ, m) /\ m.k = Head(apiQ).reply.k /\ m.id = Head(apiQ).reply.id
              /\ m.k \in Replied
        /\ UNCHANGED <<live, owner, session, requests, taken, capsKnown, pending, saved>>
    BY DEF HearBack, books, talk
  <1>2. m \in Heap(DOMAIN owner)
    <2>1. Told(Replied, DOMAIN owner) \subseteq Told(Business, DOMAIN owner)
      BY DEF Told, Business
    <2> QED BY <2>1 DEF Heap, Heard
  <1>3. \A id : Steady(id) /\ (Doomed(id) => Doomed(id)')
    BY <1>1, <1>2, ServedSteady
  <1>4. \A id : Alike(id)
    BY <1>1, <1>3 DEF Alike
  <1>5. \A id \in DOMAIN owner : Once(id)'
    BY <1>1, <1>3, OnceStays DEF Good
  <1>6. Prompt'
    BY <1>1 DEF Good, Prompt
  <1> QED BY <1>1, <1>4, <1>5, <1>6, AlikeGood

\* A message that is no start is posted.
LEMMA PostedAlike ==
  ASSUME Kept, NEW S, NEW m \in S, Heap(DOMAIN owner) \subseteq S, m.k \notin Replied, NEW id,
         msgQ' = Append(msgQ, m), UNCHANGED <<pending, apiQ, capsKnown, saved>>
  PROVE  /\ ~ Tells(m, Posted, id) => Alike(id)
         /\ ~ Tells(m, {"start"}, id) /\ Once(id) => Once(id)'
         /\ ~ Tells(m, {"start"}, id) /\ Early(id) => Early(id)'
  <1>1. /\ StartsNow(id)' = StartsNow(id) + Worth(m, {"start"}, id)
        /\ HaltsNow(id)' = HaltsNow(id)
        /\ AnswersNow(id)' = AnswersNow(id)
        /\ StartsNow(id) \in Nat
        /\ ~ Tells(m, Posted, id) => Steady(id)
        /\ Doomed(id) => Doomed(id)'
    BY PostedSteady
  <1>2. ~ Tells(m, {"start"}, id) => StartsNow(id)' = StartsNow(id)
    BY <1>1, WorthTyped
  <1>3. ~ Tells(m, Posted, id) => Alike(id)
    BY <1>1 DEF Alike
  <1>4. ~ Tells(m, {"start"}, id) /\ Once(id) => Once(id)'
    BY <1>1, <1>2 DEF Once
  <1>5. msgQ \in Seq(S)
    <2> DEFINE T == Heap(DOMAIN owner)
    <2>1. T \subseteq S /\ msgQ \in Seq(T)
      BY QueuesTyped
    <2> HIDE DEF T
    <2> QED BY <2>1, SequenceWider
  <1>6. ~ Tells(m, {"start"}, id) /\ Early(id) => Early(id)'
    <2>1. Precedes(Append(msgQ, m), {"stop", "get"}, "start", id) =>
            (Precedes(msgQ, {"stop", "get"}, "start", id) \/ (Tells(m, {"start"}, id) /\ Number(msgQ, {"stop", "get"}, id) # 0))
      BY <1>5, PrecedesAppend
    <2> QED BY <1>2, <2>1 DEF Early
  <1> QED BY <1>3, <1>4, <1>6

LEMMA OpensGood ==
  ASSUME Kept, Good, LinkOpens
  PROVE  Good'
  <1> DEFINE m == LinkUp
             S == Heap(DOMAIN owner)
  <1>1. /\ msgQ' = Append(msgQ, m)
        /\ UNCHANGED <<live, owner, session, requests, taken, capsKnown, pending, apiQ, saved>>
    BY DEF LinkOpens, books, talk
  <1>2. m \in S /\ m.k = "engineUp" /\ Heap(DOMAIN owner) \subseteq S
    BY DEF Heap, Heard, LinkUp, Msg
  <1> HIDE DEF m, S
  <1>3. \A id : ~ Tells(m, Posted, id) /\ ~ Tells(m, {"start"}, id) /\ m.k \notin Replied
    BY <1>2 DEF Tells, Posted, Replied
  <1>4. \A id : /\ Alike(id) /\ (Once(id) => Once(id)') /\ (Early(id) => Early(id)')
    BY <1>1, <1>2, <1>3, PostedAlike
  <1>5. \A id \in DOMAIN owner : Once(id)'
    BY <1>4 DEF Good
  <1>6. Prompt'
    BY <1>1, <1>4 DEF Good, Prompt
  <1> QED BY <1>1, <1>4, <1>5, <1>6, AlikeGood

LEMMA EndsGood ==
  ASSUME Kept, Good, SweepEnds
  PROVE  Good'
  <1>1. /\ msgQ # << >> /\ Head(msgQ).k = "remove" /\ msgQ' = Tail(msgQ)
        /\ UNCHANGED <<live, owner, pending, apiQ, capsKnown, saved, session, requests, taken>>
    BY DEF SweepEnds, Kept, Sweeps, talk
  <1>2. \A id : ~ Tells(Head(msgQ), Business, id) /\ ~ Tells(Head(msgQ), {"stop"}, id)
    BY <1>1 DEF Tells, Business, Posted, Replied
  <1>3. \A id : Steady(id) /\ (Doomed(id) => Doomed(id)')
    BY <1>1, <1>2, DoneSteady
  <1>4. \A id : Alike(id)
    BY <1>1, <1>3 DEF Alike
  <1>5. \A id \in DOMAIN owner : Once(id)'
    BY <1>1, <1>3, OnceStays DEF Good
  <1>6. \A id : Early(id) => Early(id)'
    <2>1. \A id : Precedes(Tail(msgQ), {"stop", "get"}, "start", id) => Precedes(msgQ, {"stop", "get"}, "start", id)
      BY <1>1, QueuesTyped, PrecedesTail
    <2> QED BY <1>1, <1>3, <2>1 DEF Early, Steady
  <1>7. Prompt'
    BY <1>1, <1>6 DEF Good, Prompt
  <1> QED BY <1>1, <1>4, <1>5, <1>7, AlikeGood

\* A session that is saved has no start and no stop under way.
LEMMA SavedQuiet ==
  ASSUME Kept, NEW id \in DOMAIN saved, Once(id)
  PROVE  StartsNow(id) = 0 /\ HaltsNow(id) = 0
  <1>1. StartsNow(id) \in Nat /\ HaltsNow(id) \in Nat
    BY QueuesTyped, Counts DEF StartsNow, HaltsNow
  <1> QED BY <1>1 DEF Once

LEMMA SweepGood ==
  ASSUME Kept, Good, NEW id \in DOMAIN owner, NEW x \in HalCalls(DOMAIN owner), SweepOne(id, x)
  PROVE  Good'
  <1>1. /\ id \in sweep \ {0} /\ x.reply.k = "stopped" /\ x.reply.id = id
        /\ apiQ' = Append(apiQ, x) /\ saved' = Without(saved, id)
        /\ UNCHANGED <<live, owner, msgQ, pending, capsKnown, session, requests, taken>>
    BY DEF SweepOne, books, talk
  <1>2. id \in DOMAIN saved /\ owner[id] \notin live /\ DOMAIN saved' = DOMAIN saved \ {id}
    <2>1. id \in DOMAIN saved /\ msgQ # << >> /\ Head(msgQ).k = "remove" /\ owner[id] = Head(msgQ).client
      BY <1>1 DEF Kept, Sweeps
    <2>2. Head(msgQ).client \notin live
      BY <2>1, HeardHead
    <2> QED BY <1>1, <2>1, <2>2 DEF Without, Restrict
  <1>3. \A i : /\ StartsNow(i)' = StartsNow(i)
               /\ HaltsNow(i)' = HaltsNow(i) + Worth(x.reply, {"stopped"}, i)
               /\ id # i => Steady(i)
               /\ Doomed(i) => Doomed(i)'
    BY <1>1, SweptSteady
  <1>4. \A i \in DOMAIN owner : owner[i] \in live' => Alike(i)
    BY <1>1, <1>2, <1>3 DEF Alike
  <1>5. Once(id)'
    <2>1. StartsNow(id) = 0 /\ HaltsNow(id) = 0
      BY <1>2, SavedQuiet DEF Good
    <2>2. Tells(x.reply, {"stopped"}, id)
      BY <1>1 DEF Tells
    <2>3. StartsNow(id)' = 0
      BY <1>3, <2>1
    <2>4. HaltsNow(id)' = 1
      BY <1>3, <2>1, <2>2, WorthTyped
    <2> QED BY <1>2, <2>3, <2>4 DEF Once
  <1>6. \A i \in DOMAIN owner : Once(i)'
    BY <1>2, <1>3, <1>5, OnceStays DEF Good
  <1>7. Prompt'
    <2>1. capsKnown
      BY <1>2 DEF Good, Prompt
    <2> QED BY <1>1, <2>1 DEF Prompt
  <1> QED BY <1>1, <1>4, <1>6, <1>7, AlikeGood

LEMMA DropGood ==
  ASSUME Kept, Good, DropStart
  PROVE  Good'
  <1> DEFINE h == Head(msgQ)
  <1>1. /\ msgQ # << >> /\ h.k = "start" /\ capsKnown /\ owner[h.id] \notin clientData
        /\ msgQ' = Tail(msgQ)
        /\ UNCHANGED <<live, owner, pending, apiQ, capsKnown, saved, session, requests, taken>>
    BY DEF DropStart, books, talk
  <1>2. \A id : /\ StartsNow(id) = StartsNow(id)' + Worth(h, {"start"}, id)
                /\ HaltsNow(id) = HaltsNow(id)' + Worth(h, {"stopped"}, id)
                /\ AnswersNow(id) = AnswersNow(id)' + Worth(h, Replied, id)
                /\ StartsNow(id)' \in Nat /\ HaltsNow(id)' \in Nat /\ AnswersNow(id)' \in Nat
                /\ ~ Tells(h, Business, id) => Steady(id)
                /\ Doomed(id) /\ ~ Tells(h, {"stop"}, id) => Doomed(id)'
    BY <1>1, DoneSteady
  <1> HIDE DEF h
  <1>3. \A id : ~ Tells(h, {"stopped"}, id) /\ ~ Tells(h, Replied, id) /\ ~ Tells(h, {"stop"}, id)
    BY <1>1 DEF Tells, Replied
  <1>4. \A id \in DOMAIN owner : owner[id] \in live' => Alike(id)
    <2>1. \A id \in DOMAIN owner : owner[id] \in live => ~ Tells(h, Business, id)
      BY <1>1 DEF Tells, Kept, Ledger
    <2> QED BY <1>1, <1>2, <1>3, <2>1 DEF Alike
  <1>5. \A id \in DOMAIN owner : Once(id)'
    <2> TAKE id \in DOMAIN owner
    <2>1. HaltsNow(id)' = HaltsNow(id) /\ AnswersNow(id)' = AnswersNow(id)
      BY <1>2, <1>3, WorthTyped
    <2>2. StartsNow(id)' <= StartsNow(id)
      BY <1>2, WorthTyped
    <2>3. Once(id) /\ StartsNow(id)' \in Nat /\ StartsNow(id) \in Nat
      BY <1>2, WorthTyped DEF Good
    <2>4. StartsNow(id)' <= 1 /\ (StartsNow(id)' = 1 => StartsNow(id) = 1)
      BY <2>2, <2>3 DEF Once
    <2> QED BY <1>1, <2>1, <2>3, <2>4 DEF Once
  <1>6. Prompt'
    BY <1>1 DEF Prompt
  <1> QED BY <1>1, <1>4, <1>5, <1>6, AlikeGood

LEMMA PassGood ==
  ASSUME Kept, Good, NEW x \in HalCalls(DOMAIN owner), PassOn(x)
  PROVE  Good'
  <1> DEFINE h == Head(msgQ)
  <1>0. PICK i : i = h.id
    OBVIOUS
  <1>1. /\ msgQ # << >> /\ capsKnown /\ taken = Nothing /\ Leads(h, x.reply)
        /\ msgQ' = Tail(msgQ) /\ apiQ' = Append(apiQ, x)
        /\ UNCHANGED <<live, owner, clientData, pending, capsKnown, session, requests, taken>>
    BY DEF PassOn, books, talk
  <1>2. \/ h.k = "start" /\ DOMAIN saved' = DOMAIN saved \cup {i}
        \/ h.k = "stop" /\ i \in DOMAIN saved /\ DOMAIN saved' = DOMAIN saved \ {i}
        \/ h.k = "get" /\ i \in DOMAIN saved /\ saved' = saved
    <2>1. \A f, v : f = With(saved, i, v) => DOMAIN f = DOMAIN saved \cup {i}
      BY DEF With
    <2>2. \A f : f = Without(saved, i) => DOMAIN f = DOMAIN saved \ {i}
      BY DEF Without, Restrict
    <2>3. \/ h.k = "start" /\ \E v : saved' = With(saved, i, v)
          \/ h.k = "stop" /\ i \in DOMAIN saved /\ saved' = Without(saved, i)
          \/ h.k = "get" /\ i \in DOMAIN saved /\ saved' = saved
      BY <1>0 DEF PassOn
    <2> QED BY <2>1, <2>2, <2>3
  <1>3. i \in DOMAIN owner
    <2>1. h \in Told(Business, DOMAIN owner)
      BY <1>1, <1>2, HeardHead DEF Business, Posted
    <2> HIDE DEF h
    <2> QED BY <1>0, <2>1, ToldFields
  <1>4. \A id : /\ OpenNow(id)' = OpenNow(id)
                /\ StartsNow(id) = StartsNow(id)' + Worth(h, {"start"}, id)
                /\ HaltsNow(id)' = HaltsNow(id) + Worth(h, {"stop"}, id)
                /\ AnswersNow(id)' = AnswersNow(id) + Worth(h, Posted, id)
                /\ StartingNow(id)' = StartingNow(id)
                /\ YoungestNow(id) => YoungestNow(id)'
                /\ StartsNow(id)' \in Nat
                /\ i # id => Steady(id)
                /\ Doomed(id) /\ ~ Tells(h, {"stop"}, id) => Doomed(id)'
    BY <1>0, <1>1, CalledSteady
  <1>5. /\ HaltsNow(i) \in Nat /\ AnswersNow(i) \in Nat /\ OpenNow(i) \in Nat /\ StartsNow(i) \in Nat
        /\ AnswersNow(i) = 0 => HaltsNow(i) = 0
    BY QueuesTyped, Counts DEF HaltsNow, AnswersNow, OpenNow, StartsNow
  <1>6. OpenNow(i) # 0
    <2> DEFINE S == Heap(DOMAIN owner)
    <2>1. msgQ \in Seq(S) /\ pending \in Seq(S) /\ RepliesOf(apiQ) \in Seq(S)
      BY QueuesTyped
    <2>2. Tells(h, Business, i)
      BY <1>0, <1>2 DEF Tells, Business, Posted
    <2> HIDE DEF S, h
    <2>3. 1 \in DOMAIN msgQ /\ msgQ[1] = h
      BY <1>1, <2>1 DEF h
    <2>4. Number(msgQ, Business, i) # 0
      BY <2>1, <2>2, <2>3, NumberNone
    <2> QED BY <2>1, <2>4, NumberKinds DEF OpenNow, Open
  <1>7. Once(i)
    BY <1>3 DEF Good
  <1>8. i \in DOMAIN saved => StartsNow(i) = 0 /\ HaltsNow(i) = 0
    BY <1>7, SavedQuiet
  <1>9. ~ Tells(h, {"stop"}, i) \/ ~ Doomed(i)
    <2>1. ASSUME Tells(h, {"stop"}, i), Doomed(i)
          PROVE  FALSE
      <3>1. StartsNow(i) = 0
        BY <1>0, <1>2, <1>8, <2>1 DEF Tells
      <3>2. Precedes(msgQ, {"stop"}, "start", i)
        BY <2>1 DEF Doomed
      <3>3. Number(msgQ, {"start"}, i) # 0
        BY <3>2, QueuesTyped, NumberNone DEF Precedes
      <3>4. Number(msgQ, {"start"}, i) \in Nat /\ Number(pending, {"start"}, i) \in Nat
        BY QueuesTyped, NumberNone
      <3> QED BY <3>1, <3>3, <3>4 DEF StartsNow, Starts
    <2> QED BY <2>1
  <1>10. \A id \in DOMAIN owner : id # i => Alike(id)
    <2>1. \A id : id # i => ~ Tells(h, {"stop"}, id)
      BY <1>0 DEF Tells
    <2> QED BY <1>2, <1>4, <2>1 DEF Alike
  <1>11. Once(i)'
    <2>1. CASE h.k = "start"
      <3>1. Tells(h, {"start"}, i) /\ ~ Tells(h, {"stop"}, i)
        BY <1>0, <2>1 DEF Tells
      <3>2. StartsNow(i) = StartsNow(i)' + 1 /\ HaltsNow(i)' = HaltsNow(i)
        BY <1>4, <1>5, <3>1, WorthTyped
      <3>3. StartsNow(i) = 1 /\ StartsNow(i)' = 0
        BY <1>4, <1>7, <3>2 DEF Once
      <3>4. HaltsNow(i)' = 0
        BY <1>5, <1>7, <3>2, <3>3 DEF Once
      <3> QED BY <3>3, <3>4 DEF Once
    <2>2. CASE h.k = "stop"
      <3>1. Tells(h, {"stop"}, i) /\ ~ Tells(h, {"start"}, i)
        BY <1>0, <2>2 DEF Tells
      <3>2. StartsNow(i)' = 0 /\ HaltsNow(i)' = 1
        BY <1>2, <1>4, <1>8, <2>2, <3>1, WorthTyped
      <3> QED BY <1>2, <2>2, <3>2 DEF Once
    <2>3. CASE h.k = "get"
      <3>1. ~ Tells(h, {"stop"}, i) /\ ~ Tells(h, {"start"}, i)
        BY <1>0, <2>3 DEF Tells
      <3>2. StartsNow(i)' = 0 /\ HaltsNow(i)' = 0
        BY <1>2, <1>4, <1>8, <2>3, <3>1, WorthTyped
      <3> QED BY <3>2 DEF Once
    <2> QED BY <1>2, <2>1, <2>2, <2>3
  <1>12. \A id \in DOMAIN owner : Once(id)'
    BY <1>10, <1>11, OnceStays DEF Good, Alike
  <1>13. Prompt'
    BY <1>1 DEF Prompt
  <1>14. ASSUME NEW c \in live'
         PROVE  Lossy(c)' \/ Tracked(c)'
    <2>1. c \in Clients /\ (Lossy(c) \/ Tracked(c))
      BY <1>1, <1>14 DEF Good, Kept, Ledger
    <2>2. CASE owner[i] # c
      <3>1. \A id \in DOMAIN owner : owner[id] = c => Alike(id)
        BY <1>10, <2>2
      <3> QED BY <1>1, <2>1, <3>1, ClientStays
    <2>3. CASE Lossy(c)
      <3>1. \A id \in DOMAIN owner : owner[id] = c =>
             /\ owner'[id] = c
             /\ id # session[c] => id # session'[c]
             /\ id # session[c] /\ OpenNow(id) # 0 => OpenNow(id)' # 0
             /\ Doomed(id) => Doomed(id)'
        BY <1>1, <1>4, <1>9, <1>10 DEF Alike
      <3> QED BY <1>1, <2>3, <3>1, LossyStays
    <2>4. CASE owner[i] = c /\ i # session[c]
      <3>1. i \in DOMAIN owner' /\ owner'[i] = c /\ i # session'[c] /\ OpenNow(i)' # 0
        BY <1>1, <1>3, <1>4, <1>6, <2>4
      <3> QED BY <3>1 DEF Lossy
    <2>5. CASE Tracked(c) /\ owner[i] = c /\ i = session[c]
      <3> DEFINE s == session[c]
                 q == requests[c]
      <3>1. s' = s /\ q' = q
        BY <1>1
      <3>2. s # 0
        BY <1>3, <2>5 DEF Kept, Ledger, Partial, Ids
      <3>3. \A id \in DOMAIN owner' : owner'[id] = c /\ id # s' => id \notin DOMAIN saved'
        BY <1>1, <1>2, <2>5 DEF Tracked
      <3>4. Len(q') = OpenNow(s)'
        BY <1>4, <2>5, <3>1, <3>2 DEF Tracked
      <3>5. q' # << >> /\ q'[1].op = "start" => StartingNow(s)' # 0
        BY <1>4, <2>5, <3>1 DEF Tracked
      <3>6. q' # << >> /\ q'[Len(q')].op = "stop" => YoungestNow(s)'
        BY <1>4, <2>5, <3>1 DEF Tracked
      <3>7. ~ Goes'
        BY <1>1 DEF Goes
      <3>8. \A n \in DOMAIN q' : q'[n].op = "start" => n = 1
        BY <2>5, <3>1 DEF Tracked
      <3> QED BY <3>1, <3>2, <3>3, <3>4, <3>5, <3>6, <3>7, <3>8 DEF Tracked
    <2> QED BY <2>1, <2>2, <2>3, <2>4, <2>5
  <1> QED BY <1>1, <1>12, <1>13, <1>14 DEF Good

LEMMA UpGood ==
  ASSUME Kept, Good, NEW z \in Seq(HalCalls(DOMAIN owner)), ComeUp(z)
  PROVE  Good'
  <1>1. /\ msgQ # << >> /\ Head(msgQ).k = "engineUp" /\ \A n \in DOMAIN z : z[n].reply = Ignore
        /\ msgQ' = Tail(msgQ) \o pending /\ pending' = << >> /\ apiQ' = apiQ \o z /\ capsKnown' = TRUE
        /\ UNCHANGED <<live, clientData, owner, saved, session, requests, taken>>
    BY DEF ComeUp, books, talk
  <1>2. \A id : /\ OpenNow(id)' = OpenNow(id) /\ StartsNow(id)' = StartsNow(id) /\ HaltsNow(id)' = HaltsNow(id)
                /\ AnswersNow(id)' = AnswersNow(id) /\ StartingNow(id)' = StartingNow(id)
                /\ YoungestNow(id) => (YoungestNow(id)' \/ (Number(msgQ, {"stop"}, id) # 0 /\ Number(pending, Business, id) # 0))
                /\ pending = << >> => Steady(id)
                /\ Doomed(id) => Doomed(id)'
                /\ Number(msgQ, {"stop"}, id) # 0 /\ Number(pending, {"start"}, id) # 0 => Doomed(id)'
    BY <1>1, UpSteady
  <1>3. \A id \in DOMAIN owner : Once(id)'
    BY <1>1, <1>2 DEF Good, Once
  <1>4. Prompt'
    BY <1>1 DEF Prompt
  <1>5. ASSUME NEW c \in live'
        PROVE  Lossy(c)' \/ Tracked(c)'
    <2>1. c \in Clients /\ (Lossy(c) \/ Tracked(c))
      BY <1>1, <1>5 DEF Good, Kept, Ledger
    <2>2. CASE Lossy(c)
      <3>1. \A id \in DOMAIN owner : owner[id] = c =>
             /\ owner'[id] = c
             /\ id # session[c] => id # session'[c]
             /\ id # session[c] /\ OpenNow(id) # 0 => OpenNow(id)' # 0
             /\ Doomed(id) => Doomed(id)'
        BY <1>1, <1>2
      <3> QED BY <1>1, <2>2, <3>1, LossyStays
    <2>3. CASE Tracked(c) /\ ~ (requests[c] # << >> /\ YoungestNow(session[c]) /\ ~ YoungestNow(session[c])')
      <3>1. \A id \in DOMAIN owner' : owner'[id] = c => id \in DOMAIN owner /\ owner[id] = c
        BY <1>1
      <3>2. \A id \in DOMAIN owner : owner[id] = c =>
             /\ OpenNow(id)' = OpenNow(id) /\ StartingNow(id)' = StartingNow(id)
             /\ id \in DOMAIN saved' => id \in DOMAIN saved
        BY <1>1, <1>2
      <3>3. requests[c] # << >> /\ YoungestNow(session[c]) => YoungestNow(session[c])'
        BY <2>3
      <3> QED BY <1>1, <2>1, <2>3, <3>1, <3>2, <3>3, TrackedStays
    <2>4. CASE Tracked(c) /\ requests[c] # << >> /\ YoungestNow(session[c]) /\ ~ YoungestNow(session[c])'
      <3> DEFINE s == session[c]
      <3>1. s # 0 /\ s \in DOMAIN owner /\ owner[s] = c
        BY <2>1, <2>4 DEF Tracked, Kept, Talks
      <3>2. Number(msgQ, {"stop"}, s) # 0 /\ Number(pending, Business, s) # 0
        BY <1>1, <1>2, <2>4
      <3>3. pending # << >>
        <4>1. ASSUME pending = << >>
              PROVE  FALSE
          <5>1. \A n \in DOMAIN pending : ~ Tells(pending[n], Business, s)
            BY <4>1
          <5> QED BY <3>2, <5>1, QueuesTyped, NumberNone
        <4> QED BY <4>1
      <3>4. ~ capsKnown
        BY <3>3 DEF Kept, Ledger
      <3>5. Early(s)
        BY <3>1, <3>4 DEF Good, Prompt
      <3>6. Number(pending, {"start"}, s) # 0
        BY <3>2, <3>5 DEF Early
      <3>7. Doomed(s)'
        BY <1>1, <1>2, <3>2, <3>6
      <3> QED BY <1>1, <3>1, <3>7 DEF Lossy
    <2> QED BY <2>1, <2>2, <2>3, <2>4
  <1> QED BY <1>1, <1>3, <1>4, <1>5 DEF Good

\* What a sequence of requests holds after the oldest was taken.
LEMMA TakenFacts ==
  ASSUME NEW S, NEW q \in Seq(S), q # << >>
  PROVE  /\ Len(q) \in Nat /\ Len(Tail(q)) = Len(q) - 1 /\ Head(q) = q[1]
         /\ \A n \in DOMAIN Tail(q) : n + 1 \in DOMAIN q /\ Tail(q)[n] = q[n + 1] /\ n + 1 # 1
         /\ Tail(q) # << >> => Tail(q)[Len(Tail(q))] = q[Len(q)]
         /\ Tail(q) = << >> <=> Len(q) = 1
  <1>1. /\ Len(q) \in Nat /\ Len(q) > 0 /\ Len(Tail(q)) = Len(q) - 1 /\ Head(q) = q[1]
        /\ DOMAIN q = 1 .. Len(q) /\ DOMAIN Tail(q) = 1 .. (Len(q) - 1) /\ Tail(q) \in Seq(S)
        /\ \A n \in 1 .. (Len(q) - 1) : Tail(q)[n] = q[n + 1]
    OBVIOUS
  <1>2. Tail(q) = << >> <=> Len(Tail(q)) = 0
    <2>1. \A s \in Seq(S) : Len(s) = 0 => s = << >>
      OBVIOUS
    <2>2. Len(<< >>) = 0
      OBVIOUS
    <2>3. PICK t \in Seq(S) : t = Tail(q)
      BY <1>1
    <2>4. t = << >> <=> Len(t) = 0
      BY <2>1, <2>2, <2>3
    <2> QED BY <2>3, <2>4
  <1>3. Tail(q) = << >> <=> Len(q) = 1
    BY <1>1, <1>2
  <1>4. ASSUME Tail(q) # << >>
        PROVE  Tail(q)[Len(Tail(q))] = q[Len(q)]
    <2> DEFINE n == Len(q) - 1
    <2>1. n \in 1 .. (Len(q) - 1) /\ n + 1 = Len(q)
      BY <1>1, <1>3, <1>4
    <2>2. Tail(q)[n] = q[n + 1]
      BY <1>1, <2>1
    <2> QED BY <1>1, <2>1, <2>2
  <1>5. \A n \in DOMAIN Tail(q) : n + 1 \in DOMAIN q /\ Tail(q)[n] = q[n + 1] /\ n + 1 # 1
    BY <1>1
  <1> QED BY <1>1, <1>3, <1>4, <1>5

LEMMA PushedFacts ==
  ASSUME NEW S, NEW q \in Seq(S), NEW x \in S
  PROVE  /\ Len(q) \in Nat /\ Len(Append(q, x)) = Len(q) + 1 /\ Append(q, x) # << >>
         /\ Append(q, x)[Len(Append(q, x))] = x
         /\ \A n \in DOMAIN Append(q, x) : (n \in DOMAIN q /\ Append(q, x)[n] = q[n]) \/ Append(q, x)[n] = x
         /\ q = << >> => Append(q, x)[1] = x
         /\ q # << >> => Append(q, x)[1] = q[1]
  OBVIOUS

\* What the answer to a session leaves.
LEMMA AnsweredNumbers ==
  ASSUME Kept, Good, GiveAnswer, NEW i, i = Head(msgQ).id
  PROVE  /\ i \in DOMAIN owner /\ capsKnown
         /\ \A id : id # i => Steady(id)
         /\ \A id : Doomed(id) => Doomed(id)'
         /\ Once(i)'
         /\ Head(msgQ).k = "stopped" => i \notin DOMAIN saved
         /\ OpenNow(i) = OpenNow(i)' + 1 /\ OpenNow(i)' \in Nat
         /\ YoungestNow(i) => YoungestNow(i)' \/ OpenNow(i)' = 0
         /\ Head(msgQ).k # "stopped" /\ YoungestNow(i) => OpenNow(i)' # 0
         /\ Head(msgQ).k # "started" /\ StartingNow(i) # 0 => OpenNow(i)' # 0
         /\ DOMAIN saved' \subseteq DOMAIN saved \cup {i}
         /\ Head(msgQ).k # "stopped" => DOMAIN saved' \subseteq DOMAIN saved
         /\ Head(msgQ).k = "stopped" /\ Head(msgQ).ok => saved' = saved
         /\ Head(msgQ).k = "started" /\ ~ Head(msgQ).ok => i \notin DOMAIN saved'
  <1> DEFINE h == Head(msgQ)
  <1>1. /\ msgQ # << >> /\ h.k \in Replied \cup {"get"} /\ (h.k = "get" => capsKnown)
        /\ msgQ' = Tail(msgQ)
        /\ UNCHANGED <<owner, pending, apiQ, capsKnown>>
    BY DEF GiveAnswer, books
  <1>2. saved' = CASE h.k = "started" /\ ~ h.ok -> Without(saved, i)
                   [] h.k = "stopped" /\ ~ h.ok -> With(saved, i, h.opts.mode)
                   [] OTHER -> saved
    BY DEF GiveAnswer
  <1>3. h \in Told(Business, DOMAIN owner)
    BY <1>1, HeardHead DEF Business, Posted
  <1> HIDE DEF h
  <1>4. i \in DOMAIN owner /\ h.ok \in BOOLEAN /\ h.id = i
    BY <1>3, ToldFields DEF h
  <1>5. /\ h.k = "started" /\ ~ h.ok => DOMAIN saved' = DOMAIN saved \ {i}
        /\ h.k = "stopped" /\ ~ h.ok => DOMAIN saved' = DOMAIN saved \cup {i}
        /\ h.k = "stopped" /\ h.ok => saved' = saved
        /\ h.k # "stopped" /\ h.k # "started" => saved' = saved
        /\ h.k = "started" /\ h.ok => saved' = saved
    <2>1. \A f, v : f = With(saved, i, v) => DOMAIN f = DOMAIN saved \cup {i}
      BY DEF With
    <2>2. \A f : f = Without(saved, i) => DOMAIN f = DOMAIN saved \ {i}
      BY DEF Without, Restrict
    <2> QED BY <1>2, <2>1, <2>2
  <1>6. \A id : /\ OpenNow(id) = OpenNow(id)' + Worth(h, Business, id)
                /\ StartsNow(id) = StartsNow(id)' + Worth(h, {"start"}, id)
                /\ HaltsNow(id) = HaltsNow(id)' + Worth(h, {"stopped"}, id)
                /\ AnswersNow(id) = AnswersNow(id)' + Worth(h, Replied, id)
                /\ ~ Tells(h, {"start", "started"}, id) => StartingNow(id)' = StartingNow(id)
                /\ YoungestNow(id) /\ ~ Tells(h, {"stop"}, id) => YoungestNow(id)' \/ OpenNow(id)' = 0
                /\ YoungestNow(id) /\ ~ Tells(h, {"stop", "stopped"}, id) => YoungestNow(id)'
                /\ OpenNow(id)' \in Nat /\ StartsNow(id)' \in Nat /\ HaltsNow(id)' \in Nat /\ AnswersNow(id)' \in Nat
                /\ OpenNow(id)' = 0 => StartingNow(id)' = 0
                /\ ~ Tells(h, Business, id) => Steady(id)
                /\ Doomed(id) /\ ~ Tells(h, {"stop"}, id) => Doomed(id)'
    BY <1>1, DoneSteady DEF h
  <1>7. (\A id : ~ Tells(h, {"stop"}, id)) /\ \A id : id # i => ~ Tells(h, Business, id)
    BY <1>1, <1>4 DEF Tells, Replied
  <1>8. Once(i)
    BY <1>4 DEF Good
  <1>9. h.k \in Replied => StartsNow(i) = 0 /\ StartsNow(i)' = 0
    <2>1. SUFFICES ASSUME h.k \in Replied
                   PROVE  StartsNow(i) = 0 /\ StartsNow(i)' = 0
      OBVIOUS
    <2>2. Tells(h, Replied, i) /\ ~ Tells(h, {"start"}, i)
      BY <1>4, <2>1 DEF Tells, Replied
    <2>3. AnswersNow(i) # 0
      BY <1>6, <2>2, WorthTyped
    <2>4. StartsNow(i) \in Nat /\ StartsNow(i)' = StartsNow(i)
      BY <1>6, <2>2, WorthTyped
    <2> QED BY <1>8, <2>3, <2>4 DEF Once
  <1>10. capsKnown
    <2>1. ASSUME ~ capsKnown
          PROVE  FALSE
      <3>1. Early(i) /\ h.k \in Replied
        BY <1>1, <1>4, <2>1 DEF Good, Prompt
      <3> QED BY <1>9, <3>1 DEF Early
    <2> QED BY <2>1
  <1>11. h.k = "stopped" => HaltsNow(i) = 1 /\ HaltsNow(i)' = 0 /\ i \notin DOMAIN saved
    <2>1. h.k = "stopped" => Tells(h, {"stopped"}, i)
      BY <1>4 DEF Tells
    <2>2. h.k = "stopped" => HaltsNow(i) = HaltsNow(i)' + 1 /\ HaltsNow(i)' \in Nat
      BY <1>6, <2>1, WorthTyped
    <2>3. h.k = "stopped" => HaltsNow(i) = 1 /\ HaltsNow(i)' = 0
      BY <1>8, <2>2 DEF Once
    <2> QED BY <1>8, <2>3 DEF Once
  <1>12. Once(i)'
    <2>1. CASE h.k = "stopped"
      <3>1. StartsNow(i)' = 0 /\ HaltsNow(i)' = 0
        BY <1>9, <1>11, <2>1 DEF Replied
      <3> QED BY <3>1 DEF Once
    <2>2. CASE h.k \in Replied /\ h.k # "stopped"
      <3>1. ~ Tells(h, {"stopped"}, i)
        BY <2>2 DEF Tells
      <3>2. HaltsNow(i)' = HaltsNow(i) /\ StartsNow(i)' = 0
        BY <1>6, <1>9, <2>2, <3>1, WorthTyped
      <3>3. DOMAIN saved' \subseteq DOMAIN saved
        BY <1>4, <1>5, <2>2
      <3> QED BY <1>8, <3>2, <3>3 DEF Once
    <2>3. CASE h.k = "get"
      <3>1. ~ Tells(h, {"stopped"}, i) /\ ~ Tells(h, {"start"}, i) /\ ~ Tells(h, Replied, i)
        BY <2>3 DEF Tells, Replied
      <3>2. HaltsNow(i)' = HaltsNow(i) /\ StartsNow(i)' = StartsNow(i) /\ AnswersNow(i)' = AnswersNow(i)
        BY <1>6, <3>1, WorthTyped
      <3>3. saved' = saved
        BY <1>5, <2>3
      <3> QED BY <1>8, <3>2, <3>3 DEF Once
    <2> QED BY <1>1, <2>1, <2>2, <2>3
  <1>13. OpenNow(i) = OpenNow(i)' + 1 /\ OpenNow(i)' \in Nat
    <2>1. Tells(h, Business, i)
      BY <1>1, <1>4 DEF Tells, Business, Posted
    <2> QED BY <1>6, <2>1, WorthTyped
  <1>14. h.k # "stopped" /\ YoungestNow(i) => OpenNow(i)' # 0
    <2>1. SUFFICES ASSUME h.k # "stopped", YoungestNow(i)
                   PROVE  OpenNow(i)' # 0
      OBVIOUS
    <2>2. ~ Tells(h, {"stop", "stopped"}, i)
      BY <1>1, <2>1 DEF Tells, Replied
    <2>3. YoungestNow(i)'
      BY <1>6, <2>1, <2>2
    <2> DEFINE S == Heap(DOMAIN owner)
               w == Tail(msgQ)
               r == RepliesOf(apiQ)
    <2>4. w \in Seq(S) /\ pending \in Seq(S) /\ r \in Seq(S)
      BY <1>1, QueuesTyped
    <2>5. msgQ' = w /\ pending' = pending /\ RepliesOf(apiQ)' = r
      BY <1>1
    <2> HIDE DEF S, w, r
    <2>6. Youngest(w, pending, r, i)
      BY <2>3, <2>5 DEF YoungestNow
    <2>7. Open(w, pending, r, i) # 0
      BY <2>4, <2>6, Counts
    <2> QED BY <2>5, <2>7 DEF OpenNow
  <1>15. h.k # "started" /\ StartingNow(i) # 0 => OpenNow(i)' # 0
    <2>1. h.k # "started" => ~ Tells(h, {"start", "started"}, i)
      BY <1>1 DEF Tells, Replied
    <2> QED BY <1>6, <2>1
  <1>16. (\A id : id # i => Steady(id)) /\ \A id : Doomed(id) => Doomed(id)'
    BY <1>6, <1>7
  <1>17. YoungestNow(i) => YoungestNow(i)' \/ OpenNow(i)' = 0
    BY <1>6, <1>7
  <1>18. /\ DOMAIN saved' \subseteq DOMAIN saved \cup {i}
         /\ h.k # "stopped" => DOMAIN saved' \subseteq DOMAIN saved
         /\ h.k = "stopped" /\ h.ok => saved' = saved
         /\ h.k = "started" /\ ~ h.ok => i \notin DOMAIN saved'
    BY <1>4, <1>5
  <1> QED BY <1>4, <1>10, <1>11, <1>12, <1>13, <1>14, <1>15, <1>16, <1>17, <1>18 DEF h

LEMMA GivenGood ==
  ASSUME Kept, Good, GiveAnswer, lost' = {}
  PROVE  Good'
  <1>0. PICK i : i = Head(msgQ).id
    OBVIOUS
  <1>1. /\ i \in DOMAIN owner /\ capsKnown
        /\ \A id : id # i => Steady(id)
        /\ \A id : Doomed(id) => Doomed(id)'
        /\ Once(i)'
        /\ Head(msgQ).k = "stopped" => i \notin DOMAIN saved
        /\ OpenNow(i) = OpenNow(i)' + 1 /\ OpenNow(i)' \in Nat
        /\ YoungestNow(i) => YoungestNow(i)' \/ OpenNow(i)' = 0
        /\ Head(msgQ).k # "stopped" /\ YoungestNow(i) => OpenNow(i)' # 0
        /\ Head(msgQ).k # "started" /\ StartingNow(i) # 0 => OpenNow(i)' # 0
        /\ DOMAIN saved' \subseteq DOMAIN saved \cup {i}
        /\ Head(msgQ).k # "stopped" => DOMAIN saved' \subseteq DOMAIN saved
        /\ Head(msgQ).k = "stopped" /\ Head(msgQ).ok => saved' = saved
        /\ Head(msgQ).k = "started" /\ ~ Head(msgQ).ok => i \notin DOMAIN saved'
    BY <1>0, AnsweredNumbers
  <1>2. UNCHANGED <<live, clientData, owner, capsKnown>>
    BY DEF GiveAnswer, books
  <1>3. PICK op, ok : ok \in BOOLEAN /\ Given(op, i, ok) /\ (Head(msgQ).k # "get" => ok = Head(msgQ).ok)
    BY <1>0 DEF GiveAnswer, Missed
  <1>4. PICK c : c = owner[i]
    OBVIOUS
  <1>5. /\ session[c] = i /\ session' = session /\ c \in Clients
        /\ requests[c] # << >> /\ requests' = [requests EXCEPT ![c] = Tail(@)]
        /\ taken'.op = Head(requests[c]).op /\ taken'.ok = ok /\ taken'.id = i
    BY <1>1, <1>3, <1>4 DEF Given, Kept, Ledger, Partial
  <1>6. i # 0 /\ requests \in [Clients -> Seq(Requests)]
    BY <1>1 DEF Kept, Talks, Ledger, Partial, Ids
  <1>7. \A id \in DOMAIN owner : id # i => Alike(id)
    BY <1>1 DEF Alike
  <1>8. \A id \in DOMAIN owner : Once(id)'
    BY <1>1, <1>2, <1>7, OnceStays DEF Good, Alike
  <1>9. Prompt'
    BY <1>1, <1>2 DEF Prompt
  <1>10. ASSUME NEW d \in live', d # c
         PROVE  Lossy(d)' \/ Tracked(d)'
    <2>1. d \in Clients /\ (Lossy(d) \/ Tracked(d))
      BY <1>2, <1>10 DEF Good, Kept, Ledger
    <2>2. \A id \in DOMAIN owner : owner[id] = d => Alike(id)
      BY <1>4, <1>7, <1>10
    <2>3. session'[d] = session[d] /\ requests'[d] = requests[d] /\ owner'[taken'.id] # d
      BY <1>2, <1>4, <1>5, <1>6, <1>10, <2>1
    <2> QED BY <1>2, <2>1, <2>2, <2>3, ClientStays
  <1>11. ASSUME c \in live'
         PROVE  Lossy(c)' \/ Tracked(c)'
    <2>1. Lossy(c) \/ Tracked(c)
      BY <1>2, <1>11 DEF Good
    <2>2. CASE Lossy(c)
      <3>1. \A id \in DOMAIN owner : owner[id] = c =>
             /\ owner'[id] = c
             /\ id # session[c] => id # session'[c]
             /\ id # session[c] /\ OpenNow(id) # 0 => OpenNow(id)' # 0
             /\ Doomed(id) => Doomed(id)'
        BY <1>1, <1>2, <1>5 DEF Steady
      <3> QED BY <1>2, <2>2, <3>1, LossyStays
    <2>3. CASE Tracked(c)
      <3>0. PICK q : q = requests[c]
        OBVIOUS
      <3>1. q \in Seq(Requests) /\ q # << >> /\ requests'[c] = Tail(q) /\ session'[c] = i /\ taken'.op = q[1].op
        BY <1>5, <1>6, <3>0, TakenFacts
      <3>2. /\ Len(q) \in Nat /\ Len(Tail(q)) = Len(q) - 1
            /\ \A n \in DOMAIN Tail(q) : n + 1 \in DOMAIN q /\ Tail(q)[n] = q[n + 1] /\ n + 1 # 1
            /\ Tail(q) # << >> => Tail(q)[Len(Tail(q))] = q[Len(q)]
            /\ (Tail(q) = << >> <=> Len(q) = 1)
        BY <3>1, TakenFacts
      <3>3. /\ \A id \in DOMAIN owner : owner[id] = c /\ id # i => id \notin DOMAIN saved
            /\ Len(q) = OpenNow(i)
            /\ \A n \in DOMAIN q : q[n].op = "start" => n = 1
            /\ q[1].op = "start" => StartingNow(i) # 0
            /\ q[Len(q)].op = "stop" => YoungestNow(i)
        BY <1>5, <1>6, <2>3, <3>0 DEF Tracked
      <3>4. \A id \in DOMAIN owner' : owner'[id] = c /\ id # i => id \notin DOMAIN saved'
        BY <1>1, <1>2, <3>3
      <3>5. Len(Tail(q)) = OpenNow(i)'
        BY <1>1, <3>2, <3>3
      <3>6. \A n \in DOMAIN Tail(q) : Tail(q)[n].op # "start"
        BY <3>2, <3>3
      <3>7. Tail(q) # << >> => 1 \in DOMAIN Tail(q) /\ Len(Tail(q)) # 0
        BY <3>1
      <3>8. Tail(q) # << >> /\ Tail(q)[Len(Tail(q))].op = "stop" => YoungestNow(i)'
        BY <1>1, <3>2, <3>3, <3>5, <3>7
      <3>9. Goes' => i \notin DOMAIN saved' \/ OpenNow(i)' # 0
        <4>1. SUFFICES ASSUME Goes', OpenNow(i)' = 0
                       PROVE  i \notin DOMAIN saved'
          OBVIOUS
        <4>2. Len(q) = 1
          BY <3>2, <3>5, <4>1
        <4>3. CASE ok
          <5>1. q[Len(q)].op = "stop"
            BY <1>5, <3>1, <4>1, <4>2, <4>3 DEF Goes
          <5>2. Head(msgQ).k = "stopped"
            BY <1>1, <3>3, <4>1, <5>1
          <5>3. Head(msgQ).ok
            BY <1>3, <4>3, <5>2
          <5> QED BY <1>1, <5>2, <5>3
        <4>4. CASE ~ ok
          <5>1. q[1].op = "start"
            BY <1>5, <3>1, <4>1, <4>4 DEF Goes
          <5>2. Head(msgQ).k = "started"
            BY <1>1, <3>3, <4>1, <5>1
          <5>3. ~ Head(msgQ).ok
            BY <1>3, <4>4, <5>2
          <5> QED BY <1>1, <5>2, <5>3
        <4> QED BY <4>3, <4>4
      <3>10. Tracked(c)'
        BY <1>6, <3>1, <3>4, <3>5, <3>6, <3>7, <3>8, <3>9 DEF Tracked
      <3> QED BY <3>10
    <2> QED BY <2>1, <2>2, <2>3
  <1> QED BY <1>8, <1>9, <1>10, <1>11, <1>2 DEF Good

LEMMA NewGood ==
  ASSUME Kept, Good, NEW c \in Clients, NEW m, NewSession(c, m)
  PROVE  Good'
  <1>0. PICK i : i = m.id
    OBVIOUS
  <1>1. /\ c \in live /\ session[c] = 0 /\ i \notin DOMAIN owner /\ i \in Ids /\ owner' = With(owner, i, c)
        /\ DOMAIN owner' = DOMAIN owner \cup {i}
        /\ m \in Told({"start"}, {i}) /\ msgQ' = Append(msgQ, m)
        /\ session' = [session EXCEPT ![c] = i]
        /\ requests' = [requests EXCEPT ![c] = Append(@, [op |-> "start", of |-> i])]
        /\ UNCHANGED <<live, clientData, pending, apiQ, capsKnown, saved, trips, sweep, taken, lost>>
    BY <1>0 DEF NewSession
  <1>2. owner'[i] = c /\ \A id \in DOMAIN owner : owner'[id] = owner[id] /\ id # i
    BY <1>1 DEF With
  <1>3. m.k = "start" /\ m.id = i /\ m.k \notin Replied
    BY <1>1 DEF Told, Replied
  <1>4. i # 0 /\ i \notin DOMAIN saved
    BY <1>1 DEF Ids, Kept, Ledger
  <1> DEFINE S == Heap(DOMAIN owner) \cup {m}
  <1>5. m \in S /\ Heap(DOMAIN owner) \subseteq S
    OBVIOUS
  <1> HIDE DEF S
  <1>6. \A id : /\ OpenNow(id)' = OpenNow(id) + Worth(m, Posted, id)
                /\ StartsNow(id)' = StartsNow(id) + Worth(m, {"start"}, id)
                /\ HaltsNow(id)' = HaltsNow(id)
                /\ AnswersNow(id)' = AnswersNow(id)
                /\ StartingNow(id)' = StartingNow(id) + Worth(m, {"start"}, id)
                /\ OpenNow(id) \in Nat
                /\ Doomed(id) => Doomed(id)'
    BY <1>1, <1>3, <1>5, PostedSteady
  <1>7. \A id : /\ ~ Tells(m, Posted, id) => Alike(id)
                /\ ~ Tells(m, {"start"}, id) /\ Once(id) => Once(id)'
                /\ ~ Tells(m, {"start"}, id) /\ Early(id) => Early(id)'
    BY <1>1, <1>3, <1>5, PostedAlike
  <1>8. \A id : id # i => ~ Tells(m, Posted, id) /\ ~ Tells(m, {"start"}, id)
    BY <1>3 DEF Tells
  <1>9. Tells(m, Posted, i) /\ Tells(m, {"start"}, i)
    BY <1>3 DEF Tells, Posted
  <1>10. /\ \A K \in SUBSET Business : Number(msgQ, K, i) = 0 /\ Number(pending, K, i) = 0
         /\ OpenNow(i) = 0 /\ StartsNow(i) = 0 /\ HaltsNow(i) = 0 /\ AnswersNow(i) = 0 /\ StartingNow(i) = 0
    BY <1>1, UnknownCounts
  <1>11. /\ OpenNow(i)' = 1 /\ StartsNow(i)' = 1 /\ StartingNow(i)' = 1
         /\ HaltsNow(i)' = 0 /\ AnswersNow(i)' = 0
    <2>1. Worth(m, Posted, i) = 1 /\ Worth(m, {"start"}, i) = 1
      BY <1>9, WorthTyped
    <2> QED BY <1>6, <1>10, <2>1
  <1>12. \A id \in DOMAIN owner' : Once(id)'
    <2>1. Once(i)'
      BY <1>1, <1>4, <1>11 DEF Once
    <2>2. \A id \in DOMAIN owner : Once(id)'
      BY <1>2, <1>7, <1>8 DEF Good
    <2> QED BY <1>1, <2>1, <2>2
  <1>13. Prompt'
    <2>1. SUFFICES ASSUME ~ capsKnown'
                   PROVE  apiQ' = << >> /\ saved' = << >> /\ \A id \in DOMAIN owner' : Early(id)'
      BY DEF Prompt
    <2>2. apiQ = << >> /\ saved = << >> /\ \A id \in DOMAIN owner : Early(id)
      BY <1>1, <2>1 DEF Good, Prompt
    <2>3. \A id \in DOMAIN owner : Early(id)'
      BY <1>2, <1>7, <1>8, <2>2
    <2>4. Early(i)'
      <3>1. Number(pending', Business, i) = 0
        BY <1>1, <1>10
      <3>2. ~ Precedes(msgQ', {"stop", "get"}, "start", i)
        <4>1. {"stop", "get"} \in SUBSET Business
          BY DEF Business, Posted
        <4>2. Number(msgQ, {"stop", "get"}, i) = 0
          BY <1>10, <4>1
        <4>3. msgQ \in Seq(S)
          <5> DEFINE T == Heap(DOMAIN owner)
          <5>1. T \subseteq S /\ msgQ \in Seq(T)
            BY <1>5, QueuesTyped
          <5> HIDE DEF T
          <5> QED BY <5>1, SequenceWider
        <4>4. ~ Precedes(msgQ, {"stop", "get"}, "start", i)
          BY <4>2, <4>3, NumberNone DEF Precedes
        <4> QED BY <1>1, <1>5, <4>2, <4>3, <4>4, PrecedesAppend
      <3> QED BY <1>11, <3>1, <3>2 DEF Early
    <2> QED BY <1>1, <2>2, <2>3, <2>4
  <1>14. ASSUME NEW d \in live', d # c
         PROVE  Lossy(d)' \/ Tracked(d)'
    <2>1. d \in Clients /\ (Lossy(d) \/ Tracked(d))
      BY <1>1, <1>14 DEF Good, Kept, Ledger
    <2>2. \A id \in DOMAIN owner : owner[id] = d => Alike(id)
      BY <1>2, <1>7, <1>8
    <2>3. session'[d] = session[d] /\ requests'[d] = requests[d] /\ taken' = taken
      BY <1>1, <1>14, <2>1 DEF Kept, Talks
    <2>4. DOMAIN owner \subseteq DOMAIN owner' /\ \A id \in DOMAIN owner' : owner'[id] = d => id \in DOMAIN owner
      BY <1>1, <1>2, <1>14
    <2> QED BY <1>2, <2>1, <2>2, <2>3, <2>4, ClientStays
  <1>15. Lossy(c)' \/ Tracked(c)'
    <2>1. Lossy(c) \/ Tracked(c)
      BY <1>1 DEF Good
    <2>2. session'[c] = i
      BY <1>1 DEF Kept, Talks
    <2>3. CASE Lossy(c)
      <3>1. \A id \in DOMAIN owner : owner[id] = c =>
             /\ owner'[id] = c
             /\ id # session[c] => id # session'[c]
             /\ id # session[c] /\ OpenNow(id) # 0 => OpenNow(id)' # 0
             /\ Doomed(id) => Doomed(id)'
        BY <1>2, <1>6, <1>7, <1>8, <2>2 DEF Alike, Steady
      <3>2. DOMAIN owner \subseteq DOMAIN owner'
        BY <1>1
      <3> QED BY <2>3, <3>1, <3>2, LossyStays
    <2>4. CASE Tracked(c)
      <3> DEFINE x == [op |-> "start", of |-> i]
      <3>1. requests[c] = << >> /\ \A id \in DOMAIN owner : owner[id] = c /\ id # 0 => id \notin DOMAIN saved
        BY <1>1, <2>4 DEF Tracked
      <3>2. x.op = "start" /\ requests'[c] = Append(<< >>, x)
        BY <1>1, <3>1 DEF Kept, Talks
      <3> HIDE DEF x
      <3>3. PICK q : q = requests'[c] /\ q = << x >>
        BY <3>2
      <3>4. Len(q) = 1 /\ q[1] = x /\ DOMAIN q = {1}
        BY <3>3
      <3>5. 0 \notin DOMAIN saved
        BY DEF Kept, Ledger, Partial, Ids
      <3>6. \A id \in DOMAIN owner' : owner'[id] = c /\ id # i => id \notin DOMAIN saved'
        BY <1>1, <1>2, <3>1, <3>5
      <3>7. Goes' => owner'[taken'.id] # c
        <4>1. SUFFICES ASSUME taken # Nothing, owner'[taken.id] = c
                       PROVE  FALSE
          BY <1>1 DEF Goes
        <4>2. taken.id \in DOMAIN owner /\ session[owner[taken.id]] = taken.id /\ taken.id # 0
          BY <4>1 DEF Kept, Talks, Ledger, Partial, Ids
        <4> QED BY <1>1, <1>2, <4>1, <4>2
      <3>8. q[1].op = "start" /\ q[Len(q)].op # "stop"
        BY <3>2, <3>4
      <3>9. Len(q) = OpenNow(i)' /\ StartingNow(i)' # 0
        BY <1>11, <3>4
      <3>10. Tracked(c)'
        BY <1>4, <2>2, <3>3, <3>4, <3>6, <3>7, <3>8, <3>9 DEF Tracked
      <3> QED BY <3>10
    <2> QED BY <2>1, <2>3, <2>4
  <1> QED BY <1>12, <1>13, <1>14, <1>15 DEF Good

LEMMA AskGood ==
  ASSUME Kept, Good, NEW c \in Clients, NEW m, Asks(c, m)
  PROVE  Good'
  <1>0. PICK s : s = session[c]
    OBVIOUS
  <1>1. /\ c \in live /\ s # 0 /\ m \in Told({"stop", "get"}, {s}) /\ msgQ' = Append(msgQ, m)
        /\ requests' = [requests EXCEPT ![c] = Append(@, [op |-> m.k, of |-> s])]
        /\ UNCHANGED <<live, clientData, owner, pending, apiQ, capsKnown, saved, session, taken>>
    BY <1>0 DEF Asks, books
  <1>2. s \in DOMAIN owner /\ owner[s] = c /\ s \in Ids
    BY <1>0, <1>1 DEF Kept, Talks, Ledger, Partial
  <1>3. m.k \in {"stop", "get"} /\ m.id = s /\ m.k \notin Replied
    BY <1>1 DEF Told, Replied
  <1> DEFINE S == Heap(DOMAIN owner) \cup {m}
  <1>4. m \in S /\ Heap(DOMAIN owner) \subseteq S
    OBVIOUS
  <1> HIDE DEF S
  <1>5. \A id : /\ OpenNow(id)' = OpenNow(id) + Worth(m, Posted, id)
                /\ StartingNow(id)' = StartingNow(id) + Worth(m, {"start"}, id)
                /\ Tells(m, {"stop"}, id) => YoungestNow(id)'
                /\ OpenNow(id) \in Nat /\ StartingNow(id) \in Nat
                /\ Doomed(id) => Doomed(id)'
    BY <1>1, <1>3, <1>4, PostedSteady
  <1>6. \A id : /\ ~ Tells(m, Posted, id) => Alike(id)
                /\ ~ Tells(m, {"start"}, id) /\ Once(id) => Once(id)'
                /\ ~ Tells(m, {"start"}, id) /\ Early(id) => Early(id)'
    BY <1>1, <1>3, <1>4, PostedAlike
  <1>7. /\ \A id : ~ Tells(m, {"start"}, id) /\ (id # s => ~ Tells(m, Posted, id))
        /\ Tells(m, Posted, s) /\ (m.k = "stop" => Tells(m, {"stop"}, s))
    BY <1>3 DEF Tells, Posted
  <1>8. OpenNow(s)' = OpenNow(s) + 1 /\ StartingNow(s)' = StartingNow(s)
    BY <1>5, <1>7, WorthTyped
  <1>9. \A id \in DOMAIN owner : Once(id)'
    BY <1>6, <1>7 DEF Good
  <1>10. Prompt'
    BY <1>1, <1>6, <1>7 DEF Good, Prompt
  <1>11. \A id : id # s => Alike(id)
    BY <1>6, <1>7
  <1>12. ASSUME NEW d \in live', d # c
         PROVE  Lossy(d)' \/ Tracked(d)'
    <2>1. d \in Clients /\ (Lossy(d) \/ Tracked(d))
      BY <1>1, <1>12 DEF Good, Kept, Ledger
    <2>2. \A id \in DOMAIN owner : owner[id] = d => Alike(id)
      BY <1>2, <1>11, <1>12
    <2>3. session'[d] = session[d] /\ requests'[d] = requests[d] /\ taken' = taken /\ owner' = owner
      BY <1>1, <1>12, <2>1 DEF Kept, Talks
    <2> QED BY <2>1, <2>2, <2>3, ClientStays
  <1>13. Lossy(c)' \/ Tracked(c)'
    <2>1. Lossy(c) \/ Tracked(c)
      BY <1>1 DEF Good
    <2>2. CASE Lossy(c)
      <3>1. \A id \in DOMAIN owner : owner[id] = c =>
             /\ owner'[id] = c
             /\ id # session[c] => id # session'[c]
             /\ id # session[c] /\ OpenNow(id) # 0 => OpenNow(id)' # 0
             /\ Doomed(id) => Doomed(id)'
        BY <1>0, <1>1, <1>5, <1>11 DEF Alike, Steady
      <3> QED BY <1>1, <2>2, <3>1, LossyStays
    <2>3. CASE Tracked(c)
      <3> DEFINE x == [op |-> m.k, of |-> s]
      <3>0. PICK q : q = requests[c]
        OBVIOUS
      <3>1. q \in Seq(Requests) /\ x \in Requests /\ x.op = m.k
        BY <1>2, <1>3, <3>0 DEF Kept, Talks, Requests
      <3>2. requests'[c] = Append(q, x) /\ session'[c] = s
        BY <1>0, <1>1, <3>0 DEF Kept, Talks
      <3> HIDE DEF x
      <3>3. PICK r : r = Append(q, x)
        OBVIOUS
      <3>4. /\ Len(q) \in Nat /\ Len(r) = Len(q) + 1 /\ r[Len(r)] = x
            /\ \A n \in DOMAIN r : (n \in DOMAIN q /\ r[n] = q[n]) \/ r[n] = x
            /\ q = << >> => r[1] = x
            /\ q # << >> => r[1] = q[1]
        BY <3>1, <3>3, PushedFacts
      <3>5. /\ \A id \in DOMAIN owner : owner[id] = c /\ id # s => id \notin DOMAIN saved
            /\ Len(q) = OpenNow(s)
            /\ \A n \in DOMAIN q : q[n].op = "start" => n = 1
            /\ q # << >> /\ q[1].op = "start" => StartingNow(s) # 0
        BY <1>0, <1>1, <2>3, <3>0 DEF Tracked
      <3>6. Len(r) = OpenNow(s)' /\ OpenNow(s)' # 0
        BY <1>5, <1>8, <3>4, <3>5
      <3>7. (\A n \in DOMAIN r : r[n].op = "start" => n = 1) /\ (r[1].op = "start" => StartingNow(s)' # 0)
        BY <1>3, <1>8, <3>1, <3>4, <3>5
      <3>8. r[Len(r)].op = "stop" => YoungestNow(s)'
        BY <1>5, <1>7, <3>1, <3>4
      <3>9. \A id \in DOMAIN owner' : owner'[id] = c /\ id # s => id \notin DOMAIN saved'
        BY <1>1, <3>5
      <3>10. requests'[c] = r
        BY <3>2, <3>3
      <3>11. Tracked(c)'
        BY <1>1, <3>2, <3>6, <3>7, <3>8, <3>9, <3>10 DEF Tracked
      <3> QED BY <3>11
    <2> QED BY <2>1, <2>2, <2>3
  <1> QED BY <1>1, <1>9, <1>10, <1>12, <1>13 DEF Good

LEMMA LeaveGood ==
  ASSUME Kept, Good, NEW c \in Clients, Leaves(c)
  PROVE  Good'
  <1> DEFINE m == Remove(c)
             S == Heap(DOMAIN owner)
  <1>1. /\ live' = live \ {c} /\ msgQ' = Append(msgQ, m)
        /\ requests' = [requests EXCEPT ![c] = << >>]
        /\ UNCHANGED <<owner, session, taken, capsKnown, pending, apiQ, saved>>
    BY DEF Leaves
  <1>2. m \in S /\ m.k = "remove" /\ Heap(DOMAIN owner) \subseteq S
    BY DEF Heap, Heard, Remove, Removals
  <1> HIDE DEF m, S
  <1>3. \A id : ~ Tells(m, Posted, id) /\ ~ Tells(m, {"start"}, id) /\ m.k \notin Replied
    BY <1>2 DEF Tells, Posted, Replied
  <1>4. \A id : /\ Alike(id) /\ (Once(id) => Once(id)') /\ (Early(id) => Early(id)')
    BY <1>1, <1>2, <1>3, PostedAlike
  <1>5. \A id \in DOMAIN owner : Once(id)'
    BY <1>4 DEF Good
  <1>6. Prompt'
    BY <1>1, <1>4 DEF Good, Prompt
  <1>7. ASSUME NEW d \in live'
        PROVE  Lossy(d)' \/ Tracked(d)'
    <2>1. d \in Clients /\ d # c /\ (Lossy(d) \/ Tracked(d))
      BY <1>1, <1>7 DEF Good, Kept, Ledger
    <2>2. session'[d] = session[d] /\ requests'[d] = requests[d] /\ taken' = taken /\ owner' = owner
      BY <1>1, <2>1 DEF Kept, Talks
    <2> QED BY <1>4, <2>1, <2>2, ClientStays
  <1> QED BY <1>1, <1>5, <1>6, <1>7 DEF Good

LEMMA ResponseGood ==
  ASSUME Kept, Good, OnResponse
  PROVE  Good'
  <1>1. /\ taken # Nothing /\ taken' = Nothing
        /\ UNCHANGED <<requests, lost, live, clientData, owner, msgQ, pending, apiQ, capsKnown, saved, trips, sweep>>
        /\ session' = IF Goes /\ session[owner[taken.id]] = taken.id THEN [session EXCEPT ![owner[taken.id]] = 0] ELSE session
    BY DEF OnResponse, Goes, vars, clientVars, adapterVars
  <1>2. PICK c : c = owner[taken.id]
    OBVIOUS
  <1>3. c \in Clients /\ taken.id \in DOMAIN owner /\ session[c] = taken.id /\ session \in [Clients -> DOMAIN owner \cup {0}]
    BY <1>1, <1>2 DEF Kept, Talks, Ledger, Partial
  <1>4. session' = IF Goes THEN [session EXCEPT ![c] = 0] ELSE session
    BY <1>1, <1>2, <1>3
  <1>5. \A id : Steady(id) /\ (Early(id) => Early(id)') /\ Alike(id)
    BY <1>1, StillAlike
  <1>6. \A id \in DOMAIN owner : Once(id)'
    BY <1>1, <1>5, OnceStays DEF Good
  <1>7. Prompt'
    BY <1>1, <1>5 DEF Good, Prompt
  <1>8. ASSUME NEW d \in live', d # c \/ ~ Goes
        PROVE  Lossy(d)' \/ Tracked(d)'
    <2>1. d \in Clients /\ (Lossy(d) \/ Tracked(d))
      BY <1>1, <1>8 DEF Good, Kept, Ledger
    <2>2. session'[d] = session[d] /\ requests'[d] = requests[d] /\ taken' = Nothing /\ owner' = owner
      BY <1>1, <1>3, <1>4, <1>8, <2>1
    <2> QED BY <1>5, <2>1, <2>2, ClientStays
  <1>9. ASSUME c \in live', Goes
        PROVE  Lossy(c)' \/ Tracked(c)'
    <2>0. PICK s : s = session[c]
      OBVIOUS
    <2>1. Lossy(c) \/ Tracked(c)
      BY <1>1, <1>9 DEF Good
    <2>2. session'[c] = 0 /\ s \in DOMAIN owner /\ owner[s] = c /\ s # 0 /\ 0 \notin DOMAIN owner
      BY <1>2, <1>3, <1>4, <1>9, <2>0 DEF Kept, Ledger, Partial, Ids
    <2>3. CASE Lossy(c)
      <3>1. \A id \in DOMAIN owner : owner[id] = c =>
             /\ owner'[id] = c
             /\ id # session[c] => id # session'[c]
             /\ id # session[c] /\ OpenNow(id) # 0 => OpenNow(id)' # 0
             /\ Doomed(id) => Doomed(id)'
        BY <1>1, <1>5, <2>2 DEF Alike, Steady
      <3> QED BY <1>1, <2>3, <3>1, LossyStays
    <2>4. CASE OpenNow(s) # 0
      <3>1. OpenNow(s)' # 0 /\ s # session'[c] /\ s \in DOMAIN owner' /\ owner'[s] = c
        BY <1>1, <1>5, <2>2, <2>4 DEF Steady
      <3> QED BY <3>1 DEF Lossy
    <2>5. CASE Tracked(c) /\ OpenNow(s) = 0
      <3>1. s \notin DOMAIN saved /\ \A id \in DOMAIN owner : owner[id] = c /\ id # s => id \notin DOMAIN saved
        BY <1>2, <1>9, <2>0, <2>5 DEF Tracked
      <3>2. Len(requests[c]) = 0
        BY <2>0, <2>2, <2>5 DEF Tracked
      <3>3. requests[c] = << >>
        BY <1>3, <3>2 DEF Kept, Talks
      <3>4. requests'[c] = << >>
        BY <1>1, <3>3
      <3>5. \A id \in DOMAIN owner' : owner'[id] = c => id \notin DOMAIN saved'
        BY <1>1, <3>1
      <3>6. ~ Goes'
        BY <1>1 DEF Goes
      <3>7. Tracked(c)'
        BY <2>2, <3>4, <3>5, <3>6 DEF Tracked
      <3> QED BY <3>7
    <2> QED BY <2>1, <2>3, <2>4, <2>5
  <1> QED BY <1>1, <1>6, <1>7, <1>8, <1>9 DEF Good

-----------------------------------------------------------------------------
(* Every step keeps the invariant *)
LEMMA StartsGood ==
  ASSUME Init, HalInit
  PROVE  HalInv
  <1>1. /\ live = Clients /\ clientData = Clients /\ owner = << >> /\ msgQ = << >> /\ pending = << >> /\ apiQ = << >>
        /\ capsKnown = FALSE /\ saved = << >> /\ trips = << >> /\ sweep = {}
        /\ session = [c \in Clients |-> 0] /\ requests = [c \in Clients |-> << >>] /\ taken = Nothing /\ lost = {}
    BY DEF Init, HalInit, ClientIdle
  <1>2. Ledger
    <2>1. Partial(owner, Clients) /\ Partial(saved, {"routine", "noReport"})
      BY <1>1 DEF Partial
    <2>2. DOMAIN owner = 1 .. 0
      BY <1>1
    <2>3. Numbered
      BY <2>2 DEF Numbered
    <2> QED BY <1>1, <2>1, <2>3 DEF Ledger
  <1>3. Mail
    BY <1>1 DEF Mail
  <1>4. Talks
    <2>1. requests \in [Clients -> Seq(Requests)]
      BY <1>1
    <2> QED BY <1>1, <2>1 DEF Talks
  <1>5. Sweeps
    BY <1>1 DEF Sweeps
  <1>6. Prompt /\ \A id \in DOMAIN owner : Once(id)
    BY <1>1 DEF Prompt
  <1>7. \A c \in live : Tracked(c)
    <2> TAKE c \in live
    <2>1. session[c] = 0 /\ requests[c] = << >> /\ ~ Goes
      BY <1>1 DEF Goes
    <2> QED BY <1>1, <2>1 DEF Tracked
  <1> QED BY <1>2, <1>3, <1>4, <1>5, <1>6, <1>7 DEF HalInv, Kept, Followed, Good

LEMMA GoodKept ==
  ASSUME HalInv, HalNext
  PROVE  HalInv'
  <1>0. Kept /\ (lost = {} => Good)
    BY DEF HalInv, Followed
  <1>1. SUFFICES Kept' /\ (lost' = {} => Good')
    BY DEF HalInv, Followed
  <1>2. ASSUME FrameworkNext
        PROVE  Kept' /\ (lost' = {} => Good')
    <2>1. PICK c \in Clients : (\E m : NewSession(c, m) \/ Asks(c, m)) \/ Leaves(c)
      BY <1>0, <1>2, FrameworkShape
    <2>2. CASE Leaves(c)
      <3>1. lost' = lost
        BY <2>2 DEF Leaves
      <3> QED BY <1>0, <2>2, <3>1, LeaveKept, LeaveGood
    <2>3. ASSUME NEW m, NewSession(c, m)
          PROVE  Kept' /\ (lost' = {} => Good')
      <3>1. lost' = lost
        BY <2>3 DEF NewSession
      <3> QED BY <1>0, <2>3, <3>1, NewKept, NewGood
    <2>4. ASSUME NEW m, Asks(c, m)
          PROVE  Kept' /\ (lost' = {} => Good')
      <3>1. lost' = lost
        BY <2>4 DEF Asks
      <3> QED BY <1>0, <2>4, <3>1, AskKept, AskGood
    <2> QED BY <2>1, <2>2, <2>3, <2>4
  <1>3. ASSUME HalEngineNext
        PROVE  Kept' /\ (lost' = {} => Good')
    <2>1. (\E m \in Told(Replied, DOMAIN owner) \cup {Ignore} : HearBack(m)) \/ LinkOpens \/ Waiting
      BY <1>0, <1>3, EngineShape
    <2>2. ASSUME NEW m \in Told(Replied, DOMAIN owner) \cup {Ignore}, HearBack(m)
          PROVE  Kept' /\ (lost' = {} => Good')
      <3>1. lost' = lost
        BY <2>2 DEF HearBack, talk
      <3> QED BY <1>0, <2>2, <3>1, BackKept, BackGood
    <2>3. CASE LinkOpens
      <3>1. lost' = lost
        BY <2>3 DEF LinkOpens, talk
      <3> QED BY <1>0, <2>3, <3>1, OpensKept, OpensGood
    <2>4. CASE Waiting
      <3>1. lost' = lost
        BY <2>4 DEF Waiting, talk
      <3> QED BY <1>0, <2>4, <3>1, WaitKept, StillGood
    <2> QED BY <2>1, <2>2, <2>3, <2>4
  <1>4. ASSUME HalAdapterNext
        PROVE  Kept' /\ (lost' = {} => Good')
    <2>1. \/ OnResponse \/ PutAside \/ DropStart \/ NotAnswered \/ GiveAnswer \/ RemoveStarts \/ SweepEnds
          \/ \E x \in HalCalls(DOMAIN owner) : PassOn(x)
          \/ \E id \in DOMAIN owner, x \in HalCalls(DOMAIN owner) : SweepOne(id, x)
          \/ \E z \in Seq(HalCalls(DOMAIN owner)) : ComeUp(z)
      BY <1>0, <1>4, AdapterShape
    <2>2. CASE OnResponse
      <3>1. lost' = lost
        BY <2>2 DEF OnResponse
      <3> QED BY <1>0, <2>2, <3>1, ResponseKept, ResponseGood
    <2>3. CASE PutAside
      <3>1. lost' = lost
        BY <2>3 DEF PutAside, talk
      <3> QED BY <1>0, <2>3, <3>1, AsideKept, AsideGood
    <2>4. CASE DropStart
      <3>1. lost' = lost
        BY <2>4 DEF DropStart, talk
      <3> QED BY <1>0, <2>4, <3>1, DroppedKept, DropGood
    <2>5. CASE NotAnswered
      <3>1. lost' # {}
        BY <2>5 DEF NotAnswered
      <3> QED BY <1>0, <2>5, <3>1, DroppedKept
    <2>6. CASE GiveAnswer
      <3>1. lost' = {} => lost = {}
        BY <2>6 DEF GiveAnswer, Given, Missed
      <3> QED BY <1>0, <2>6, <3>1, GivenKept, GivenGood
    <2>7. CASE RemoveStarts
      <3>1. lost' = lost
        BY <2>7 DEF RemoveStarts, talk
      <3> QED BY <1>0, <2>7, <3>1, RemoveKept, StillGood
    <2>8. CASE SweepEnds
      <3>1. lost' = lost
        BY <2>8 DEF SweepEnds, talk
      <3> QED BY <1>0, <2>8, <3>1, EndsKept, EndsGood
    <2>9. ASSUME NEW x \in HalCalls(DOMAIN owner), PassOn(x)
          PROVE  Kept' /\ (lost' = {} => Good')
      <3>1. lost' = lost
        BY <2>9 DEF PassOn, talk
      <3> QED BY <1>0, <2>9, <3>1, PassKept, PassGood
    <2>10. ASSUME NEW id \in DOMAIN owner, NEW x \in HalCalls(DOMAIN owner), SweepOne(id, x)
           PROVE  Kept' /\ (lost' = {} => Good')
      <3>1. lost' = lost
        BY <2>10 DEF SweepOne, talk
      <3> QED BY <1>0, <2>10, <3>1, SweptKept, SweepGood
    <2>11. ASSUME NEW z \in Seq(HalCalls(DOMAIN owner)), ComeUp(z)
           PROVE  Kept' /\ (lost' = {} => Good')
      <3>1. lost' = lost
        BY <2>11 DEF ComeUp, talk
      <3> QED BY <1>0, <2>11, <3>1, UpKept, UpGood
    <2> QED BY <2>1, <2>2, <2>3, <2>4, <2>5, <2>6, <2>7, <2>8, <2>9, <2>10, <2>11
  <1> QED BY <1>2, <1>3, <1>4 DEF HalNext

LEMMA IdleKept ==
  ASSUME HalInv, UNCHANGED <<vars, halVars>>
  PROVE  HalInv'
  <1>1. Waiting /\ lost' = lost
    BY DEF vars, halVars, clientVars, adapterVars, Waiting, books, talk
  <1> QED BY <1>1, WaitKept, StillGood DEF HalInv, Followed

LEMMA GoodMeans ==
  ASSUME HalInv
  PROVE  RunningCanBeStopped
  <1>1. SUFFICES ASSUME AtRest, taken = Nothing, lost = {}, NEW id \in DOMAIN saved, owner[id] \in live
                 PROVE  session[owner[id]] = id
    BY DEF RunningCanBeStopped
  <1>2. Kept /\ Good /\ id \in DOMAIN owner
    BY <1>1 DEF HalInv, Followed, Kept, Ledger
  <1>3. msgQ = << >> /\ pending = << >> /\ apiQ = << >>
    BY <1>1 DEF AtRest
  <1>4. RepliesOf(apiQ) = << >>
    BY <1>3 DEF RepliesOf
  <1>5. \A K, i : Number(<< >>, K, i) = 0
    <2>1. << >> \in Seq({0}) /\ DOMAIN << >> = {}
      OBVIOUS
    <2> QED BY <2>1, NumberNone
  <1>6. \A i : OpenNow(i) = 0
    BY <1>3, <1>4, <1>5 DEF OpenNow, Open
  <1>7. \A i : ~ Doomed(i)
    BY <1>3 DEF Doomed, Precedes
  <1>8. Tracked(owner[id])
    BY <1>1, <1>2, <1>6, <1>7 DEF Good, Lossy
  <1> QED BY <1>1, <1>2, <1>8 DEF Tracked

\* Once nothing is under way and no answer was lost, the session the adapter has
\* saved for a client is the one its LocationAPIClientBase still holds, so that
\* the stop the framework asks for reaches it: removeSession() forgets a session
\* only with the answer that ends it, and what the adapter answers comes in the
\* order of the requests.
THEOREM SessionsCanBeStopped == HalSpec => []RunningCanBeStopped
  <1>1. Init /\ HalInit => HalInv
    BY StartsGood
  <1>2. HalInv /\ [HalNext]_<<vars, halVars>> => HalInv'
    BY GoodKept, IdleKept
  <1>3. HalInv => RunningCanBeStopped
    BY GoodMeans
  <1> QED BY <1>1, <1>2, <1>3, PTL DEF HalSpec

=============================================================================
