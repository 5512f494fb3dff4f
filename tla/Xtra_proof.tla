----------------------------- MODULE Xtra_proof -----------------------------
(***************************************************************************)
(* For all clients, items, sources and bounds: the two maps of the         *)
(* observer say the same, whoever subscribed learns the present values of  *)
(* its items, the daemon included, and the daemon runs the source of       *)
(* corrections that the adapter wants.                                     *)
(***************************************************************************)
EXTENDS Xtra, FiniteSetTheorems, SequenceTheorems, TLAPS

-----------------------------------------------------------------------------
(* The maps *)

LEMMA AddedTo ==
  ASSUME NEW map, NEW keys, NEW vals, NEW k \in DOMAIN map
  PROVE  /\ DOMAIN Added(map, keys, vals) = DOMAIN map
         /\ \A v : v \in Added(map, keys, vals)[k] <=> v \in map[k] \/ (k \in keys /\ v \in vals)
  BY DEF Added

LEMMA TrimmedOff ==
  ASSUME NEW map, NEW keys, NEW vals, NEW k \in DOMAIN map
  PROVE  /\ DOMAIN Trimmed(map, keys, vals) = DOMAIN map
         /\ \A v : v \in Trimmed(map, keys, vals)[k] <=> v \in map[k] /\ ~ (k \in keys /\ v \in vals)
  BY DEF Trimmed

MirrorInv ==
  /\ DOMAIN clientItems = Watchers /\ DOMAIN itemClients = Items
  /\ SubscriptionsMirrored

LEMMA MirrorInit == ASSUME NEW q PROVE OsInit(q) => MirrorInv
  BY DEF OsInit, MirrorInv, SubscriptionsMirrored

\* Subscriptions and requests.
LEMMA SubscribeMirrors ==
  ASSUME MirrorInv, HandleSubscribeReq
  PROVE  MirrorInv'
  <1> DEFINE c == Head(osQ).client
             items == Head(osQ).items
  <1>1. /\ itemClients' = Added(itemClients, items, {c})
        /\ clientItems' = Added(clientItems, {c}, items)
        /\ updaters' = updaters
    BY DEF HandleSubscribeReq
  <1> HIDE DEF c, items
  <1>2. DOMAIN clientItems = Watchers /\ DOMAIN itemClients = Items
    BY DEF MirrorInv
  <1>3. DOMAIN clientItems' = Watchers /\ DOMAIN itemClients' = Items
    BY <1>1, <1>2 DEF Added
  <1>4. ASSUME NEW d \in Watchers \ updaters, NEW i \in Items
        PROVE  d \in itemClients'[i] <=> i \in clientItems'[d]
    <2>1. d \in itemClients'[i] <=> d \in itemClients[i] \/ (i \in items /\ d = c)
      BY <1>1, <1>2, AddedTo
    <2>2. i \in clientItems'[d] <=> i \in clientItems[d] \/ (d = c /\ i \in items)
      BY <1>1, <1>2, AddedTo
    <2> QED BY <2>1, <2>2 DEF MirrorInv, SubscriptionsMirrored
  <1> QED BY <1>1, <1>3, <1>4 DEF MirrorInv, SubscriptionsMirrored

LEMMA UnsubscribeMirrors ==
  ASSUME MirrorInv, HandleUnsubscribe
  PROVE  MirrorInv'
  <1>1. PICK all \in BOOLEAN :
          LET c     == Head(osQ).client
              items == clientItems[c] \cap (IF all THEN Items ELSE Head(osQ).items)
          IN /\ clientItems' = Trimmed(clientItems, {c}, items)
             /\ itemClients' = Trimmed(itemClients, items, {c})
             /\ updaters' = updaters
    BY DEF HandleUnsubscribe
  <1> DEFINE c == Head(osQ).client
             items == clientItems[c] \cap (IF all THEN Items ELSE Head(osQ).items)
  <1>2. /\ clientItems' = Trimmed(clientItems, {c}, items)
        /\ itemClients' = Trimmed(itemClients, items, {c})
        /\ updaters' = updaters
    BY <1>1
  <1> HIDE DEF c, items
  <1>3. DOMAIN clientItems = Watchers /\ DOMAIN itemClients = Items
    BY DEF MirrorInv
  <1>4. DOMAIN clientItems' = Watchers /\ DOMAIN itemClients' = Items
    BY <1>2, <1>3 DEF Trimmed
  <1>5. ASSUME NEW d \in Watchers \ updaters, NEW i \in Items
        PROVE  d \in itemClients'[i] <=> i \in clientItems'[d]
    <2>1. d \in itemClients'[i] <=> d \in itemClients[i] /\ ~ (i \in items /\ d = c)
      BY <1>2, <1>3, TrimmedOff
    <2>2. i \in clientItems'[d] <=> i \in clientItems[d] /\ ~ (d = c /\ i \in items)
      BY <1>2, <1>3, TrimmedOff
    <2> QED BY <2>1, <2>2 DEF MirrorInv, SubscriptionsMirrored
  <1> QED BY <1>2, <1>4, <1>5 DEF MirrorInv, SubscriptionsMirrored

\* An update touches what is recorded of its client only, which no longer counts.
LEMMA UpdateMirrors ==
  ASSUME MirrorInv, HandleUpdateSubscriptionReq
  PROVE  MirrorInv'
  <1> DEFINE c == Head(osQ).client
             items == Head(osQ).items
  <1>1. /\ \E kept \in Intersections(clientItems[c], items) :
             itemClients' = Added(Trimmed(itemClients, kept, {c}), items \ kept, {c})
        /\ clientItems' = [clientItems EXCEPT ![c] = items]
        /\ updaters' = updaters \cup {c}
    BY DEF HandleUpdateSubscriptionReq
  <1> HIDE DEF c, items
  <1>2. PICK kept : itemClients' = Added(Trimmed(itemClients, kept, {c}), items \ kept, {c})
    BY <1>1
  <1>3. DOMAIN clientItems = Watchers /\ DOMAIN itemClients = Items
    BY DEF MirrorInv
  <1>4. DOMAIN clientItems' = Watchers /\ DOMAIN itemClients' = Items
    BY <1>1, <1>2, <1>3 DEF Added, Trimmed
  <1>5. ASSUME NEW d \in Watchers \ updaters', NEW i \in Items
        PROVE  d \in itemClients'[i] <=> i \in clientItems'[d]
    <2>1. d # c /\ d \in Watchers \ updaters
      BY <1>1
    <2>2. DOMAIN Trimmed(itemClients, kept, {c}) = Items
      BY <1>3 DEF Trimmed
    <2>3. d \in Trimmed(itemClients, kept, {c})[i] <=> d \in itemClients[i]
      BY <1>3, <2>1, TrimmedOff
    <2>4. d \in itemClients'[i] <=> d \in itemClients[i]
      BY <1>2, <2>1, <2>2, <2>3, AddedTo
    <2>5. clientItems'[d] = clientItems[d]
      BY <1>1, <1>3, <2>1
    <2> QED BY <2>1, <2>4, <2>5 DEF MirrorInv, SubscriptionsMirrored
  <1> QED BY <1>4, <1>5 DEF MirrorInv, SubscriptionsMirrored

\* Everything else leaves the maps alone.
LEMMA OthersMirror ==
  ASSUME MirrorInv, UNCHANGED <<clientItems, itemClients, updaters>>
  PROVE  MirrorInv'
  BY DEF MirrorInv, SubscriptionsMirrored

LEMMA ObserverMirrors ==
  ASSUME MirrorInv, Observer \/ Watcher \/ Framework \/ HandleOsObserverUpdate
  PROVE  MirrorInv'
  <1>1. CASE HandleSubscribeReq
    BY <1>1, SubscribeMirrors
  <1>2. CASE HandleUpdateSubscriptionReq
    BY <1>2, UpdateMirrors
  <1>3. CASE HandleUnsubscribe
    BY <1>3, UnsubscribeMirrors
  <1>4. CASE SetSubsObj
    BY <1>4, OthersMirror DEF SetSubsObj
  <1>5. CASE HandleNotify
    BY <1>5, OthersMirror DEF HandleNotify, mapVars
  <1>6. CASE Watcher
    BY <1>6, OthersMirror DEF Watcher, Watch, mapVars
  <1>7. CASE Framework
    BY <1>7, OthersMirror DEF Framework, SetSubscriptionObj, ItemChanges, Notify, mapVars
  <1>8. CASE HandleOsObserverUpdate
    BY <1>8, OthersMirror DEF HandleOsObserverUpdate, mapVars
  <1> QED BY <1>1, <1>2, <1>3, <1>4, <1>5, <1>6, <1>7, <1>8 DEF Observer

\* A client is recorded under an item exactly when the item is recorded under the
\* client (SystemStatusOsObserver with utils/LocUnorderedSetMap.h), as long as it
\* has not called updateSubscription, for any number of clients and items.
THEOREM MapsMirrored == OsSpec => []SubscriptionsMirrored
  <1>1. OsInit(<<>>) => MirrorInv
    BY MirrorInit
  <1>2. MirrorInv /\ [OsNext]_osVars => MirrorInv'
    BY ObserverMirrors, OthersMirror DEF OsNext, osVars, mapVars
  <1>3. MirrorInv => SubscriptionsMirrored
    BY DEF MirrorInv
  <1> QED BY <1>1, <1>2, <1>3, PTL DEF OsSpec

-----------------------------------------------------------------------------
(* The source of corrections *)

Wanted == sessions.time > 0 /\ enabledCmd /\ ready

\* The flags of the adapter, what is kept for restarts and what the daemon runs.
StartedIsWanted == started => Wanted /\ saved = params
SavedIsStarted  == ~ superseded => saved = IF started THEN params ELSE NoSource
WantedIsStarted == ~ started /\ ~ orphaned => ~ Wanted
RunsSaved ==
  daemon.up => /\ daemon.source \in {saved, NoSource}
               /\ daemon.informed => daemon.source = saved

SourceInv ==
  /\ DOMAIN daemon = {"up", "view", "source", "informed"}
  /\ sessions \in [{"time", "dist"} -> Nat]
  /\ StartedIsWanted /\ SavedIsStarted /\ WantedIsStarted /\ RunsSaved

LEMMA SourceInit == XtraInit => SourceInv
  <1> SUFFICES ASSUME XtraInit PROVE SourceInv
    OBVIOUS
  <1>1. sessions = [time |-> 0, dist |-> 0] /\ started = FALSE /\ enabledCmd = FALSE
    BY DEF XtraInit
  <1>2. sessions \in [{"time", "dist"} -> Nat]
    BY <1>1
  <1>3. saved = NoSource /\ daemon.up = FALSE
    BY DEF XtraInit
  <1>4. DOMAIN daemon = {"up", "view", "source", "informed"}
    BY DEF XtraInit
  <1> QED
    BY <1>1, <1>2, <1>3, <1>4
    DEF SourceInv, StartedIsWanted, SavedIsStarted, WantedIsStarted, RunsSaved, Wanted

LEMMA DaemonRuns ==
  ASSUME NEW source, DOMAIN daemon = {"up", "view", "source", "informed"}, Runs(source)
  PROVE  /\ DOMAIN daemon' = {"up", "view", "source", "informed"}
         /\ daemon'.up = daemon.up
         /\ daemon.up => daemon'.source = source
  BY DEF Runs

\* The check either starts the source or finds that it must not run yet.
LEMMA Checked ==
  ASSUME SourceInv, NEW p, NEW enable, NEW go, NEW begun, NEW over,
         sessions' \in [{"time", "dist"} -> Nat],
         CheckUpdate(p, enable, go, begun, sessions'.time, over),
         \* what the callers pass
         begun => sessions'.time > 0 /\ enable /\ go /\ saved = p,
         ~ over => saved = IF begun THEN p ELSE NoSource
  PROVE  SourceInv'
  <1>1. params' = p /\ (enabledCmd' <=> enable) /\ (ready' <=> go)
    BY DEF CheckUpdate
  <1>2. CASE sessions'.time > 0 /\ enable /\ go /\ ~ begun
    <2>1. started' = TRUE /\ saved' = p /\ Runs(p) /\ superseded' = FALSE /\ orphaned' = FALSE
      BY <1>2 DEF CheckUpdate
    <2>2. /\ DOMAIN daemon' = {"up", "view", "source", "informed"}
          /\ daemon'.up = daemon.up /\ (daemon.up => daemon'.source = p)
      BY <2>1, DaemonRuns DEF SourceInv
    <2> QED
      BY <1>1, <1>2, <2>1, <2>2
      DEF SourceInv, StartedIsWanted, SavedIsStarted, WantedIsStarted, RunsSaved, Wanted
  <1>3. CASE ~ (sessions'.time > 0 /\ enable /\ go /\ ~ begun)
    <2>1. started' = begun /\ superseded' = over /\ UNCHANGED <<saved, daemon, orphaned>>
      BY <1>3 DEF CheckUpdate
    <2>2. StartedIsWanted' /\ SavedIsStarted'
      BY <1>1, <2>1 DEF StartedIsWanted, SavedIsStarted, Wanted
    <2>3. WantedIsStarted'
      BY <1>1, <1>3, <2>1 DEF WantedIsStarted, Wanted
    <2>4. RunsSaved'
      BY <2>1 DEF SourceInv, RunsSaved
    <2> QED BY <2>1, <2>2, <2>3, <2>4 DEF SourceInv
  <1> QED BY <1>2, <1>3

\* What neither the flags nor the daemon's source depend on.
LEMMA SourceKept ==
  ASSUME SourceInv,
         UNCHANGED <<saved, params, enabledCmd, ready, started, sessions, superseded, orphaned>>,
         DOMAIN daemon' = {"up", "view", "source", "informed"},
         RunsSaved'
  PROVE  SourceInv'
  BY DEF SourceInv, StartedIsWanted, SavedIsStarted, WantedIsStarted, Wanted

\* A source that is stopped is neither kept nor run.
LEMMA Stopped ==
  ASSUME SourceInv, Stop
  PROVE  /\ ~ started'
         /\ ~ superseded => saved' = NoSource
         /\ RunsSaved'
         /\ DOMAIN daemon' = {"up", "view", "source", "informed"}
  <1>1. CASE started
    <2>1. started' = FALSE /\ saved' = NoSource /\ Runs(NoSource)
      BY <1>1 DEF Stop
    <2>2. /\ DOMAIN daemon' = {"up", "view", "source", "informed"}
          /\ daemon'.up = daemon.up /\ (daemon.up => daemon'.source = NoSource)
      BY <2>1, DaemonRuns DEF SourceInv
    <2> QED BY <2>1, <2>2 DEF RunsSaved
  <1>2. CASE ~ started
    <2>1. UNCHANGED <<started, saved, daemon>>
      BY <1>2 DEF Stop
    <2> QED BY <1>2, <2>1 DEF SourceInv, SavedIsStarted, RunsSaved
  <1> QED BY <1>1, <1>2

LEMMA SourceStep == SourceInv /\ [XtraNext]_xtraVars => SourceInv'
  <1> SUFFICES ASSUME SourceInv, [XtraNext]_xtraVars PROVE SourceInv'
    OBVIOUS
  <1>0. /\ DOMAIN daemon = {"up", "view", "source", "informed"} /\ RunsSaved
        /\ sessions \in [{"time", "dist"} -> Nat]
    BY DEF SourceInv
  <1>1. ASSUME UNCHANGED dgnssVars, UNCHANGED daemon PROVE SourceInv'
    BY <1>0, <1>1, SourceKept DEF dgnssVars, RunsSaved
  <1>2. CASE UNCHANGED xtraVars
    BY <1>1, <1>2 DEF xtraVars, ntripVars, daemonVars
  <1>3. CASE DaemonStarts
    BY <1>0, <1>3, SourceKept DEF DaemonStarts, ntripVars, dgnssVars, RunsSaved
  <1>4. CASE DaemonDies
    BY <1>0, <1>4, SourceKept DEF DaemonDies, ntripVars, dgnssVars, RunsSaved
  <1>5. CASE RequestStatus
    BY <1>1, <1>5 DEF RequestStatus, ntripVars
  <1>6. CASE HandleStatusRequest
    <2> DEFINE view   == IF Head(osQ).updated THEN daemon.view ELSE heard[xtra]
               source == IF saved = NoSource THEN daemon.source ELSE saved
               told   == daemon.informed \/ ~ Head(osQ).updated
    <2>1. /\ daemon' = IF daemon.up
                         THEN [up |-> TRUE, view |-> view, source |-> source, informed |-> told]
                         ELSE daemon
          /\ UNCHANGED dgnssVars
      BY <1>6 DEF HandleStatusRequest
    <2>2. daemon.up => source = saved
      BY <1>0 DEF RunsSaved
    <2> HIDE DEF view, source, told
    <2>3. DOMAIN daemon' = {"up", "view", "source", "informed"}
      BY <1>0, <2>1
    <2>4. RunsSaved'
      BY <1>0, <2>1, <2>2 DEF RunsSaved, dgnssVars
    <2> QED BY <2>1, <2>3, <2>4, SourceKept DEF dgnssVars
  <1>7. CASE HandleXtraUpdate
    <2>1. /\ daemon' = daemon \/ \E view : daemon' = [daemon EXCEPT !.view = view]
          /\ UNCHANGED dgnssVars
      BY <1>7 DEF HandleXtraUpdate, ntripVars
    <2>2. /\ DOMAIN daemon' = {"up", "view", "source", "informed"} /\ daemon'.up = daemon.up
          /\ daemon'.source = daemon.source /\ daemon'.informed = daemon.informed
      BY <1>0, <2>1
    <2> QED BY <1>0, <2>1, <2>2, SourceKept DEF RunsSaved, dgnssVars
  <1>8. CASE \E k \in {"enableNtrip", "disableNtrip"} : Ntrip(k)
    BY <1>1, <1>8 DEF Ntrip, daemonVars
  <1>9. CASE UpdateNtripGGAConsent
    BY <1>1, <1>9 DEF UpdateNtripGGAConsent, daemonVars
  <1>10. CASE HandleEnablePPENtrip
    <2>1. PICK p \in Sources :
            IF p.conn = params.conn
              THEN UNCHANGED <<dgnssVars, daemon>>
              ELSE /\ CheckUpdate(p, TRUE, ~ (consent /\ p.nmea), FALSE, sessions.time,
                                  superseded \/ started)
                   /\ UNCHANGED sessions
      BY <1>10 DEF HandleEnablePPENtrip
    <2>2. CASE p.conn = params.conn
      BY <1>1, <2>1, <2>2
    <2>3. CASE p.conn # params.conn
      <3>1. CheckUpdate(p, TRUE, ~ (consent /\ p.nmea), FALSE, sessions'.time, superseded \/ started)
            /\ sessions' = sessions
        BY <2>1, <2>3
      <3>2. ~ (superseded \/ started) => saved = NoSource
        BY DEF SourceInv, SavedIsStarted
      <3> QED BY <1>0, <3>1, <3>2, Checked
    <2> QED BY <2>2, <2>3
  <1>11. CASE HandleDisablePPENtrip
    <2>1. /\ Stop /\ enabledCmd' = FALSE
          /\ sessions' = sessions /\ superseded' = superseded
      BY <1>11 DEF HandleDisablePPENtrip
    <2> QED
      BY <1>0, <2>1, Stopped
      DEF SourceInv, StartedIsWanted, SavedIsStarted, WantedIsStarted, Wanted
  <1>12. CASE SaveTrackingSession
    <2>1. PICK kind \in {"time", "dist"}, new \in 0 .. 1 :
            /\ sessions' = [sessions EXCEPT ![kind] = @ + new]
            /\ CheckUpdate(params, enabledCmd, ready, started, sessions'.time, superseded)
      BY <1>12 DEF SaveTrackingSession
    <2>2. sessions' \in [{"time", "dist"} -> Nat] /\ (sessions.time > 0 => sessions'.time > 0)
      BY <1>0, <2>1
    <2> QED BY <2>1, <2>2, Checked DEF SourceInv, StartedIsWanted, SavedIsStarted, Wanted
  <1>13. CASE EraseTrackingSession
    <2>1. PICK kind \in {"time", "dist"}, old \in 0 .. 1 :
            /\ sessions[kind] >= old /\ sessions' = [sessions EXCEPT ![kind] = @ - old]
            /\ (ready' => ready) /\ Stop
            /\ orphaned' = (sessions'.time > 0 /\ (orphaned \/ started))
            /\ UNCHANGED <<params, enabledCmd, superseded>>
      BY <1>13 DEF EraseTrackingSession
    <2>2. sessions' \in [{"time", "dist"} -> Nat] /\ (sessions'.time > 0 => sessions.time > 0)
      BY <1>0, <2>1
    <2>3. WantedIsStarted'
      BY <2>1, <2>2 DEF SourceInv, WantedIsStarted, Wanted
    <2>4. /\ ~ started' /\ (~ superseded => saved' = NoSource) /\ RunsSaved'
          /\ DOMAIN daemon' = {"up", "view", "source", "informed"}
      BY <2>1, Stopped
    <2>5. StartedIsWanted' /\ SavedIsStarted'
      BY <2>1, <2>4 DEF StartedIsWanted, SavedIsStarted
    <2> QED BY <2>2, <2>3, <2>4, <2>5 DEF SourceInv
  <1>14. CASE ReportGGA
    <2>0. PICK go : go = TRUE
      OBVIOUS
    <2>1. /\ CheckUpdate(params, enabledCmd, go, started, sessions'.time, superseded)
          /\ sessions' = sessions
      BY <1>14, <2>0 DEF ReportGGA
    <2>2. started => sessions'.time > 0 /\ enabledCmd /\ go /\ saved = params
      BY <2>0, <2>1 DEF SourceInv, StartedIsWanted, Wanted
    <2>3. ~ superseded => saved = IF started THEN params ELSE NoSource
      BY DEF SourceInv, SavedIsStarted
    <2>4. sessions' \in [{"time", "dist"} -> Nat]
      BY <1>0, <2>1
    <2> QED BY <2>1, <2>2, <2>3, <2>4, Checked
  <1>15. CASE (Watcher \/ Framework \/ Observer) /\ UNCHANGED <<reqReceived, ntripVars, daemonVars>>
    BY <1>1, <1>15 DEF ntripVars, daemonVars
  <1> QED
    BY <1>2, <1>3, <1>4, <1>5, <1>6, <1>7, <1>8, <1>9, <1>10, <1>11, <1>12, <1>13, <1>14, <1>15
    DEF XtraNext, Corrections, Daemon, Observing, Reporting

\* The daemon runs the source asked for last while a time based session is there
\* and the position it needs is known, and none otherwise, over any number of
\* restarts of the daemon (checkUpdateDgnssNtrip, stopDgnssNtrip,
\* restartDgnssSource), outside of the two cases that SourceFollows names.
THEOREM SourceIsFollowed == XtraSpec => []SourceFollows
  <1>1. SourceInv => SourceFollows
    BY DEF SourceInv, StartedIsWanted, SavedIsStarted, WantedIsStarted, RunsSaved, Wanted,
           SourceFollows
  <1> QED BY <1>1, SourceInit, SourceStep, PTL DEF XtraSpec

\* The same with the XTRA observer among the clients.
THEOREM MapsMirroredWithXtra == XtraSpec => []SubscriptionsMirrored
  <1>1. XtraInit => MirrorInv
    BY MirrorInit DEF XtraInit
  <1>2. MirrorInv /\ [XtraNext]_xtraVars => MirrorInv'
    <2> SUFFICES ASSUME MirrorInv, [XtraNext]_xtraVars PROVE MirrorInv'
      OBVIOUS
    <2>1. CASE Watcher \/ Framework \/ Observer \/ HandleXtraUpdate
      BY <2>1, ObserverMirrors DEF HandleXtraUpdate
    <2>2. ASSUME UNCHANGED mapVars PROVE MirrorInv'
      BY <2>2, OthersMirror DEF mapVars
    <2>3. CASE UNCHANGED xtraVars
      BY <2>2, <2>3 DEF xtraVars, osVars
    <2>4. CASE Daemon
      BY <2>2, <2>4 DEF Daemon, DaemonStarts, DaemonDies, RequestStatus, HandleStatusRequest, Rest,
              osVars
    <2>5. CASE Corrections
      BY <2>2, <2>5
      DEF Corrections, Ntrip, UpdateNtripGGAConsent, HandleEnablePPENtrip, HandleDisablePPENtrip,
          SaveTrackingSession, EraseTrackingSession, ReportGGA, Event, Rest, osVars
    <2> QED BY <2>1, <2>3, <2>4, <2>5 DEF XtraNext, Observing, Reporting
  <1>3. MirrorInv => SubscriptionsMirrored
    BY DEF MirrorInv
  <1> QED BY <1>1, <1>2, <1>3, PTL DEF XtraSpec

-----------------------------------------------------------------------------
(* What is on its way *)

News == UNION {[items -> Values] : items \in SUBSET Items}

Messages ==
  {m \in [k : Kinds, client : Watchers, items : SUBSET Items] :
     m.k = "update" => m.client \in Callers}
  \cup [k : {"notify"}, news : News]
  \cup [k : {"told"}, client : Watchers, news : News]
  \cup [k : {"attach", "enableNtrip", "disableNtrip"}]
  \cup [k : {"status"}, updated : BOOLEAN]

\* Does a message bring item i to the cache, or to a watcher?
Brings(m, i)    == m.k = "notify" /\ i \in DOMAIN m.news
Tells(m, c, i)  == m.k = "told" /\ m.client = c /\ i \in DOMAIN m.news

\* The value that a message of such a set will leave behind is v, old if there is none.
Leaves(q, at, i, old, v) ==
  \/ at = {} /\ old = v
  \/ \E p \in at : q[p].news[i] = v /\ \A r \in at : r <= p

Bringing(q, i)   == {p \in 1 .. Len(q) : Brings(q[p], i)}
Telling(q, c, i) == {p \in 1 .. Len(q) : Tells(q[p], c, i)}

ObserverTypes ==
  /\ osQ \in Seq(Messages)
  /\ attached \in BOOLEAN
  /\ clientItems \in [Watchers -> SUBSET Items] /\ itemClients \in [Items -> SUBSET Watchers]
  /\ cache \in [Items -> Values \cup {NoValue}]
  /\ heard \in [Watchers -> [Items -> Values \cup {NoValue}]]
  /\ world \in [Items -> Values]
  /\ asked \subseteq Items /\ due \subseteq Items /\ requested \subseteq Items
  /\ updaters \subseteq Callers

\* The framework reports what it was asked for, of which the cache will have the
\* present value, and the clients of an item will have what is in the cache.
ItemsAsked ==
  attached => \A i \in Items : itemClients[i] # {} => i \in asked \cup requested
CacheFollows ==
  \A i \in asked \ due : Leaves(osQ, Bringing(osQ, i), i, cache[i], world[i])
ClientsFollow ==
  \A c \in Watchers \ updaters : \A i \in clientItems[c] :
    cache[i] # NoValue => Leaves(osQ, Telling(osQ, c, i), i, heard[c][i], cache[i])

InformedInv ==
  ObserverTypes /\ SubscriptionsMirrored /\ ItemsAsked /\ CacheFollows /\ ClientsFollow

DaemonFollows == daemon.up /\ daemon.informed => reqReceived /\ daemon.view = heard[xtra]

-----------------------------------------------------------------------------
(* Queues *)

\* A finite set made a sequence has all its members in it, and nothing else.
LEMMA SetToSeqRange ==
  ASSUME NEW S, IsFiniteSet(S)
  PROVE  /\ SetToSeq(S) \in Seq(S)
         /\ \A x \in S : \E p \in 1 .. Len(SetToSeq(S)) : SetToSeq(S)[p] = x
         /\ \A p, r \in 1 .. Len(SetToSeq(S)) : SetToSeq(S)[p] = SetToSeq(S)[r] => p = r
  <1> DEFINE n == Cardinality(S)
             f == SetToSeq(S)
  <1>1. n \in Nat /\ ExistsBijection(1 .. n, S)
    BY FS_CardinalityType
  <1>2. PICK g : g \in Bijection(1 .. n, S)
    BY <1>1 DEF ExistsBijection
  <1>3. g \in [1 .. n -> S] /\ IsInjective(g)
    BY <1>2 DEF Bijection, Injection, IsInjective
  <1>4. f \in [1 .. n -> S] /\ IsInjective(f)
    BY <1>3 DEF SetToSeq
  <1>5. f \in Injection(1 .. n, S)
    BY <1>4 DEF Injection, IsInjective
  <1>6. IsFiniteSet(1 .. n) /\ Cardinality(1 .. n) = n
    BY <1>1, FS_Interval
  <1> HIDE DEF n, f
  <1>7. f \in Surjection(1 .. n, S)
    BY <1>5, <1>6, FS_Injection DEF n
  <1>8. f \in Seq(S) /\ Len(f) = n
    BY <1>1, <1>4
  <1>9. \A x \in S : \E p \in 1 .. n : f[p] = x
    BY <1>7 DEF Surjection
  <1> QED BY <1>4, <1>8, <1>9 DEF f, IsInjective

\* The message at the head is handled, and others are posted.
LEMMA Handled ==
  ASSUME NEW S, NEW q \in Seq(S), q # <<>>, NEW s \in Seq(S)
  PROVE  LET new == Tail(q) \o s
         IN /\ Len(q) \in Nat \ {0} /\ Len(s) \in Nat /\ Head(q) = q[1] /\ Head(q) \in S
            /\ new \in Seq(S) /\ Len(new) = Len(q) - 1 + Len(s)
            /\ \A p \in 1 .. Len(q) - 1 : new[p] = q[p + 1]
            /\ \A p \in 1 .. Len(s) : new[Len(q) - 1 + p] = s[p]
  <1>1. Len(q) \in Nat \ {0} /\ Len(s) \in Nat /\ Head(q) = q[1] /\ Head(q) \in S
    OBVIOUS
  <1>2. Tail(q) \in Seq(S) /\ Len(Tail(q)) = Len(q) - 1
        /\ \A p \in 1 .. Len(q) - 1 : Tail(q)[p] = q[p + 1]
    BY HeadTailProperties
  <1>3. /\ Tail(q) \o s \in Seq(S) /\ Len(Tail(q) \o s) = Len(q) - 1 + Len(s)
        /\ \A p \in 1 .. Len(q) - 1 + Len(s) :
             (Tail(q) \o s)[p] = IF p <= Len(q) - 1 THEN Tail(q)[p] ELSE s[p - (Len(q) - 1)]
    BY <1>2, ConcatProperties
  <1> QED BY <1>1, <1>2, <1>3

\* What the head has left behind, the rest of the queue builds on.
LEMMA LeavesAfter ==
  ASSUME NEW S, NEW q \in Seq(S), q # <<>>, NEW s \in Seq(S),
         NEW at \in SUBSET (1 .. Len(q)), NEW i, NEW old, NEW v,
         Leaves(q, at, i, old, v)
  PROVE  LET new == {p \in 1 .. Len(q) - 1 : p + 1 \in at}
         IN Leaves(Tail(q) \o s, new, i, IF 1 \in at THEN Head(q).news[i] ELSE old, v)
  <1> DEFINE all == Tail(q) \o s
             new == {p \in 1 .. Len(q) - 1 : p + 1 \in at}
             now == IF 1 \in at THEN Head(q).news[i] ELSE old
  <1>1. /\ Len(q) \in Nat \ {0} /\ Head(q) = q[1]
        /\ \A p \in 1 .. Len(q) - 1 : all[p] = q[p + 1]
    BY Handled
  <1> HIDE DEF all
  <1>2. CASE at = {}
    BY <1>2 DEF Leaves
  <1>3. CASE at # {}
    <2>1. PICK p \in at : q[p].news[i] = v /\ \A r \in at : r <= p
      BY <1>3 DEF Leaves
    <2>2. CASE p = 1
      <3>1. new = {} /\ now = v
        BY <1>1, <2>1, <2>2
      <3> QED BY <3>1 DEF Leaves
    <2>3. CASE p # 1
      <3>1. p - 1 \in new /\ all[p - 1].news[i] = v
        BY <1>1, <2>1, <2>3
      <3>2. \A r \in new : r <= p - 1
        BY <1>1, <2>1
      <3> QED BY <3>1, <3>2 DEF Leaves
    <2> QED BY <2>2, <2>3
  <1> QED BY <1>2, <1>3 DEF all

LEMMA BringingAfter ==
  ASSUME NEW q \in Seq(Messages), q # <<>>, NEW s \in Seq(Messages),
         NEW i, NEW old, NEW v, Leaves(q, Bringing(q, i), i, old, v),
         \A p \in 1 .. Len(s) : ~ Brings(s[p], i)
  PROVE  Leaves(Tail(q) \o s, Bringing(Tail(q) \o s, i), i,
                IF Brings(Head(q), i) THEN Head(q).news[i] ELSE old, v)
  <1> DEFINE all == Tail(q) \o s
             new == {p \in 1 .. Len(q) - 1 : p + 1 \in Bringing(q, i)}
  <1>1. /\ Len(q) \in Nat \ {0} /\ Len(s) \in Nat /\ Head(q) = q[1]
        /\ Len(all) = Len(q) - 1 + Len(s)
        /\ \A p \in 1 .. Len(q) - 1 : all[p] = q[p + 1]
        /\ \A p \in 1 .. Len(s) : all[Len(q) - 1 + p] = s[p]
    BY Handled
  <1>2. Leaves(all, new, i, IF 1 \in Bringing(q, i) THEN Head(q).news[i] ELSE old, v)
    <2>1. Bringing(q, i) \in SUBSET (1 .. Len(q))
      BY DEF Bringing
    <2> QED BY <2>1, LeavesAfter
  <1> HIDE DEF all
  <1>3. \A p \in 1 .. Len(q) - 1 + Len(s) : Brings(all[p], i) => p <= Len(q) - 1
    <2> SUFFICES ASSUME NEW p \in 1 .. Len(q) - 1 + Len(s), Brings(all[p], i), p > Len(q) - 1
                 PROVE  FALSE
      BY <1>1
    <2>1. p - (Len(q) - 1) \in 1 .. Len(s) /\ all[p] = s[p - (Len(q) - 1)]
      BY <1>1
    <2> QED BY <2>1
  <1>4. Bringing(all, i) = new
    <2>1. ASSUME NEW p PROVE p \in Bringing(all, i) <=> p \in 1 .. Len(q) - 1 /\ Brings(all[p], i)
      BY <1>1, <1>3 DEF Bringing
    <2>2. ASSUME NEW p \in 1 .. Len(q) - 1 PROVE Brings(all[p], i) <=> p + 1 \in Bringing(q, i)
      BY <1>1 DEF Bringing
    <2> QED BY <2>1, <2>2
  <1>5. 1 \in Bringing(q, i) <=> Brings(Head(q), i)
    BY <1>1 DEF Bringing
  <1> QED BY <1>2, <1>4, <1>5 DEF all

LEMMA TellingAfter ==
  ASSUME NEW q \in Seq(Messages), q # <<>>, NEW s \in Seq(Messages),
         NEW c, NEW i, NEW old, NEW v, Leaves(q, Telling(q, c, i), i, old, v),
         \A p \in 1 .. Len(s) : ~ Tells(s[p], c, i)
  PROVE  Leaves(Tail(q) \o s, Telling(Tail(q) \o s, c, i), i,
                IF Tells(Head(q), c, i) THEN Head(q).news[i] ELSE old, v)
  <1> DEFINE all == Tail(q) \o s
             new == {p \in 1 .. Len(q) - 1 : p + 1 \in Telling(q, c, i)}
  <1>1. /\ Len(q) \in Nat \ {0} /\ Len(s) \in Nat /\ Head(q) = q[1]
        /\ Len(all) = Len(q) - 1 + Len(s)
        /\ \A p \in 1 .. Len(q) - 1 : all[p] = q[p + 1]
        /\ \A p \in 1 .. Len(s) : all[Len(q) - 1 + p] = s[p]
    BY Handled
  <1>2. Leaves(all, new, i, IF 1 \in Telling(q, c, i) THEN Head(q).news[i] ELSE old, v)
    <2>1. Telling(q, c, i) \in SUBSET (1 .. Len(q))
      BY DEF Telling
    <2> QED BY <2>1, LeavesAfter
  <1> HIDE DEF all
  <1>3. \A p \in 1 .. Len(q) - 1 + Len(s) : Tells(all[p], c, i) => p <= Len(q) - 1
    <2> SUFFICES ASSUME NEW p \in 1 .. Len(q) - 1 + Len(s), Tells(all[p], c, i), p > Len(q) - 1
                 PROVE  FALSE
      BY <1>1
    <2>1. p - (Len(q) - 1) \in 1 .. Len(s) /\ all[p] = s[p - (Len(q) - 1)]
      BY <1>1
    <2> QED BY <2>1
  <1>4. Telling(all, c, i) = new
    <2>1. ASSUME NEW p PROVE p \in Telling(all, c, i) <=> p \in 1 .. Len(q) - 1 /\ Tells(all[p], c, i)
      BY <1>1, <1>3 DEF Telling
    <2>2. ASSUME NEW p \in 1 .. Len(q) - 1 PROVE Tells(all[p], c, i) <=> p + 1 \in Telling(q, c, i)
      BY <1>1 DEF Telling
    <2> QED BY <2>1, <2>2
  <1>5. 1 \in Telling(q, c, i) <=> Tells(Head(q), c, i)
    BY <1>1 DEF Telling
  <1> QED BY <1>2, <1>4, <1>5 DEF all

\* A watcher that one of the new messages tells will have what that one says.
LEMMA TellingLast ==
  ASSUME NEW q \in Seq(Messages), q # <<>>, NEW s \in Seq(Messages),
         NEW c, NEW i, NEW old, NEW p \in 1 .. Len(s), Tells(s[p], c, i),
         \A r \in 1 .. Len(s) : Tells(s[r], c, i) => r = p
  PROVE  Leaves(Tail(q) \o s, Telling(Tail(q) \o s, c, i), i, old, s[p].news[i])
  <1> DEFINE all == Tail(q) \o s
  <1>1. /\ Len(q) \in Nat \ {0} /\ Len(s) \in Nat
        /\ Len(all) = Len(q) - 1 + Len(s)
        /\ \A r \in 1 .. Len(s) : all[Len(q) - 1 + r] = s[r]
    BY Handled
  <1> HIDE DEF all
  <1>2. Len(q) - 1 + p \in Telling(all, c, i) /\ all[Len(q) - 1 + p] = s[p]
    BY <1>1 DEF Telling
  <1>3. ASSUME NEW r \in Telling(all, c, i) PROVE r <= Len(q) - 1 + p
    <2>1. r \in 1 .. Len(q) - 1 + Len(s) /\ Tells(all[r], c, i)
      BY <1>1 DEF Telling
    <2>2. SUFFICES ASSUME r > Len(q) - 1 + p PROVE FALSE
      BY <1>1, <2>1
    <2>3. r - (Len(q) - 1) \in 1 .. Len(s) /\ all[r] = s[r - (Len(q) - 1)]
      BY <1>1, <2>1, <2>2
    <2> QED BY <1>1, <2>1, <2>2, <2>3
  <1> QED BY <1>2, <1>3 DEF Leaves, all

\* Posting a message is no different.
LEMMA Posted ==
  ASSUME NEW q \in Seq(Messages), NEW m \in Messages
  PROVE  /\ Append(q, m) \in Seq(Messages) /\ Len(Append(q, m)) = Len(q) + 1 /\ Len(q) \in Nat
         /\ \A p \in 1 .. Len(q) : Append(q, m)[p] = q[p]
         /\ Append(q, m)[Len(q) + 1] = m
  OBVIOUS

LEMMA StillLeaves ==
  ASSUME NEW q \in Seq(Messages), NEW m \in Messages,
         NEW at \in SUBSET (1 .. Len(q)), NEW i, NEW old, NEW v, Leaves(q, at, i, old, v)
  PROVE  Leaves(Append(q, m), at, i, old, v)
  <1>1. CASE at = {}
    BY <1>1 DEF Leaves
  <1>2. CASE at # {}
    <2>1. PICK p \in at : q[p].news[i] = v /\ \A r \in at : r <= p
      BY <1>2 DEF Leaves
    <2>2. Append(q, m)[p] = q[p]
      BY Posted
    <2> QED BY <2>1, <2>2 DEF Leaves
  <1> QED BY <1>1, <1>2

\* A message that brings and tells nothing.
LEMMA QuietPost ==
  ASSUME NEW q \in Seq(Messages), NEW m \in Messages, m.k \notin {"notify", "told"}
  PROVE  /\ \A i : Bringing(Append(q, m), i) = Bringing(q, i)
         /\ \A c, i : Telling(Append(q, m), c, i) = Telling(q, c, i)
  <1> DEFINE all == Append(q, m)
  <1>1. /\ Len(all) = Len(q) + 1 /\ Len(q) \in Nat
        /\ \A p \in 1 .. Len(q) : all[p] = q[p]
        /\ all[Len(q) + 1] = m
    BY Posted
  <1>2. 1 .. Len(all) = (1 .. Len(q)) \cup {Len(q) + 1}
    BY <1>1
  <1> HIDE DEF all
  <1>3. ASSUME NEW i PROVE Bringing(all, i) = Bringing(q, i)
    BY <1>1, <1>2 DEF Bringing, Brings
  <1>4. ASSUME NEW c, NEW i PROVE Telling(all, c, i) = Telling(q, c, i)
    BY <1>1, <1>2 DEF Telling, Tells
  <1> QED BY <1>3, <1>4 DEF all

-----------------------------------------------------------------------------
(* What a step leaves as it was *)

LEMMA NothingPosted ==
  ASSUME NEW q \in Seq(Messages), q # <<>>
  PROVE  /\ Tail(q) \in Seq(Messages) /\ Head(q) \in Messages
         /\ \E s \in Seq(Messages) : Tail(q) = Tail(q) \o s /\ \A p \in 1 .. Len(s) : FALSE
  <1>1. Tail(q) \in Seq(Messages) /\ Head(q) \in Messages
    BY HeadTailProperties
  <1>2. Tail(q) = Tail(q) \o <<>> /\ <<>> \in Seq(Messages) /\ Len(<<>>) = 0
    BY <1>1, ConcatEmptySeq, EmptySeq
  <1>3. \A p \in 1 .. Len(<<>>) : FALSE
    BY <1>2
  <1> QED BY <1>1, <1>2, <1>3

LEMMA CacheStays ==
  ASSUME ObserverTypes, CacheFollows, osQ # <<>>, Head(osQ).k # "notify",
         NEW s \in Seq(Messages), \A p \in 1 .. Len(s) : s[p].k # "notify",
         osQ' = Tail(osQ) \o s, cache' = cache,
         NEW i \in asked \ due, world'[i] = world[i]
  PROVE  Leaves(osQ', Bringing(osQ', i), i, cache'[i], world'[i])
  <1>1. osQ \in Seq(Messages)
    BY DEF ObserverTypes
  <1>2. Leaves(osQ, Bringing(osQ, i), i, cache[i], world[i])
    BY DEF CacheFollows
  <1>3. ~ Brings(Head(osQ), i) /\ \A p \in 1 .. Len(s) : ~ Brings(s[p], i)
    BY DEF Brings
  <1> QED BY <1>1, <1>2, <1>3, BringingAfter

LEMMA ClientStays ==
  ASSUME ObserverTypes, ClientsFollow, osQ # <<>>, Head(osQ).k # "told",
         NEW c \in Watchers \ updaters, NEW i \in clientItems[c],
         NEW s \in Seq(Messages), \A p \in 1 .. Len(s) : ~ Tells(s[p], c, i),
         osQ' = Tail(osQ) \o s, cache'[i] = cache[i], cache[i] # NoValue, heard' = heard
  PROVE  Leaves(osQ', Telling(osQ', c, i), i, heard'[c][i], cache'[i])
  <1>1. osQ \in Seq(Messages)
    BY DEF ObserverTypes
  <1>2. Leaves(osQ, Telling(osQ, c, i), i, heard[c][i], cache[i])
    BY DEF ClientsFollow
  <1>3. ~ Tells(Head(osQ), c, i)
    BY DEF Tells
  <1> QED BY <1>1, <1>2, <1>3, TellingAfter

\* Messages that neither bring nor tell anything come and go.
LEMMA PostKeeps ==
  ASSUME InformedInv, NEW m \in Messages, m.k \notin {"notify", "told"},
         osQ' = Append(osQ, m), UNCHANGED <<attached, mapVars, cache, heard, frameworkVars>>
  PROVE  InformedInv'
  <1>1. osQ \in Seq(Messages)
    BY DEF InformedInv, ObserverTypes
  <1>2. osQ' \in Seq(Messages)
    BY <1>1, Posted
  <1>3. ObserverTypes' /\ SubscriptionsMirrored' /\ ItemsAsked'
    BY <1>2 DEF InformedInv, ObserverTypes, SubscriptionsMirrored, ItemsAsked, mapVars, frameworkVars
  <1>4. ASSUME NEW at, NEW i, NEW old, NEW v, at \in SUBSET (1 .. Len(osQ)),
               Leaves(osQ, at, i, old, v)
        PROVE  Leaves(osQ', at, i, old, v)
    BY <1>1, <1>4, StillLeaves
  <1>5. /\ \A i : Bringing(osQ', i) = Bringing(osQ, i)
        /\ \A c, i : Telling(osQ', c, i) = Telling(osQ, c, i)
    BY <1>1, QuietPost
  <1>6. CacheFollows'
    <2> SUFFICES ASSUME NEW i \in asked \ due
                 PROVE  Leaves(osQ', Bringing(osQ, i), i, cache[i], world[i])
      BY <1>5 DEF CacheFollows, frameworkVars
    <2>1. Bringing(osQ, i) \in SUBSET (1 .. Len(osQ))
      BY DEF Bringing
    <2> QED BY <1>4, <2>1 DEF InformedInv, CacheFollows
  <1>7. ClientsFollow'
    <2> SUFFICES ASSUME NEW c \in Watchers \ updaters, NEW i \in clientItems[c],
                        cache[i] # NoValue
                 PROVE  Leaves(osQ', Telling(osQ, c, i), i, heard[c][i], cache[i])
      BY <1>5 DEF ClientsFollow, mapVars
    <2>1. Telling(osQ, c, i) \in SUBSET (1 .. Len(osQ))
      BY DEF Telling
    <2> QED BY <1>4, <2>1 DEF InformedInv, ClientsFollow
  <1> QED BY <1>3, <1>6, <1>7 DEF InformedInv

LEMMA TakeKeeps ==
  ASSUME InformedInv, osQ # <<>>, Head(osQ).k \notin {"notify", "told"}, osQ' = Tail(osQ),
         UNCHANGED <<attached, mapVars, cache, heard, frameworkVars>>
  PROVE  InformedInv'
  <1>1. osQ' \in Seq(Messages)
    BY NothingPosted DEF InformedInv, ObserverTypes
  <1>2. ObserverTypes' /\ SubscriptionsMirrored' /\ ItemsAsked'
    BY <1>1 DEF InformedInv, ObserverTypes, SubscriptionsMirrored, ItemsAsked, mapVars, frameworkVars
  <1>3. PICK s \in Seq(Messages) : osQ' = Tail(osQ) \o s /\ \A p \in 1 .. Len(s) : FALSE
    BY NothingPosted DEF InformedInv, ObserverTypes
  <1>4. CacheFollows'
    <2> SUFFICES ASSUME NEW i \in asked \ due
                 PROVE  Leaves(osQ', Bringing(osQ', i), i, cache'[i], world'[i])
      BY DEF CacheFollows, frameworkVars
    <2> QED BY <1>3, CacheStays DEF InformedInv, frameworkVars
  <1>5. ClientsFollow'
    <2> SUFFICES ASSUME NEW c \in Watchers \ updaters, NEW i \in clientItems[c],
                        cache[i] # NoValue
                 PROVE  Leaves(osQ', Telling(osQ', c, i), i, heard'[c][i], cache'[i])
      BY DEF ClientsFollow, mapVars
    <2> QED BY <1>3, ClientStays DEF InformedInv
  <1> QED BY <1>2, <1>4, <1>5 DEF InformedInv

\* What the framework is told to report from now on, it reports once more.
LEMMA Ordered ==
  ASSUME asked \subseteq Items, due \subseteq Items,
         NEW subscribed \in SUBSET Items, NEW wanted \in SUBSET Items, NEW dropped,
         Orders(subscribed, wanted, dropped)
  PROVE  /\ world' = world /\ asked' \subseteq Items /\ due' \subseteq Items
         /\ asked' \ due' \subseteq asked \ due
         /\ attached => asked' = (asked \cup subscribed) \ dropped
  BY DEF Orders, frameworkVars

-----------------------------------------------------------------------------
(* The handlers of subscriptions *)

LEMMA Asks ==
  ASSUME ObserverTypes, NEW k \in Kinds, Takes(k)
  PROVE  /\ osQ # <<>> /\ Head(osQ).k \notin {"notify", "told"}
         /\ Head(osQ).client \in Watchers /\ Head(osQ).items \in SUBSET Items
         /\ k = "update" => Head(osQ).client \in Callers
  <1>1. osQ # <<>> /\ Head(osQ).k = k /\ Head(osQ) \in Messages
    BY NothingPosted DEF Takes, ObserverTypes
  <1>2. k \notin {"notify", "told", "attach", "enableNtrip", "disableNtrip", "status"}
    BY DEF Kinds
  <1>3. Head(osQ) \in {m \in [k : Kinds, client : Watchers, items : SUBSET Items] :
                          m.k = "update" => m.client \in Callers}
    BY <1>1, <1>2 DEF Messages
  <1> QED BY <1>1, <1>2, <1>3

\* s tells client c the values in the cache of some of the items, and no more.
CachedFor(s, c, items) ==
  /\ s \in Seq(Messages) /\ \A p \in 1 .. Len(s) : s[p].k # "notify"
  /\ \A p \in 1 .. Len(s) : \A d, i : Tells(s[p], d, i) => p = 1 /\ d = c /\ i \in items
  /\ \A i \in items : cache[i] # NoValue =>
       1 \in 1 .. Len(s) /\ Tells(s[1], c, i) /\ s[1].news[i] = cache[i]

LEMMA CachedTells ==
  ASSUME ObserverTypes, NEW c \in Watchers, NEW items \in SUBSET Items
  PROVE  CachedFor(Cached(c, items), c, items)
  <1> DEFINE known == items \cap Item(cache)
             m == Told(c, Restrict(cache, known))
  <1>1. cache \in [Items -> Values \cup {NoValue}]
    BY DEF ObserverTypes
  <1>2. known = {i \in items : cache[i] # NoValue}
    BY <1>1 DEF Item
  <1>3. CASE known = {}
    <2>1. Cached(c, items) = <<>>
      BY <1>3 DEF Cached
    <2>2. /\ <<>> \in Seq(Messages) /\ Len(<<>>) = 0
      BY EmptySeq
    <2>3. \A p \in 1 .. Len(<<>>) : FALSE
      BY <2>2
    <2> QED BY <1>2, <1>3, <2>1, <2>2, <2>3 DEF CachedFor
  <1>4. CASE known # {}
    <2>1. Cached(c, items) = <<m>>
      BY <1>4 DEF Cached
    <2> DEFINE n == Restrict(cache, known)
    <2>2. n \in [known -> Values] /\ \A i \in known : n[i] = cache[i]
      BY <1>1, <1>2 DEF Restrict
    <2>3. known \in SUBSET Items
      BY <1>2
    <2> HIDE DEF n, known
    <2>4. n \in News /\ DOMAIN n = known
      BY <2>2, <2>3 DEF News
    <2>5. m = [k |-> "told", client |-> c, news |-> n]
      BY DEF Told, n
    <2> HIDE DEF m
    <2>6. m \in Messages /\ m.k = "told" /\ m.client = c /\ m.news = n
      BY <2>4, <2>5 DEF Messages
    <2>7. <<m>> \in Seq(Messages) /\ Len(<<m>>) = 1 /\ <<m>>[1] = m /\ 1 .. 1 = {1}
      BY <2>6
    <2>8. \A d, i : Tells(m, d, i) <=> d = c /\ i \in known
      BY <2>4, <2>6 DEF Tells
    <2> QED BY <1>2, <2>1, <2>2, <2>6, <2>7, <2>8 DEF CachedFor
  <1> QED BY <1>3, <1>4

LEMMA AttachKeeps == InformedInv /\ SetSubsObj => InformedInv'
  <1> SUFFICES ASSUME InformedInv, SetSubsObj PROVE InformedInv'
    OBVIOUS
  <1> DEFINE keys == {i \in Items : itemClients[i] # {}}
  <1>1. /\ osQ # <<>> /\ Head(osQ).k \notin {"notify", "told"} /\ osQ' = Tail(osQ)
        /\ attached' = TRUE /\ asked' = asked \cup keys /\ due' = due \cup keys /\ requested' = {}
        /\ UNCHANGED <<clientItems, itemClients, updaters, cache, heard, world>>
    BY DEF SetSubsObj, Takes, Done
  <1>2. osQ' \in Seq(Messages)
    BY <1>1, NothingPosted DEF InformedInv, ObserverTypes
  <1>3. PICK s \in Seq(Messages) : osQ' = Tail(osQ) \o s /\ \A p \in 1 .. Len(s) : FALSE
    BY <1>1, NothingPosted DEF InformedInv, ObserverTypes
  <1>4. ObserverTypes' /\ SubscriptionsMirrored' /\ ItemsAsked'
    BY <1>1, <1>2 DEF InformedInv, ObserverTypes, SubscriptionsMirrored, ItemsAsked
  <1>5. CacheFollows'
    <2> SUFFICES ASSUME NEW i \in asked' \ due'
                 PROVE  Leaves(osQ', Bringing(osQ', i), i, cache'[i], world'[i])
      BY DEF CacheFollows
    <2>1. i \in asked \ due
      BY <1>1
    <2> QED BY <1>1, <1>3, <2>1, CacheStays DEF InformedInv
  <1>6. ClientsFollow'
    <2> SUFFICES ASSUME NEW c \in Watchers \ updaters, NEW i \in clientItems[c],
                        cache[i] # NoValue
                 PROVE  Leaves(osQ', Telling(osQ', c, i), i, heard'[c][i], cache'[i])
      BY <1>1 DEF ClientsFollow
    <2> QED BY <1>1, <1>3, ClientStays DEF InformedInv
  <1> QED BY <1>4, <1>5, <1>6 DEF InformedInv

\* The three handlers give the framework orders and tell one client, or none.
LEMMA OrdersKeepCache ==
  ASSUME InformedInv, osQ # <<>>, Head(osQ).k # "notify",
         NEW c \in Watchers, NEW items \in SUBSET Items,
         osQ' = Tail(osQ) \o Cached(c, items) \/ osQ' = Tail(osQ), cache' = cache,
         NEW subscribed \in SUBSET Items, NEW wanted \in SUBSET Items, NEW dropped,
         Orders(subscribed, wanted, dropped)
  PROVE  CacheFollows' /\ osQ' \in Seq(Messages)
  <1>1. PICK s \in Seq(Messages) : /\ osQ' = Tail(osQ) \o s
                                   /\ \A p \in 1 .. Len(s) : s[p].k # "notify"
    <2>1. CASE osQ' = Tail(osQ)
      BY <2>1, NothingPosted DEF InformedInv, ObserverTypes
    <2>2. CASE osQ' = Tail(osQ) \o Cached(c, items)
      BY <2>2, CachedTells DEF InformedInv, CachedFor
    <2> QED BY <2>1, <2>2
  <1>2. osQ' \in Seq(Messages)
    BY <1>1, Handled DEF InformedInv, ObserverTypes
  <1>3. CacheFollows'
    <2> SUFFICES ASSUME NEW i \in asked' \ due'
                 PROVE  Leaves(osQ', Bringing(osQ', i), i, cache'[i], world'[i])
      BY DEF CacheFollows
    <2>1. i \in asked \ due /\ world' = world
      BY Ordered DEF InformedInv, ObserverTypes
    <2> QED BY <1>1, <2>1, CacheStays DEF InformedInv
  <1> QED BY <1>2, <1>3

LEMMA MirrorOf ==
  ASSUME ObserverTypes, SubscriptionsMirrored
  PROVE  MirrorInv
  BY DEF ObserverTypes, MirrorInv

LEMMA SubscribeKeeps == InformedInv /\ HandleSubscribeReq => InformedInv'
  <1> SUFFICES ASSUME InformedInv, HandleSubscribeReq PROVE InformedInv'
    OBVIOUS
  <1> DEFINE c     == Head(osQ).client
             items == Head(osQ).items
             new   == NewKeys(itemClients, items)
  <1>1. PICK request \in BOOLEAN :
          /\ Takes(IF request THEN "request" ELSE "subscribe")
          /\ itemClients' = Added(itemClients, items, {c})
          /\ clientItems' = Added(clientItems, {c}, items)
          /\ osQ' = Tail(osQ) \o Cached(c, items)
          /\ IF request THEN Orders({}, items, {}) ELSE Orders(new, {}, {})
          /\ requested' = IF attached /\ request THEN requested \cup new ELSE requested
          /\ UNCHANGED <<attached, updaters, cache, heard>>
    BY DEF HandleSubscribeReq
  <1>2. ObserverTypes /\ SubscriptionsMirrored
    BY DEF InformedInv
  <1>3. /\ osQ # <<>> /\ Head(osQ).k \notin {"notify", "told"}
        /\ c \in Watchers /\ items \in SUBSET Items
    <2>1. (IF request THEN "request" ELSE "subscribe") \in Kinds
      BY DEF Kinds
    <2> QED BY <1>1, <1>2, <2>1, Asks
  <1>4. new \in SUBSET Items
    BY <1>3 DEF NewKeys
  <1> HIDE DEF c, items
  <1>5. CacheFollows' /\ osQ' \in Seq(Messages)
    <2>1. CASE request
      BY <1>1, <1>3, <2>1, OrdersKeepCache
    <2>2. CASE ~ request
      <3>1. Orders(new, {}, {})
        BY <1>1, <2>2
      <3> HIDE DEF new
      <3> QED BY <1>1, <1>3, <1>4, <3>1, OrdersKeepCache
    <2> QED BY <2>1, <2>2
  <1>6. /\ world' = world /\ asked' \subseteq Items /\ due' \subseteq Items
        /\ attached => asked' = asked \cup (IF request THEN {} ELSE new)
    <2>1. asked \subseteq Items /\ due \subseteq Items
      BY <1>2 DEF ObserverTypes
    <2> HIDE DEF new
    <2>2. CASE request
      <3>1. Orders({}, items, {}) /\ items \in SUBSET Items /\ {} \in SUBSET Items
        BY <1>1, <1>3, <2>2
      <3>2. /\ world' = world /\ asked' \subseteq Items /\ due' \subseteq Items
            /\ attached => asked' = (asked \cup {}) \ {}
        BY <2>1, <3>1, Ordered
      <3> QED BY <2>2, <3>2
    <2>3. CASE ~ request
      <3>1. Orders(new, {}, {}) /\ {} \in SUBSET Items
        BY <1>1, <2>3
      <3>2. /\ world' = world /\ asked' \subseteq Items /\ due' \subseteq Items
            /\ attached => asked' = (asked \cup new) \ {}
        BY <1>4, <2>1, <3>1, Ordered
      <3> QED BY <2>3, <3>2
    <2> QED BY <2>2, <2>3
  <1>7. /\ itemClients' \in [Items -> SUBSET Watchers] /\ clientItems' \in [Watchers -> SUBSET Items]
        /\ \A i \in Items :
             itemClients'[i] = IF i \in items THEN itemClients[i] \cup {c} ELSE itemClients[i]
        /\ \A d \in Watchers :
             clientItems'[d] = IF d = c THEN clientItems[d] \cup items ELSE clientItems[d]
    BY <1>1, <1>2, <1>3 DEF Added, ObserverTypes
  <1>8. ObserverTypes'
    BY <1>1, <1>2, <1>4, <1>5, <1>6, <1>7 DEF ObserverTypes
  <1>9. SubscriptionsMirrored'
    BY <1>2, MirrorOf, SubscribeMirrors DEF MirrorInv
  <1>10. ItemsAsked'
    <2> SUFFICES ASSUME attached, NEW i \in Items, itemClients'[i] # {}
                 PROVE  i \in asked' \cup requested'
      BY <1>1 DEF ItemsAsked
    <2>1. CASE itemClients[i] # {}
      BY <1>1, <1>6, <2>1 DEF InformedInv, ItemsAsked
    <2>2. CASE itemClients[i] = {}
      <3>1. i \in new
        BY <1>7, <2>2 DEF NewKeys
      <3> QED BY <1>1, <1>6, <3>1
    <2> QED BY <2>1, <2>2
  <1>11. ClientsFollow'
    <2> SUFFICES ASSUME NEW d \in Watchers \ updaters, NEW i \in clientItems'[d], cache[i] # NoValue
                 PROVE  Leaves(osQ', Telling(osQ', d, i), i, heard[d][i], cache[i])
      BY <1>1 DEF ClientsFollow
    <2>1. osQ \in Seq(Messages)
      BY <1>2 DEF ObserverTypes
    <2> DEFINE s == Cached(c, items)
    <2>0. CachedFor(s, c, items)
      BY <1>2, <1>3, CachedTells
    <2> HIDE DEF s
    <2>2. CASE d = c /\ i \in items
      <3>1. /\ s \in Seq(Messages) /\ 1 \in 1 .. Len(s) /\ Tells(s[1], d, i) /\ s[1].news[i] = cache[i]
            /\ \A r \in 1 .. Len(s) : Tells(s[r], d, i) => r = 1
        BY <2>0, <2>2 DEF CachedFor
      <3> QED BY <1>1, <1>3, <2>1, <3>1, TellingLast DEF s
    <2>3. CASE ~ (d = c /\ i \in items)
      <3>1. i \in clientItems[d]
        BY <1>7, <2>3
      <3>2. s \in Seq(Messages) /\ \A p \in 1 .. Len(s) : ~ Tells(s[p], d, i)
        BY <2>0, <2>3 DEF CachedFor
      <3> QED BY <1>1, <1>2, <1>3, <3>1, <3>2, ClientStays DEF InformedInv, s
    <2> QED BY <2>2, <2>3
  <1> QED BY <1>5, <1>8, <1>9, <1>10, <1>11 DEF InformedInv

LEMMA UnsubscribeKeeps == InformedInv /\ HandleUnsubscribe => InformedInv'
  <1> SUFFICES ASSUME InformedInv, HandleUnsubscribe PROVE InformedInv'
    OBVIOUS
  <1>1. PICK all \in BOOLEAN :
          LET c     == Head(osQ).client
              items == clientItems[c] \cap (IF all THEN Items ELSE Head(osQ).items)
              gone  == GoneKeys(itemClients, items, {c})
          IN /\ Takes(IF all THEN "unsubscribeAll" ELSE "unsubscribe") /\ Done
             /\ clientItems' = Trimmed(clientItems, {c}, items)
             /\ itemClients' = Trimmed(itemClients, items, {c})
             /\ Orders({}, {}, gone)
             /\ requested' = requested \ gone
             /\ UNCHANGED <<attached, updaters, cache, heard>>
    BY DEF HandleUnsubscribe
  <1> DEFINE c     == Head(osQ).client
             items == clientItems[c] \cap (IF all THEN Items ELSE Head(osQ).items)
             gone  == GoneKeys(itemClients, items, {c})
  <1>2. ObserverTypes /\ SubscriptionsMirrored
    BY DEF InformedInv
  <1>3. osQ # <<>> /\ Head(osQ).k \notin {"notify", "told"} /\ c \in Watchers
    <2>1. (IF all THEN "unsubscribeAll" ELSE "unsubscribe") \in Kinds
      BY DEF Kinds
    <2> QED BY <1>1, <1>2, <2>1, Asks
  <1>4. items \in SUBSET Items
    BY <1>2, <1>3 DEF ObserverTypes
  <1>5. /\ osQ' = Tail(osQ)
        /\ clientItems' = Trimmed(clientItems, {c}, items)
        /\ itemClients' = Trimmed(itemClients, items, {c})
        /\ Orders({}, {}, gone)
        /\ requested' = requested \ gone
        /\ UNCHANGED <<attached, updaters, cache, heard>>
    BY <1>1 DEF Done
  <1>6. gone = {i \in items : itemClients[i] # {} /\ itemClients[i] \subseteq {c}}
    BY DEF GoneKeys
  <1> HIDE DEF c, items, gone
  <1>7. CacheFollows' /\ osQ' \in Seq(Messages)
    BY <1>3, <1>4, <1>5, OrdersKeepCache
  <1>8. /\ world' = world /\ asked' \subseteq Items /\ due' \subseteq Items
        /\ attached => asked' = asked \ gone
    <2>1. Orders({}, {}, gone) /\ {} \in SUBSET Items /\ asked \subseteq Items /\ due \subseteq Items
      BY <1>2, <1>5 DEF ObserverTypes
    <2>2. /\ world' = world /\ asked' \subseteq Items /\ due' \subseteq Items
          /\ attached => asked' = (asked \cup {}) \ gone
      BY <2>1, Ordered
    <2> QED BY <2>2
  <1>9. /\ itemClients' \in [Items -> SUBSET Watchers] /\ clientItems' \in [Watchers -> SUBSET Items]
        /\ \A i \in Items :
             itemClients'[i] = IF i \in items THEN itemClients[i] \ {c} ELSE itemClients[i]
        /\ \A d \in Watchers : clientItems'[d] \subseteq clientItems[d]
    BY <1>2, <1>5 DEF Trimmed, ObserverTypes
  <1>10. ObserverTypes'
    BY <1>2, <1>5, <1>7, <1>8, <1>9 DEF ObserverTypes
  <1>11. SubscriptionsMirrored'
    BY <1>2, MirrorOf, UnsubscribeMirrors DEF MirrorInv
  <1>12. ItemsAsked'
    <2> SUFFICES ASSUME attached, NEW i \in Items, itemClients'[i] # {}
                 PROVE  i \in asked' \cup requested'
      BY <1>5 DEF ItemsAsked
    <2>1. itemClients[i] # {} /\ i \notin gone
      BY <1>6, <1>9
    <2> QED BY <1>5, <1>8, <2>1 DEF InformedInv, ItemsAsked
  <1>13. ClientsFollow'
    <2> SUFFICES ASSUME NEW d \in Watchers \ updaters, NEW i \in clientItems'[d], cache[i] # NoValue
                 PROVE  Leaves(osQ', Telling(osQ', d, i), i, heard'[d][i], cache'[i])
      BY <1>5 DEF ClientsFollow
    <2>1. i \in clientItems[d]
      BY <1>9
    <2>2. PICK s \in Seq(Messages) : osQ' = Tail(osQ) \o s /\ \A p \in 1 .. Len(s) : FALSE
      BY <1>2, <1>3, <1>5, NothingPosted DEF ObserverTypes
    <2> QED BY <1>3, <1>5, <2>1, <2>2, ClientStays DEF InformedInv
  <1> QED BY <1>7, <1>10, <1>11, <1>12, <1>13 DEF InformedInv

LEMMA UpdateKeeps == InformedInv /\ HandleUpdateSubscriptionReq => InformedInv'
  <1> SUFFICES ASSUME InformedInv, HandleUpdateSubscriptionReq PROVE InformedInv'
    OBVIOUS
  <1> DEFINE c     == Head(osQ).client
             items == Head(osQ).items
  <1>1. /\ Takes("update")
        /\ clientItems' = [clientItems EXCEPT ![c] = items]
        /\ updaters' = updaters \cup {c}
        /\ UNCHANGED <<attached, cache, heard>>
    BY DEF HandleUpdateSubscriptionReq
  <1>2. PICK kept \in Intersections(clientItems[c], items) :
          LET added   == items \ kept
              trimmed == Trimmed(itemClients, kept, {c})
              gone    == GoneKeys(itemClients, kept, {c})
          IN /\ itemClients' = Added(trimmed, added, {c})
             /\ osQ' = Tail(osQ) \o Cached(c, added)
             /\ Orders(NewKeys(trimmed, added), {}, gone)
             /\ requested' = requested \ gone
    BY DEF HandleUpdateSubscriptionReq
  <1> DEFINE added   == items \ kept
             trimmed == Trimmed(itemClients, kept, {c})
             gone    == GoneKeys(itemClients, kept, {c})
             new     == NewKeys(trimmed, added)
  <1>3. ObserverTypes /\ SubscriptionsMirrored
    BY DEF InformedInv
  <1>4. /\ osQ # <<>> /\ Head(osQ).k \notin {"notify", "told"}
        /\ c \in Watchers /\ c \in Callers /\ items \in SUBSET Items
    BY <1>1, <1>3, Asks DEF Kinds
  <1>5. /\ itemClients' = Added(trimmed, added, {c})
        /\ osQ' = Tail(osQ) \o Cached(c, added)
        /\ Orders(new, {}, gone)
        /\ requested' = requested \ gone
    BY <1>2
  <1>6. kept \subseteq items
    BY <1>2 DEF Intersections
  <1>7. /\ gone = {i \in kept : itemClients[i] # {} /\ itemClients[i] \subseteq {c}}
        /\ new = {i \in added : trimmed[i] = {}}
        /\ new \in SUBSET Items /\ added \in SUBSET Items
    BY <1>4 DEF GoneKeys, NewKeys
  <1>8. /\ trimmed \in [Items -> SUBSET Watchers]
        /\ \A i \in Items : trimmed[i] = IF i \in kept THEN itemClients[i] \ {c} ELSE itemClients[i]
    BY <1>3 DEF Trimmed, ObserverTypes
  <1> HIDE DEF c, items, gone, new, trimmed
  <1>9. added \cap kept = {}
    OBVIOUS
  <1> HIDE DEF added
  <1>10. CacheFollows' /\ osQ' \in Seq(Messages)
    BY <1>1, <1>4, <1>5, <1>7, OrdersKeepCache
  <1>11. /\ world' = world /\ asked' \subseteq Items /\ due' \subseteq Items
         /\ attached => asked' = (asked \cup new) \ gone
    BY <1>3, <1>5, <1>7, Ordered DEF ObserverTypes
  <1>12. /\ itemClients' \in [Items -> SUBSET Watchers]
         /\ \A i \in Items : itemClients'[i] = IF i \in added THEN trimmed[i] \cup {c} ELSE trimmed[i]
    BY <1>4, <1>5, <1>8 DEF Added
  <1>13. /\ clientItems' \in [Watchers -> SUBSET Items]
         /\ \A d \in Watchers : d # c => clientItems'[d] = clientItems[d]
    BY <1>1, <1>3, <1>4 DEF ObserverTypes
  <1>14. ObserverTypes'
    BY <1>1, <1>3, <1>4, <1>5, <1>10, <1>11, <1>12, <1>13 DEF ObserverTypes
  <1>15. SubscriptionsMirrored'
    BY <1>3, MirrorOf, UpdateMirrors DEF MirrorInv
  <1>16. ItemsAsked'
    <2> SUFFICES ASSUME attached, NEW i \in Items, itemClients'[i] # {}
                 PROVE  i \in asked' \cup requested'
      BY <1>1 DEF ItemsAsked
    <2>1. CASE trimmed[i] # {}
      <3>1. itemClients[i] # {} /\ i \notin gone
        BY <1>7, <1>8, <2>1
      <3> QED BY <1>5, <1>11, <3>1 DEF InformedInv, ItemsAsked
    <2>2. CASE trimmed[i] = {}
      <3>1. i \in new /\ i \notin gone
        BY <1>7, <1>9, <1>12, <2>2
      <3> QED BY <1>11, <3>1
    <2> QED BY <2>1, <2>2
  <1>17. ClientsFollow'
    <2> SUFFICES ASSUME NEW d \in Watchers \ updaters', NEW i \in clientItems'[d], cache[i] # NoValue
                 PROVE  Leaves(osQ', Telling(osQ', d, i), i, heard'[d][i], cache'[i])
      BY <1>1 DEF ClientsFollow
    <2>1. d # c /\ d \in Watchers \ updaters
      BY <1>1
    <2>2. i \in clientItems[d]
      BY <1>13, <2>1
    <2> DEFINE s == Cached(c, added)
    <2>3. CachedFor(s, c, added)
      BY <1>3, <1>4, <1>7, CachedTells
    <2> HIDE DEF s
    <2>4. s \in Seq(Messages) /\ \A p \in 1 .. Len(s) : ~ Tells(s[p], d, i)
      BY <2>1, <2>3 DEF CachedFor
    <2> QED BY <1>1, <1>4, <1>5, <2>1, <2>2, <2>4, ClientStays DEF InformedInv, s
  <1> QED BY <1>10, <1>14, <1>15, <1>16, <1>17 DEF InformedInv

-----------------------------------------------------------------------------
(* Values on their way *)

LEMMA ChangeKeeps == InformedInv /\ ItemChanges => InformedInv'
  <1> SUFFICES ASSUME InformedInv, ItemChanges PROVE InformedInv'
    OBVIOUS
  <1>1. PICK i \in Items, v \in Values :
          /\ world' = [world EXCEPT ![i] = v] /\ due' = due \cup ({i} \cap asked)
          /\ UNCHANGED <<osQ, attached, mapVars, cache, heard, asked>>
    BY DEF ItemChanges
  <1>2. /\ ObserverTypes' /\ SubscriptionsMirrored' /\ ItemsAsked' /\ ClientsFollow'
    BY <1>1 DEF InformedInv, ObserverTypes, SubscriptionsMirrored, ItemsAsked, ClientsFollow, mapVars
  <1>3. CacheFollows'
    <2> SUFFICES ASSUME NEW j \in asked' \ due'
                 PROVE  Leaves(osQ', Bringing(osQ', j), j, cache'[j], world'[j])
      BY DEF CacheFollows
    <2>1. j \in asked \ due /\ j # i /\ world'[j] = world[j]
      BY <1>1 DEF InformedInv, ObserverTypes
    <2> QED BY <1>1, <2>1 DEF InformedInv, CacheFollows
  <1> QED BY <1>2, <1>3 DEF InformedInv

\* The last notice of an item has its present value.
LEMMA NoticeKeeps == InformedInv /\ Notify => InformedInv'
  <1> SUFFICES ASSUME InformedInv, Notify PROVE InformedInv'
    OBVIOUS
  <1>1. PICK items \in SUBSET due \ {{}} :
          /\ osQ' = Append(osQ, Notice(Restrict(world, items))) /\ due' = due \ items
          /\ UNCHANGED <<attached, mapVars, cache, heard, world, asked>>
    BY DEF Notify
  <1> DEFINE n == Restrict(world, items)
             m == Notice(n)
  <1>2. osQ \in Seq(Messages) /\ ObserverTypes
    BY DEF InformedInv, ObserverTypes
  <1>3. n \in [items -> Values] /\ items \in SUBSET Items /\ \A i \in items : n[i] = world[i]
    BY <1>2 DEF Restrict, ObserverTypes
  <1>4. osQ' = Append(osQ, m)
    BY <1>1
  <1> HIDE DEF n
  <1>5. n \in News /\ DOMAIN n = items
    BY <1>3 DEF News
  <1>6. m \in Messages /\ m.k = "notify" /\ m.news = n
    BY <1>5 DEF Notice, Messages
  <1> HIDE DEF m
  <1>7. /\ osQ' \in Seq(Messages) /\ Len(osQ') = Len(osQ) + 1 /\ Len(osQ) \in Nat
        /\ \A p \in 1 .. Len(osQ) : osQ'[p] = osQ[p]
        /\ osQ'[Len(osQ) + 1] = m
    BY <1>2, <1>4, <1>6, Posted
  <1>8. 1 .. Len(osQ') = (1 .. Len(osQ)) \cup {Len(osQ) + 1}
    BY <1>7
  <1>9. ObserverTypes' /\ SubscriptionsMirrored' /\ ItemsAsked'
    BY <1>1, <1>7 DEF InformedInv, ObserverTypes, SubscriptionsMirrored, ItemsAsked, mapVars
  <1>10. CacheFollows'
    <2> SUFFICES ASSUME NEW i \in asked \ due'
                 PROVE  Leaves(osQ', Bringing(osQ', i), i, cache[i], world[i])
      BY <1>1 DEF CacheFollows
    <2>1. CASE i \in items
      <3>1. Len(osQ) + 1 \in Bringing(osQ', i) /\ osQ'[Len(osQ) + 1].news[i] = world[i]
        BY <1>3, <1>5, <1>6, <1>7, <1>8, <2>1 DEF Bringing, Brings
      <3>2. \A r \in Bringing(osQ', i) : r <= Len(osQ) + 1
        BY <1>7 DEF Bringing
      <3> QED BY <3>1, <3>2 DEF Leaves
    <2>2. CASE i \notin items
      <3>1. i \in asked \ due
        BY <1>1, <2>2
      <3>2. Bringing(osQ', i) = Bringing(osQ, i)
        BY <1>5, <1>6, <1>7, <1>8, <2>2 DEF Bringing, Brings
      <3>3. Bringing(osQ, i) \in SUBSET (1 .. Len(osQ))
        BY DEF Bringing
      <3>4. Leaves(osQ, Bringing(osQ, i), i, cache[i], world[i])
        BY <3>1 DEF InformedInv, CacheFollows
      <3> QED BY <1>2, <1>4, <1>6, <3>2, <3>3, <3>4, StillLeaves
    <2> QED BY <2>1, <2>2
  <1>11. ClientsFollow'
    <2> SUFFICES ASSUME NEW c \in Watchers \ updaters, NEW i \in clientItems[c],
                        cache[i] # NoValue
                 PROVE  Leaves(osQ', Telling(osQ', c, i), i, heard[c][i], cache[i])
      BY <1>1 DEF ClientsFollow, mapVars
    <2>1. Telling(osQ', c, i) = Telling(osQ, c, i)
      BY <1>6, <1>7, <1>8 DEF Telling, Tells
    <2>2. Telling(osQ, c, i) \in SUBSET (1 .. Len(osQ))
      BY DEF Telling
    <2>3. Leaves(osQ, Telling(osQ, c, i), i, heard[c][i], cache[i])
      BY DEF InformedInv, ClientsFollow
    <2> QED BY <1>2, <1>4, <1>6, <2>1, <2>2, <2>3, StillLeaves
  <1> QED BY <1>9, <1>10, <1>11 DEF InformedInv

\* A watcher takes in what it was told, which the rest of its messages build on.
LEMMA TakenInKeeps == InformedInv /\ HandleOsObserverUpdate => InformedInv'
  <1> SUFFICES ASSUME InformedInv, HandleOsObserverUpdate PROVE InformedInv'
    OBVIOUS
  <1> DEFINE m == Head(osQ)
  <1>1. /\ osQ # <<>> /\ m.k = "told" /\ osQ' = Tail(osQ)
        /\ heard' = [heard EXCEPT ![m.client] = Updated(@, m.news)]
        /\ UNCHANGED <<attached, mapVars, cache, frameworkVars>>
    BY DEF HandleOsObserverUpdate, Takes, Done, TakesIn
  <1>2. osQ \in Seq(Messages) /\ ObserverTypes
    BY DEF InformedInv, ObserverTypes
  <1>3. PICK s \in Seq(Messages) : osQ' = Tail(osQ) \o s /\ \A p \in 1 .. Len(s) : FALSE
    BY <1>1, <1>2, NothingPosted
  <1>4. osQ' \in Seq(Messages) /\ m \in Messages
    BY <1>1, <1>2, NothingPosted
  <1>5. m \in [k : {"told"}, client : Watchers, news : News]
    BY <1>1, <1>4 DEF Messages, Kinds
  <1> HIDE DEF m
  <1>6. PICK items \in SUBSET Items : m.news \in [items -> Values]
    BY <1>5 DEF News
  <1>7. m.client \in Watchers
    BY <1>5
  <1>8. /\ heard' \in [Watchers -> [Items -> Values \cup {NoValue}]]
        /\ \A c \in Watchers : \A i \in Items :
             heard'[c][i] = IF Tells(m, c, i) THEN m.news[i] ELSE heard[c][i]
    <2> DEFINE now == Updated(heard[m.client], m.news)
    <2>1. heard \in [Watchers -> [Items -> Values \cup {NoValue}]]
      BY <1>2 DEF ObserverTypes
    <2>2. /\ now \in [Items -> Values \cup {NoValue}]
          /\ \A i \in Items : now[i] = IF i \in DOMAIN m.news THEN m.news[i] ELSE heard[m.client][i]
      BY <1>6, <1>7, <2>1 DEF Updated
    <2> HIDE DEF now
    <2>3. heard' = [heard EXCEPT ![m.client] = now]
      BY <1>1 DEF m, now
    <2>4. m.k = "told"
      BY <1>1
    <2> QED BY <1>7, <2>1, <2>2, <2>3, <2>4 DEF Tells
  <1>9. ObserverTypes' /\ SubscriptionsMirrored' /\ ItemsAsked'
    BY <1>1, <1>4, <1>8
    DEF InformedInv, ObserverTypes, SubscriptionsMirrored, ItemsAsked, mapVars, frameworkVars
  <1>10. CacheFollows'
    <2> SUFFICES ASSUME NEW i \in asked \ due
                 PROVE  Leaves(osQ', Bringing(osQ', i), i, cache'[i], world'[i])
      BY <1>1 DEF CacheFollows, frameworkVars
    <2>1. Head(osQ).k # "notify"
      BY <1>1 DEF m
    <2> QED BY <1>1, <1>3, <2>1, CacheStays DEF InformedInv, frameworkVars
  <1>11. ClientsFollow'
    <2> SUFFICES ASSUME NEW c \in Watchers \ updaters, NEW i \in clientItems[c],
                        cache[i] # NoValue
                 PROVE  Leaves(osQ', Telling(osQ', c, i), i, heard'[c][i], cache[i])
      BY <1>1 DEF ClientsFollow, mapVars
    <2>1. i \in Items
      BY <1>2 DEF ObserverTypes
    <2>2. Leaves(osQ, Telling(osQ, c, i), i, heard[c][i], cache[i])
      BY DEF InformedInv, ClientsFollow
    <2>3. Leaves(osQ', Telling(osQ', c, i), i,
                 IF Tells(m, c, i) THEN m.news[i] ELSE heard[c][i], cache[i])
      BY <1>1, <1>2, <1>3, <2>2, TellingAfter DEF m
    <2> QED BY <1>8, <2>1, <2>3
  <1> QED BY <1>9, <1>10, <1>11 DEF InformedInv

ToldsOf(news, changed, clients) ==
  {Told(c, Restrict(news, clientItems[c] \cap changed)) :
     c \in {d \in clients : clientItems[d] \cap changed # {}}}

\* Each of the clients of an item that changed is told of it by one message.
EachToldOnce(s, news, changed, clients) ==
  /\ s \in Seq(Messages) /\ \A p \in 1 .. Len(s) : s[p].k # "notify"
  /\ \A c \in clients : \A i \in clientItems[c] \cap changed :
       \E p \in 1 .. Len(s) : /\ Tells(s[p], c, i) /\ s[p].news[i] = news[i]
                             /\ \A r \in 1 .. Len(s) : Tells(s[r], c, i) => r = p
  /\ \A p \in 1 .. Len(s) : \A c, i : Tells(s[p], c, i) => i \in changed

LEMMA ToldOnce ==
  ASSUME ObserverTypes, NEW news \in News, NEW changed \in SUBSET DOMAIN news,
         NEW clients \in SUBSET Watchers
  PROVE  EachToldOnce(SetToSeq(ToldsOf(news, changed, clients)), news, changed, clients)
  <1> DEFINE told(c) == Told(c, Restrict(news, clientItems[c] \cap changed))
             asking  == {d \in clients : clientItems[d] \cap changed # {}}
             tolds   == {told(c) : c \in asking}
             s       == SetToSeq(tolds)
  <1>0. ToldsOf(news, changed, clients) = tolds
    BY DEF ToldsOf
  <1>1. IsFiniteSet(tolds)
    <2>1. IsFiniteSet(asking)
      BY OsObserverAssumption, FS_Subset
    <2> DEFINE f == [c \in asking |-> told(c)]
    <2>2. f \in Surjection(asking, tolds)
      BY DEF Surjection
    <2> QED BY <2>1, <2>2, FS_Surjection
  <1>2. ASSUME NEW c \in asking
        PROVE  /\ told(c) \in Messages /\ told(c).k = "told" /\ told(c).client = c
               /\ DOMAIN told(c).news = clientItems[c] \cap changed
               /\ \A i \in clientItems[c] \cap changed : told(c).news[i] = news[i]
    <2> DEFINE mine == clientItems[c] \cap changed
               n    == Restrict(news, mine)
    <2>1. PICK items \in SUBSET Items : news \in [items -> Values]
      BY DEF News
    <2>2. mine \in SUBSET items /\ mine \in SUBSET Items
      BY <2>1
    <2>3. n \in [mine -> Values] /\ \A i \in mine : n[i] = news[i]
      BY <2>1, <2>2 DEF Restrict
    <2>4. told(c) = [k |-> "told", client |-> c, news |-> n]
      BY DEF Told
    <2> HIDE DEF n, mine, told
    <2>5. n \in News /\ DOMAIN n = mine
      BY <2>2, <2>3 DEF News
    <2>6. c \in Watchers
      OBVIOUS
    <2> QED BY <2>3, <2>4, <2>5, <2>6 DEF Messages, mine
  <1>3. /\ s \in Seq(tolds) /\ \A x \in tolds : \E p \in 1 .. Len(s) : s[p] = x
        /\ \A p, r \in 1 .. Len(s) : s[p] = s[r] => p = r
    BY <1>1, SetToSeqRange
  <1> HIDE DEF s
  <1>4. tolds \subseteq Messages
    BY <1>2
  <1>5. s \in Seq(Messages)
    BY <1>3, <1>4, SeqMonotonic
  <1>6. \A p \in 1 .. Len(s) : s[p] \in tolds
    <2> HIDE DEF tolds
    <2> QED BY <1>3, ElementOfSeq
  <1>7. ASSUME NEW p \in 1 .. Len(s)
        PROVE  \E c \in asking : s[p] = told(c)
    BY <1>6
  <1> HIDE DEF told
  <1>8. \A p \in 1 .. Len(s) : s[p].k # "notify"
    BY <1>2, <1>7
  <1>9. ASSUME NEW p \in 1 .. Len(s), NEW c, NEW i, Tells(s[p], c, i)
        PROVE  c \in asking /\ s[p] = told(c) /\ i \in clientItems[c] \cap changed
    <2>1. PICK d \in asking : s[p] = told(d)
      BY <1>7
    <2>2. d = c
      BY <1>2, <1>9, <2>1 DEF Tells
    <2> QED BY <1>2, <1>9, <2>1, <2>2 DEF Tells
  <1>10. ASSUME NEW c \in clients, NEW i \in clientItems[c] \cap changed
         PROVE  \E p \in 1 .. Len(s) :
                     /\ Tells(s[p], c, i) /\ s[p].news[i] = news[i]
                     /\ \A r \in 1 .. Len(s) : Tells(s[r], c, i) => r = p
    <2>1. c \in asking
      OBVIOUS
    <2>2. PICK p \in 1 .. Len(s) : s[p] = told(c)
      BY <1>3, <2>1
    <2>3. Tells(s[p], c, i) /\ s[p].news[i] = news[i]
      BY <1>2, <2>1, <2>2 DEF Tells
    <2>4. \A r \in 1 .. Len(s) : Tells(s[r], c, i) => r = p
      BY <1>3, <1>9, <2>2
    <2> QED BY <2>3, <2>4
  <1>11. \A p \in 1 .. Len(s) : \A c, i : Tells(s[p], c, i) => i \in changed
    BY <1>9
  <1> HIDE DEF asking, tolds
  <1>12. EachToldOnce(s, news, changed, clients)
    BY <1>5, <1>8, <1>10, <1>11 DEF EachToldOnce
  <1> QED BY <1>0, <1>12 DEF s

LEMMA NotifyKeeps == InformedInv /\ HandleNotify => InformedInv'
  <1> SUFFICES ASSUME InformedInv, HandleNotify PROVE InformedInv'
    OBVIOUS
  <1> DEFINE news    == Head(osQ).news
             changed == {i \in DOMAIN news : cache[i] # news[i]}
             clients == UNION {itemClients[i] : i \in changed}
             s       == SetToSeq(ToldsOf(news, changed, clients))
  <1>1. /\ osQ # <<>> /\ Head(osQ).k = "notify"
        /\ cache' = Updated(cache, news)
        /\ osQ' = Tail(osQ) \o s
        /\ UNCHANGED <<attached, mapVars, heard, frameworkVars>>
    BY DEF HandleNotify, Takes, ToldsOf
  <1>2. osQ \in Seq(Messages) /\ ObserverTypes
    BY DEF InformedInv, ObserverTypes
  <1>3. Head(osQ) \in [k : {"notify"}, news : News]
    BY <1>1, <1>2, NothingPosted DEF Messages, Kinds
  <1>4. news \in News
    BY <1>3
  <1>5. PICK items \in SUBSET Items : news \in [items -> Values]
    BY <1>4 DEF News
  <1>6. changed \in SUBSET DOMAIN news /\ changed \in SUBSET Items
    BY <1>5
  <1>7. clients \in SUBSET Watchers
    BY <1>2, <1>6 DEF ObserverTypes
  <1> HIDE DEF s
  <1>8. EachToldOnce(s, news, changed, clients)
    <2> HIDE DEF news, changed, clients
    <2> QED BY <1>2, <1>4, <1>6, <1>7, ToldOnce DEF s
  <1>9. s \in Seq(Messages)
    BY <1>8 DEF EachToldOnce
  <1>10. \A i \in changed : \A c \in itemClients[i] : c \in clients
    OBVIOUS
  <1>11. \A i : i \in changed <=> i \in DOMAIN news /\ cache[i] # news[i]
    OBVIOUS
  <1> HIDE DEF clients, changed
  <1>12. /\ cache' \in [Items -> Values \cup {NoValue}]
         /\ \A i \in Items : cache'[i] = IF i \in DOMAIN news THEN news[i] ELSE cache[i]
    BY <1>1, <1>2, <1>5 DEF Updated, ObserverTypes
  <1>13. osQ' \in Seq(Messages)
    <2>1. Tail(osQ) \in Seq(Messages) /\ osQ' = Tail(osQ) \o s
      BY <1>1, <1>2, NothingPosted
    <2> QED BY <1>9, <2>1, ConcatProperties
  <1> HIDE DEF news
  <1>14. ObserverTypes' /\ SubscriptionsMirrored' /\ ItemsAsked'
    BY <1>1, <1>12, <1>13
    DEF InformedInv, ObserverTypes, SubscriptionsMirrored, ItemsAsked, mapVars, frameworkVars
  <1>15. CacheFollows'
    <2> SUFFICES ASSUME NEW i \in asked \ due
                 PROVE  Leaves(osQ', Bringing(osQ', i), i, cache'[i], world[i])
      BY <1>1 DEF CacheFollows, frameworkVars
    <2>1. i \in Items
      BY <1>2 DEF ObserverTypes
    <2>2. Leaves(osQ, Bringing(osQ, i), i, cache[i], world[i])
      BY DEF InformedInv, CacheFollows
    <2>3. \A p \in 1 .. Len(s) : ~ Brings(s[p], i)
      BY <1>8 DEF EachToldOnce, Brings
    <2>4. Leaves(osQ', Bringing(osQ', i), i,
                 IF Brings(Head(osQ), i) THEN Head(osQ).news[i] ELSE cache[i], world[i])
      BY <1>1, <1>2, <1>9, <2>2, <2>3, BringingAfter
    <2>5. Brings(Head(osQ), i) <=> i \in DOMAIN news
      BY <1>1 DEF Brings, news
    <2> QED BY <1>12, <2>1, <2>4, <2>5 DEF news
  <1>16. ClientsFollow'
    <2> SUFFICES ASSUME NEW c \in Watchers \ updaters, NEW i \in clientItems[c],
                        cache'[i] # NoValue
                 PROVE  Leaves(osQ', Telling(osQ', c, i), i, heard'[c][i], cache'[i])
      BY <1>1 DEF ClientsFollow, mapVars
    <2>1. i \in Items
      BY <1>2 DEF ObserverTypes
    <2>2. CASE i \in changed
      <3>1. c \in itemClients[i]
        BY <2>1 DEF InformedInv, SubscriptionsMirrored
      <3>2. c \in clients
        BY <1>10, <2>2, <3>1
      <3>3. PICK p \in 1 .. Len(s) :
              /\ Tells(s[p], c, i) /\ s[p].news[i] = news[i]
              /\ \A r \in 1 .. Len(s) : Tells(s[r], c, i) => r = p
        BY <1>8, <2>2, <3>2 DEF EachToldOnce
      <3>4. cache'[i] = news[i]
        BY <1>11, <1>12, <2>1, <2>2
      <3> QED BY <1>1, <1>2, <1>9, <3>3, <3>4, TellingLast
    <2>3. CASE i \notin changed
      <3>1. cache'[i] = cache[i]
        BY <1>11, <1>12, <2>1, <2>3
      <3>2. \A p \in 1 .. Len(s) : ~ Tells(s[p], c, i)
        BY <1>8, <2>3 DEF EachToldOnce
      <3> QED BY <1>1, <1>2, <1>9, <3>1, <3>2, ClientStays DEF InformedInv
    <2> QED BY <2>2, <2>3
  <1> QED BY <1>14, <1>15, <1>16 DEF InformedInv

-----------------------------------------------------------------------------
(* All steps of the observer *)

LEMMA InformedInit ==
  ASSUME NEW q \in Seq(Messages), OsInit(q)
  PROVE  InformedInv
  <1>1. /\ osQ = q /\ attached = FALSE
        /\ clientItems = [c \in Watchers |-> {}] /\ itemClients = [i \in Items |-> {}]
        /\ cache = [i \in Items |-> NoValue] /\ heard = [c \in Watchers |-> cache]
        /\ world \in [Items -> Values] /\ asked = {} /\ due = {}
        /\ requested = {} /\ updaters = {}
    BY DEF OsInit
  <1>2. ObserverTypes
    BY <1>1 DEF ObserverTypes
  <1>3. SubscriptionsMirrored
    BY MirrorInit DEF MirrorInv
  <1>4. ItemsAsked /\ CacheFollows /\ ClientsFollow
    BY <1>1 DEF ItemsAsked, CacheFollows, ClientsFollow
  <1> QED BY <1>2, <1>3, <1>4 DEF InformedInv

LEMMA WatchKeeps == InformedInv /\ Watcher => InformedInv'
  <1> SUFFICES ASSUME InformedInv, NEW k \in Kinds, Watch(k) PROVE InformedInv'
    BY DEF Watcher
  <1>1. PICK c \in Callers, items \in SUBSET Items : osQ' = Append(osQ, Ask(k, c, items))
    BY DEF Watch
  <1> DEFINE m == Ask(k, c, items)
  <1>2. m \in [k : Kinds, client : Watchers, items : SUBSET Items] /\ m.client \in Callers /\ m.k = k
    BY OsObserverAssumption DEF Ask
  <1> HIDE DEF m
  <1>3. m \in Messages
    BY <1>2 DEF Messages
  <1>4. m.k \notin {"notify", "told"}
    BY <1>2 DEF Kinds
  <1>5. osQ' = Append(osQ, m)
    BY <1>1 DEF m
  <1>6. UNCHANGED <<attached, mapVars, cache, heard, frameworkVars>>
    BY DEF Watch
  <1> QED BY <1>3, <1>4, <1>5, <1>6, PostKeeps

LEMMA OfferKeeps == InformedInv /\ SetSubscriptionObj => InformedInv'
  <1> SUFFICES ASSUME InformedInv, SetSubscriptionObj PROVE InformedInv'
    OBVIOUS
  <1> DEFINE m == [k |-> "attach"]
  <1>1. m \in Messages /\ m.k \notin {"notify", "told"}
    BY DEF Messages
  <1>2. osQ' = Append(osQ, m) /\ UNCHANGED <<attached, mapVars, cache, heard, frameworkVars>>
    BY DEF SetSubscriptionObj
  <1> QED BY <1>1, <1>2, PostKeeps

LEMMA ObserverKeeps ==
  ASSUME InformedInv, Watcher \/ Framework \/ Observer \/ HandleOsObserverUpdate
  PROVE  InformedInv'
  BY WatchKeeps, OfferKeeps, ChangeKeeps, NoticeKeeps, AttachKeeps, SubscribeKeeps, UpdateKeeps,
     UnsubscribeKeeps, NotifyKeeps, TakenInKeeps
  DEF Framework, Observer

LEMMA InformedKept ==
  ASSUME InformedInv,
         UNCHANGED <<osQ, attached, mapVars, cache, heard, frameworkVars>>
  PROVE  InformedInv'
  BY DEF InformedInv, ObserverTypes, SubscriptionsMirrored, ItemsAsked, CacheFollows, ClientsFollow,
         mapVars, frameworkVars

\* When nothing is on its way any more, the values have arrived.
LEMMA Informs == InformedInv => WatchersInformed
  <1> SUFFICES ASSUME InformedInv, osQ = <<>>, due = {}, attached,
                      NEW c \in Watchers \ updaters, NEW i \in clientItems[c] \ requested
               PROVE  heard[c][i] = world[i]
    BY DEF WatchersInformed, Quiet
  <1>1. i \in Items /\ world[i] \in Values
    BY DEF InformedInv, ObserverTypes
  <1>2. i \in asked
    BY <1>1 DEF InformedInv, SubscriptionsMirrored, ItemsAsked
  <1>3. Bringing(osQ, i) = {} /\ Telling(osQ, c, i) = {}
    <2>1. Len(osQ) = 0
      OBVIOUS
    <2> QED BY <2>1 DEF Bringing, Telling
  <1>4. cache[i] = world[i]
    BY <1>2, <1>3 DEF InformedInv, CacheFollows, Leaves
  <1>5. cache[i] # NoValue
    BY <1>1, <1>4, OsObserverAssumption
  <1> QED BY <1>3, <1>4, <1>5 DEF InformedInv, ClientsFollow, Leaves

\* When no message waits and the framework has nothing to report, a subscriber that
\* has not called updateSubscription has the present value of its items, whoever came
\* first of it, the other clients, the framework and the value (HandleSubscribeReq,
\* SetSubsObj, HandleNotify, sendCachedDataItems), for any number of each.
THEOREM WatchersAreInformed == OsSpec => []WatchersInformed
  <1>1. OsInit(<<>>) => InformedInv
    BY InformedInit, EmptySeq
  <1>2. InformedInv /\ [OsNext]_osVars => InformedInv'
    BY ObserverKeeps, InformedKept DEF OsNext, osVars
  <1> QED BY <1>1, <1>2, Informs, PTL DEF OsSpec

-----------------------------------------------------------------------------
(* The daemon among them *)

LEMMA StartInformed == XtraInit => InformedInv
  <1> SUFFICES ASSUME XtraInit PROVE InformedInv
    OBVIOUS
  <1> DEFINE m1 == Ask("subscribe", xtra, SubItems)
             m2 == Ask("request", xtra, ReqItems)
  <1>1. OsInit(<<m1, m2>>)
    BY DEF XtraInit
  <1>2. m1 \in Messages
    BY XtraAssumption DEF Ask, Messages, Kinds
  <1>3. m2 \in Messages
    BY XtraAssumption DEF Ask, Messages, Kinds
  <1> HIDE DEF m1, m2
  <1>4. <<m1, m2>> \in Seq(Messages)
    BY <1>2, <1>3
  <1> QED BY <1>1, <1>4, InformedInit

LEMMA XtraInformed == InformedInv /\ [XtraNext]_xtraVars => InformedInv'
  <1> SUFFICES ASSUME InformedInv, [XtraNext]_xtraVars PROVE InformedInv'
    OBVIOUS
  <1>1. CASE Watcher \/ Framework \/ Observer \/ HandleXtraUpdate
    BY <1>1, ObserverKeeps DEF HandleXtraUpdate
  <1>2. CASE UNCHANGED osVars
    BY <1>2, InformedKept DEF osVars
  <1>3. CASE RequestStatus
    <2>1. PICK updated \in BOOLEAN : osQ' = Append(osQ, [k |-> "status", updated |-> updated])
      BY <1>3 DEF RequestStatus
    <2> DEFINE m == [k |-> "status", updated |-> updated]
    <2>2. m \in Messages /\ m.k \notin {"notify", "told"}
      BY DEF Messages
    <2>3. UNCHANGED <<attached, mapVars, cache, heard, frameworkVars>>
      BY <1>3 DEF RequestStatus
    <2> QED BY <2>1, <2>2, <2>3, PostKeeps
  <1>4. CASE \E k \in {"enableNtrip", "disableNtrip"} : Ntrip(k)
    <2>1. PICK k \in {"enableNtrip", "disableNtrip"} : Ntrip(k)
      BY <1>4
    <2> DEFINE m == [k |-> k]
    <2>2. m \in Messages /\ m.k \notin {"notify", "told"}
      BY DEF Messages
    <2>3. osQ' = Append(osQ, m) /\ UNCHANGED <<attached, mapVars, cache, heard, frameworkVars>>
      BY <2>1 DEF Ntrip
    <2> QED BY <2>2, <2>3, PostKeeps
  <1>5. CASE HandleStatusRequest \/ HandleEnablePPENtrip \/ HandleDisablePPENtrip
    <2>1. /\ osQ # <<>> /\ Head(osQ).k \in {"status", "enableNtrip", "disableNtrip"}
          /\ osQ' = Tail(osQ) /\ heard' = heard /\ Rest
      BY <1>5
      DEF HandleStatusRequest, HandleEnablePPENtrip, HandleDisablePPENtrip, Takes, Done
    <2>2. Head(osQ).k \notin {"notify", "told"}
      BY <2>1
    <2> QED BY <2>1, <2>2, TakeKeeps DEF Rest
  <1>6. CASE Event \/ UpdateNtripGGAConsent \/ DaemonStarts \/ DaemonDies
    BY <1>2, <1>6 DEF Event, UpdateNtripGGAConsent, DaemonStarts, DaemonDies
  <1> QED
    BY <1>1, <1>2, <1>3, <1>4, <1>5, <1>6
    DEF XtraNext, Corrections, Daemon, Observing, Reporting, xtraVars, SaveTrackingSession,
        EraseTrackingSession, ReportGGA

\* What the daemon needs of the observer, and of itself.
LEMMA DaemonSame ==
  ASSUME DaemonFollows, daemon'.up = daemon.up, daemon'.informed = daemon.informed,
         daemon'.view = daemon.view, UNCHANGED <<heard, reqReceived>>
  PROVE  DaemonFollows'
  BY DEF DaemonFollows

LEMMA RunsOnly ==
  ASSUME DOMAIN daemon = {"up", "view", "source", "informed"},
         daemon' = daemon \/ \E source : Runs(source)
  PROVE  daemon'.up = daemon.up /\ daemon'.informed = daemon.informed /\ daemon'.view = daemon.view
  BY DEF Runs

LEMMA DaemonStep == SourceInv /\ InformedInv /\ DaemonFollows /\ [XtraNext]_xtraVars => DaemonFollows'
  <1> SUFFICES ASSUME SourceInv, InformedInv, DaemonFollows, [XtraNext]_xtraVars PROVE DaemonFollows'
    OBVIOUS
  <1>0. DOMAIN daemon = {"up", "view", "source", "informed"}
    BY DEF SourceInv
  <1>1. ASSUME daemon' = daemon \/ \E source : Runs(source), UNCHANGED <<heard, reqReceived>>
        PROVE  DaemonFollows'
    BY <1>0, <1>1, RunsOnly, DaemonSame
  <1>2. CASE UNCHANGED xtraVars
    BY <1>1, <1>2 DEF xtraVars, daemonVars, osVars
  <1>3. CASE DaemonStarts \/ DaemonDies
    BY <1>0, <1>3 DEF DaemonStarts, DaemonDies, DaemonFollows
  <1>4. CASE RequestStatus
    BY <1>1, <1>4 DEF RequestStatus
  <1>5. CASE HandleStatusRequest
    <2> DEFINE updated == Head(osQ).updated
               view    == IF updated THEN daemon.view ELSE heard[xtra]
               source  == IF saved = NoSource THEN daemon.source ELSE saved
               told    == daemon.informed \/ ~ updated
    <2>1. /\ daemon' = IF daemon.up
                         THEN [up |-> TRUE, view |-> view, source |-> source, informed |-> told]
                         ELSE daemon
          /\ reqReceived' = TRUE /\ heard' = heard
      BY <1>5 DEF HandleStatusRequest
    <2>2. daemon.up /\ told => view = heard[xtra]
      BY DEF DaemonFollows
    <2> HIDE DEF view, source, told
    <2>3. CASE daemon.up
      <3>1. daemon'.informed = told /\ daemon'.view = view
        BY <2>1, <2>3
      <3> QED BY <2>1, <2>2, <2>3, <3>1 DEF DaemonFollows
    <2>4. CASE ~ daemon.up
      BY <2>1, <2>4 DEF DaemonFollows
    <2> QED BY <2>3, <2>4
  <1>6. CASE HandleXtraUpdate
    <2> DEFINE m == Head(osQ)
    <2>1. /\ heard' = [heard EXCEPT ![m.client] = Updated(@, m.news)]
          /\ daemon' = IF m.client = xtra /\ reqReceived /\ daemon.up
                         THEN [daemon EXCEPT !.view = Updated(@, m.news)]
                         ELSE daemon
          /\ reqReceived' = reqReceived
      BY <1>6 DEF HandleXtraUpdate, HandleOsObserverUpdate, TakesIn
    <2>2. xtra \in DOMAIN heard
      BY XtraAssumption DEF InformedInv, ObserverTypes
    <2> HIDE DEF m
    <2>3. CASE m.client # xtra
      BY <2>1, <2>2, <2>3 DEF DaemonFollows
    <2>4. CASE m.client = xtra
      <3>1. heard'[xtra] = Updated(heard[xtra], m.news)
        BY <2>1, <2>2, <2>4
      <3>2. CASE reqReceived /\ daemon.up
        <4>1. daemon' = [daemon EXCEPT !.view = Updated(daemon.view, m.news)]
          BY <2>1, <2>4, <3>2
        <4>2. /\ daemon'.informed = daemon.informed /\ daemon'.up = daemon.up
              /\ daemon'.view = Updated(daemon.view, m.news)
          BY <1>0, <4>1
        <4> QED BY <2>1, <3>1, <4>2 DEF DaemonFollows
      <3>3. CASE ~ (reqReceived /\ daemon.up)
        BY <2>1, <3>3 DEF DaemonFollows
      <3> QED BY <3>2, <3>3
    <2> QED BY <2>3, <2>4
  <1>7. CASE (Watcher \/ Framework \/ Observer) /\ UNCHANGED <<reqReceived, ntripVars, daemonVars>>
    <2>1. heard' = heard
      BY <1>7
      DEF Watcher, Watch, Framework, SetSubscriptionObj, ItemChanges, Notify, Observer, SetSubsObj,
          HandleSubscribeReq, HandleUpdateSubscriptionReq, HandleUnsubscribe, HandleNotify
    <2> QED BY <1>1, <1>7, <2>1 DEF daemonVars
  <1>8. CASE Corrections
    <2>1. UNCHANGED <<heard, reqReceived>>
      BY <1>8
      DEF Corrections, Ntrip, UpdateNtripGGAConsent, HandleEnablePPENtrip, HandleDisablePPENtrip,
          SaveTrackingSession, EraseTrackingSession, ReportGGA, Event, osVars
    <2>2. daemon' = daemon \/ \E source : Runs(source)
      BY <1>8
      DEF Corrections, Ntrip, UpdateNtripGGAConsent, HandleEnablePPENtrip, HandleDisablePPENtrip,
          SaveTrackingSession, EraseTrackingSession, ReportGGA, daemonVars, CheckUpdate, Stop
    <2> QED BY <1>1, <2>1, <2>2
  <1> QED
    BY <1>2, <1>3, <1>4, <1>5, <1>6, <1>7, <1>8 DEF XtraNext, Daemon, Observing, Reporting

\* When no message waits and the framework has nothing to report, every subscriber has
\* the present value of its items, and so has the daemon, if it is up and has had the
\* status, of those that the XTRA observer subscribed to (onStatusRequested,
\* HandleOsObserverUpdateMsg), however often the daemon died and started again.
THEOREM ObserversAreInformed == XtraSpec => []ObserversInformed
  <1>1. XtraInit => DaemonFollows
    BY DEF XtraInit, DaemonFollows
  <1>2. SourceInv /\ InformedInv /\ DaemonFollows => ObserversInformed
    <2> SUFFICES ASSUME InformedInv, DaemonFollows, Quiet, daemon.up, daemon.informed,
                        NEW i \in clientItems[xtra] \ requested
                 PROVE  daemon.view[i] = world[i]
      BY Informs DEF ObserversInformed
    <2>1. xtra \in Watchers \ updaters
      BY XtraAssumption DEF InformedInv, ObserverTypes
    <2>2. heard[xtra][i] = world[i]
      BY <2>1, Informs DEF WatchersInformed
    <2> QED BY <2>2 DEF DaemonFollows
  <1> QED
    BY <1>1, <1>2, SourceInit, SourceStep, StartInformed, XtraInformed, DaemonStep, PTL DEF XtraSpec

=============================================================================
