-------------------------------- MODULE Xtra --------------------------------
(***************************************************************************)
(* gnss/XtraSystemStatusObserver.cpp: tells the XTRA daemon, a process of  *)
(* its own that may die and start again, of the network and the cell, and  *)
(* has it run a source of DGNSS corrections (Ntrip).  When such a source   *)
(* runs is up to gnss/GnssAdapter.cpp 6416-6567: it has been enabled, a    *)
(* time based session is there, and the position that some sources ask for *)
(* is known, if the user agrees to send it.                                *)
(*                                                                         *)
(* The observer watches data items (OsObserver) and shares the queue of    *)
(* the adapter.  A datagram to a daemon that is not there is lost.  The    *)
(* daemon asks for the status when it starts, and may ask again.           *)
(*                                                                         *)
(* Left out: the GPS lock (GpsLock has it) and the throttle, the text of   *)
(* the datagrams, the positions in them and their renewal, which do not    *)
(* change what source is running.                                          *)
(***************************************************************************)
EXTENDS OsObserver

CONSTANTS
  xtra,        \* the observer, one of Watchers
  SubItems,    \* NETWORKINFO and MCCMNC
  ReqItems,    \* TAC
  Sources,     \* Ntrip parameters: their connection and requiresNmeaLocation
  NoSource,    \* cleared parameters
  MaxDaemons,  \* bound: deaths of the daemon
  MaxStatus,   \* bound: requests of the status
  MaxDgnss     \* bound: commands and events of the corrections

ASSUME XtraAssumption ==
  /\ xtra \in Watchers \ Callers
  /\ SubItems \subseteq Items /\ ReqItems \subseteq Items
  /\ Sources \subseteq [conn : Nat \ {0}, nmea : BOOLEAN]
  /\ NoSource = [conn |-> 0, nmea |-> FALSE]
  /\ MaxDaemons \in Nat /\ MaxStatus \in Nat /\ MaxDgnss \in Nat

VARIABLES
  reqReceived,   \* mReqStatusReceived
  saved,         \* mNtripParamsString, or NoSource
  params,        \* mStartDgnssNtripParams
  consent,       \* mSendNmeaConsent
  enabledCmd,    \* mDgnssState: DGNSS_STATE_ENABLE_NTRIP_COMMAND
  ready,         \* mDgnssState: DGNSS_STATE_NO_NMEA_PENDING
  started,       \* mDgnssState: DGNSS_STATE_NTRIP_SESSION_STARTED
  sessions,      \* numbers of time and of distance based tracking sessions
  daemon,        \* up, the items it knows, the source it runs, has it had the status?
  daemons, statusRequests, dgnss,  \* bounds
  superseded,    \* history: a source was replaced by one that has to wait for a position
  orphaned       \* history: the source was stopped with a session, and others are left

dgnssVars  == <<saved, params, enabledCmd, ready, started, sessions, superseded, orphaned>>
ntripVars  == <<dgnssVars, consent, dgnss>>
daemonVars == <<daemon, daemons, statusRequests>>
xtraVars   == <<osVars, reqReceived, ntripVars, daemonVars>>

NoItems == [i \in Items |-> NoValue]

XtraInit ==
  /\ OsInit(<<Ask("subscribe", xtra, SubItems), Ask("request", xtra, ReqItems)>>)
  /\ reqReceived = FALSE
  /\ saved = NoSource /\ params = NoSource /\ consent \in BOOLEAN
  /\ enabledCmd = FALSE /\ ready = FALSE /\ started = FALSE
  /\ sessions = [time |-> 0, dist |-> 0]
  /\ daemon = [up |-> FALSE, view |-> NoItems, source |-> NoSource, informed |-> FALSE]
  /\ daemons = 0 /\ statusRequests = 0 /\ dgnss = 0
  /\ superseded = FALSE /\ orphaned = FALSE

-----------------------------------------------------------------------------
(* The daemon *)

DaemonStarts ==
  /\ ~ daemon.up
  /\ daemon' = [up |-> TRUE, view |-> NoItems, source |-> NoSource, informed |-> FALSE]
  /\ UNCHANGED <<osVars, reqReceived, ntripVars, daemons, statusRequests>>

DaemonDies ==
  /\ daemon.up /\ daemons < MaxDaemons
  /\ daemons' = daemons + 1
  /\ daemon' = [daemon EXCEPT !.up = FALSE]
  /\ UNCHANGED <<osVars, reqReceived, ntripVars, statusRequests>>

\* requestStatus: the daemon says whether it has the status already.
RequestStatus ==
  \E updated \in BOOLEAN :
    /\ daemon.up /\ updated => daemon.informed
    /\ statusRequests < MaxStatus
    /\ statusRequests' = statusRequests + 1
    /\ osQ' = Append(osQ, [k |-> "status", updated |-> updated])
    /\ UNCHANGED <<attached, offered, mapVars, cache, heard, frameworkVars, watchCalls, changes,
                   reqReceived, ntripVars, daemon, daemons>>

Rest == UNCHANGED <<attached, offered, mapVars, cache, frameworkVars, watchCalls, changes,
                    consent, dgnss, daemons, statusRequests>>

\* onStatusRequested and restartDgnssSource.
HandleStatusRequest ==
  LET view   == IF Head(osQ).updated THEN daemon.view ELSE heard[xtra]
      source == IF saved = NoSource THEN daemon.source ELSE saved
  IN /\ Takes("status") /\ Done /\ Rest
     /\ reqReceived' = TRUE
     /\ daemon' = IF daemon.up
                    THEN [up |-> TRUE, view |-> view, source |-> source,
                          informed |-> daemon.informed \/ ~ Head(osQ).updated]
                    ELSE daemon
     /\ UNCHANGED <<heard, dgnssVars>>

\* updateConnections, updateTac and updateMccMnc.
HandleXtraUpdate ==
  /\ HandleOsObserverUpdate
  /\ daemon' = IF Head(osQ).client = xtra /\ reqReceived /\ daemon.up
                 THEN [daemon EXCEPT !.view = Updated(@, Head(osQ).news)]
                 ELSE daemon
  /\ UNCHANGED <<reqReceived, ntripVars, daemons, statusRequests>>

-----------------------------------------------------------------------------
(* The source of corrections *)

Runs(source) == daemon' = IF daemon.up THEN [daemon EXCEPT !.source = source] ELSE daemon

\* checkUpdateDgnssNtrip, with the parameters, flags and sessions of the caller.
CheckUpdate(p, enable, go, begun, timed, over) ==
  /\ params' = p /\ enabledCmd' = enable /\ ready' = go
  /\ IF timed > 0 /\ enable /\ go /\ ~ begun
       THEN /\ started' = TRUE /\ saved' = p /\ Runs(p)
            /\ superseded' = FALSE /\ orphaned' = FALSE
       ELSE /\ started' = begun /\ superseded' = over
            /\ UNCHANGED <<saved, daemon, orphaned>>

\* Mutant: the parameters kept for restarts of the daemon outlive the source.
Stop_keepsParams ==
  IF started
    THEN started' = FALSE /\ Runs(NoSource) /\ UNCHANGED saved
    ELSE UNCHANGED <<started, saved, daemon>>

\* stopDgnssNtrip
Stop ==
  IF started
    THEN started' = FALSE /\ saved' = NoSource /\ Runs(NoSource)
    ELSE UNCHANGED <<started, saved, daemon>>

Ntrip(k) ==
  /\ dgnss < MaxDgnss /\ Len(osQ) < MaxOsQueue
  /\ osQ' = Append(osQ, [k |-> k])
  /\ dgnss' = dgnss + 1
  /\ UNCHANGED <<attached, offered, mapVars, cache, heard, frameworkVars, watchCalls, changes,
                 reqReceived, dgnssVars, consent, daemonVars>>

\* On the caller's thread.
UpdateNtripGGAConsent ==
  /\ dgnss < MaxDgnss
  /\ consent' = ~ consent
  /\ dgnss' = dgnss + 1
  /\ UNCHANGED <<osVars, reqReceived, dgnssVars, daemonVars>>

\* The message holds a reference to the caller's parameters, which may be gone: any
\* may be read.  Parameters that differ in requiresNmeaLocation only are the same.
HandleEnablePPENtrip ==
  \E p \in Sources :
    /\ Takes("enableNtrip") /\ Done /\ Rest
    /\ IF p.conn = params.conn
         THEN UNCHANGED <<dgnssVars, daemon>>
         ELSE /\ CheckUpdate(p, TRUE, ~ (consent /\ p.nmea), FALSE, sessions.time,
                             superseded \/ started)
              /\ UNCHANGED sessions
    /\ UNCHANGED <<heard, reqReceived>>

HandleDisablePPENtrip ==
  /\ Takes("disableNtrip") /\ Done /\ Rest
  /\ params' = NoSource /\ enabledCmd' = FALSE /\ ready' = TRUE
  /\ Stop
  /\ orphaned' = FALSE
  /\ UNCHANGED <<heard, reqReceived, sessions, superseded>>

\* What follows runs inside handlers of the adapter.
Event ==
  /\ dgnss < MaxDgnss
  /\ dgnss' = dgnss + 1
  /\ UNCHANGED <<osVars, reqReceived, consent, daemons, statusRequests>>

\* A session is saved, or saved again.
SaveTrackingSession ==
  \E kind \in {"time", "dist"}, new \in 0 .. 1 :
    /\ Event /\ sessions[kind] + new > 0
    /\ sessions' = [sessions EXCEPT ![kind] = @ + new]
    /\ CheckUpdate(params, enabledCmd, ready, started, sessions'.time, superseded)

\* A session is erased, or not found.
EraseTrackingSession ==
  \E kind \in {"time", "dist"}, old \in 0 .. 1 :
    /\ Event /\ sessions[kind] >= old
    /\ sessions' = [sessions EXCEPT ![kind] = @ - old]
    /\ ready' = (ready /\ ~ (consent /\ params.nmea))
    /\ Stop
    /\ orphaned' = (sessions'.time > 0 /\ (orphaned \/ started))
    /\ UNCHANGED <<params, enabledCmd, superseded>>

\* reportGGAToNtrip, and the same in reportPosition: a position is known.
ReportGGA ==
  /\ Event /\ consent /\ params.nmea
  /\ CheckUpdate(params, enabledCmd, TRUE, started, sessions.time, superseded)
  /\ UNCHANGED sessions

-----------------------------------------------------------------------------
Corrections ==
  \/ Ntrip("enableNtrip") \/ Ntrip("disableNtrip") \/ UpdateNtripGGAConsent
  \/ HandleEnablePPENtrip \/ HandleDisablePPENtrip
  \/ SaveTrackingSession \/ EraseTrackingSession \/ ReportGGA
Daemon == DaemonStarts \/ DaemonDies \/ RequestStatus \/ HandleStatusRequest
Reporting ==
  \/ (Framework \/ Observer) /\ UNCHANGED <<reqReceived, ntripVars, daemonVars>>
  \/ HandleXtraUpdate
Observing ==
  \/ Watcher /\ UNCHANGED <<reqReceived, ntripVars, daemonVars>>
  \/ Reporting

XtraNext == Corrections \/ Daemon \/ Observing

XtraSpec == XtraInit /\ [][XtraNext]_xtraVars

-----------------------------------------------------------------------------
\* When all is quiet every subscriber has the present value of its items, and so
\* has the daemon of those that the XTRA observer subscribed to, whichever of the
\* framework, the observer, the daemon and its restarts came first
\* (OsObserver, HandleOsObserverUpdateMsg, onStatusRequested).
ObserversInformed ==
  /\ WatchersInformed
  /\ Quiet /\ daemon.up /\ daemon.informed =>
       \A i \in clientItems[xtra] \ requested : daemon.view[i] = world[i]

\* The daemon runs the source asked for last while a time based session is there
\* and the position it needs is known, and none otherwise, over restarts of the
\* daemon (checkUpdateDgnssNtrip, stopDgnssNtrip, restartDgnssSource).  Not so when a
\* running source was replaced by one that waits for a position: that one goes on,
\* even when corrections are disabled.  Nor when a session ends while others go on:
\* the source stops until a session is saved or a position reported.
SourceFollows ==
  daemon.up /\ daemon.informed /\ ~ superseded /\ ~ orphaned =>
    daemon.source = IF sessions.time > 0 /\ enabledCmd /\ ready THEN params ELSE NoSource
=============================================================================
