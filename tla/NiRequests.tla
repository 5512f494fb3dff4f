----------------------------- MODULE NiRequests -----------------------------
(***************************************************************************)
(* Network initiated (NI) requests of gps/gnss/GnssAdapter.cpp: the network*)
(* asks for the device's position, and the user is asked first.            *)
(*                                                                         *)
(* The adapter keeps two sessions, one for emergency SUPL requests and one *)
(* for all others (NiData).  Opening one starts a thread (niThreadProc)    *)
(* that waits for the user's response or for a timeout, takes the request  *)
(* out of the session and posts the response, which the adapter passes to  *)
(* the modem.  The session's lock covers the response and its flag; the    *)
(* adapter looks at rawRequest, and the thread clears reqID, without it.   *)
(*                                                                         *)
(* Left out: what a request says and how long the user has (the thread may *)
(* time out at any moment, so respTimeLeft does not matter), and failures  *)
(* to create the thread.                                                   *)
(***************************************************************************)
EXTENDS Integers, Sequences, FiniteSets

CONSTANTS
  MaxRequests,   \* bound: NI requests of the modem, numbered from 1
  NiKinds,       \* the requests the modem may send: subset of Notifications
  NiConfigs      \* configurations: subset of Configurations

NoRequest == 0
NiRequests == 1 .. MaxRequests

\* A request, as far as requestNiNotifyEvent looks at it.  The type "other"
\* stands for VOICE and for SUPL without emergency in its effects.
Notifications ==
  [type : {"supl", "es", "controlPlane", "other"}, inEmergency : BOOLEAN, override : BOOLEAN]

\* denyLocked: NFW is locked and the conditions to deny SUPL requests are met;
\* suplEsNo: SUPL_ES says no emergency services; cpMtlrEs: CP_MTLR_ES is 1.
Configurations == [denyLocked : BOOLEAN, suplEsNo : BOOLEAN, cpMtlrEs : BOOLEAN]

ASSUME NiAssumption ==
  /\ MaxRequests \in Nat
  /\ NiKinds \subseteq Notifications
  /\ NiConfigs \subseteq Configurations

NiSessions == {"session", "sessionEs"}
Answers    == {"accept", "deny"}
Responses  == Answers \cup {"noResponse", "ignore"}

VARIABLES
  niConfig,
  niQueue,       \* the adapter's messages about NI requests
  niClient,      \* does a client have a gnssNiCb
  rawRequest, reqID, resp, respRecvd,  \* the sessions
  reqIDCounter,
  setting,       \* responses the adapter is about to set: it has looked at the
                 \* sessions, and takes their locks now
  thread,        \* niThreadProc of each request: where it is, and its session
  taken,         \* what each thread took out of its session
  prompt,        \* the id the user was given with each request, or 0
  \* history
  said,          \* the user's response to each prompt
  ended,         \* how often the data of each request was given back or freed
  told,          \* what the modem was told of each request
  dropped,       \* the requests whose data nobody holds any more: it leaks
  late           \* a response was set in a session whose request was gone

sessionVars == <<rawRequest, reqID, resp, respRecvd, reqIDCounter>>
threadVars  == <<thread, taken>>
historyVars == <<said, ended, told, dropped, late>>
niVars == <<niConfig, niQueue, niClient, sessionVars, setting, threadVars, prompt, historyVars>>

Unset  == "none"
NoTake == [req |-> NoRequest, resp |-> Unset]
Taken  == [req : NiRequests, resp : Responses]

NiMsgs == [k : {"notify"}, req : NiRequests, note : Notifications]
     \cup [k : {"userResponse"}, id : Nat, resp : Answers]
     \cup [k : {"niResponse"}, req : NiRequests, resp : Responses]

\* A response to be set in session s, where the adapter has seen request req.
Settings == [s : NiSessions, req : NiRequests, resp : Responses]
Setting(s, response) == [s |-> s, req |-> rawRequest[s], resp |-> response]

Threads == [at : {"none", "waiting", "finishing", "done"}, s : NiSessions]

NiTypeOK ==
  /\ niConfig \in Configurations
  /\ niQueue \in Seq(NiMsgs)
  /\ niClient \in BOOLEAN
  /\ rawRequest \in [NiSessions -> NiRequests \cup {NoRequest}]
  /\ reqID \in [NiSessions -> Nat]
  /\ resp \in [NiSessions -> Responses \cup {Unset}]
  /\ respRecvd \in [NiSessions -> BOOLEAN]
  /\ reqIDCounter \in Nat
  /\ setting \in Seq(Settings)
  /\ thread \in [NiRequests -> Threads]
  /\ taken \in [NiRequests -> Taken \cup {NoTake}]
  /\ prompt \in [NiRequests -> Nat]
  /\ said \in [NiRequests -> Answers \cup {Unset}]
  /\ ended \in [NiRequests -> Nat]
  /\ told \in [NiRequests -> Responses \cup {Unset}]
  /\ dropped \subseteq NiRequests
  /\ late \in BOOLEAN

NiInit ==
  /\ niConfig \in NiConfigs
  /\ niQueue = <<>>
  /\ niClient = FALSE
  /\ rawRequest = [s \in NiSessions |-> NoRequest]
  /\ reqID = [s \in NiSessions |-> 0]
  /\ resp = [s \in NiSessions |-> Unset]
  /\ respRecvd = [s \in NiSessions |-> FALSE]
  /\ reqIDCounter = 0
  /\ setting = <<>>
  /\ thread = [n \in NiRequests |-> [at |-> "none", s |-> "session"]]
  /\ taken = [n \in NiRequests |-> NoTake]
  /\ prompt = [n \in NiRequests |-> 0]
  /\ said = [n \in NiRequests |-> Unset]
  /\ ended = [n \in NiRequests |-> 0]
  /\ told = [n \in NiRequests |-> Unset]
  /\ dropped = {}
  /\ late = FALSE

-----------------------------------------------------------------------------
(* Modem, client and user *)

\* The messages that hold the data of request n.
Holding(n) == {i \in DOMAIN niQueue : niQueue[i].k # "userResponse" /\ niQueue[i].req = n}

Sent(n) == thread[n].at # "none" \/ ended[n] > 0 \/ Holding(n) # {} \/ n \in dropped

\* requestNiNotifyEvent posts the request; the modem numbers its requests.
ModemRequests(n) ==
  /\ ~ Sent(n)
  /\ n > 1 => Sent(n - 1)
  /\ \E note \in NiKinds :
       niQueue' = Append(niQueue, [k |-> "notify", req |-> n, note |-> note])
  /\ UNCHANGED <<niConfig, niClient, sessionVars, setting, threadVars, prompt, historyVars>>

\* The client with the NI callback registers, or leaves.
ClientChanges ==
  /\ setting = <<>>
  /\ niClient' = ~ niClient
  /\ UNCHANGED <<niConfig, niQueue, sessionVars, setting, threadVars, prompt, historyVars>>

\* gnssNiResponse with the id of the prompt, at any time after it was shown.
UserAnswers(n) ==
  /\ prompt[n] # 0
  /\ said[n] = Unset
  /\ \E answer \in Answers :
       /\ said' = [said EXCEPT ![n] = answer]
       /\ niQueue' = Append(niQueue, [k |-> "userResponse", id |-> prompt[n], resp |-> answer])
  /\ UNCHANGED <<niConfig, niClient, sessionVars, setting, threadVars, prompt, ended, told,
                 dropped, late>>

-----------------------------------------------------------------------------
(* The adapter's thread *)

HandlesNi(k) ==
  /\ setting = <<>>
  /\ niQueue # <<>> /\ Head(niQueue).k = k
  /\ niQueue' = Tail(niQueue)
  /\ UNCHANGED <<niConfig, niClient>>

\* LocApiBase::informNiResponse.
Informs(n, response) ==
  /\ told' = [told EXCEPT ![n] = response]
  /\ ended' = [ended EXCEPT ![n] = @ + 1]

Frees(n) ==
  /\ ended' = [ended EXCEPT ![n] = @ + 1]
  /\ UNCHANGED told

\* What MsgReportNiNotify::proc decides by itself: the responses it gives at
\* once, or "ask" to go on to requestNiNotify.
Verdict(note) ==
  IF niConfig.denyLocked /\ note.type \in {"supl", "es"} /\ ~ note.inEmergency /\ ~ note.override
  THEN "deny"
  ELSE IF note.type = "es" /\ ~ note.inEmergency /\ ~ niConfig.suplEsNo
  THEN "deny"
  ELSE IF note.type = "controlPlane" /\ note.inEmergency /\ niConfig.cpMtlrEs
  THEN "accept"
  ELSE "ask"

\* An emergency request shuts out any other, and every request an open one of
\* its own session.
SessionFor(note) == IF note.type = "es" THEN "sessionEs" ELSE "session"
\* Mutant: a request of the other kinds does not look at its own session.
Busy_esOnly(note) == rawRequest["sessionEs"] # NoRequest

Busy(note) ==
  \/ rawRequest["sessionEs"] # NoRequest
  \/ note.type # "es" /\ rawRequest["session"] # NoRequest

NotifyDecided ==
  /\ HandlesNi("notify")
  /\ Verdict(Head(niQueue).note) # "ask"
  /\ Informs(Head(niQueue).req, Verdict(Head(niQueue).note))
  /\ UNCHANGED <<sessionVars, setting, threadVars, prompt, said, dropped, late>>

\* Nobody to ask: an emergency request is accepted, and an open session of
\* the other kind ignored.  Of any other request requestNiNotify returns FALSE,
\* which its caller ignores: the modem hears nothing and nobody frees the data.
NotifyNoClient ==
  /\ HandlesNi("notify")
  /\ LET n == Head(niQueue).req
         note == Head(niQueue).note
     IN /\ Verdict(note) = "ask" /\ ~ niClient
        /\ IF note.type = "es"
             THEN Informs(n, "accept") /\ UNCHANGED dropped
             ELSE dropped' = dropped \cup {n} /\ UNCHANGED <<ended, told>>
        /\ setting' = IF note.type = "es" /\ rawRequest["session"] # NoRequest
                      THEN <<Setting("session", "ignore")>> ELSE <<>>
  /\ UNCHANGED <<sessionVars, threadVars, prompt, said, late>>

NotifyBusy ==
  /\ HandlesNi("notify")
  /\ LET note == Head(niQueue).note
     IN Verdict(note) = "ask" /\ niClient /\ Busy(note)
  /\ Frees(Head(niQueue).req)
  /\ UNCHANGED <<sessionVars, setting, threadVars, prompt, said, dropped, late>>

NotifyOpens ==
  /\ HandlesNi("notify")
  /\ LET n == Head(niQueue).req
         note == Head(niQueue).note
         s == SessionFor(note)
     IN /\ Verdict(note) = "ask" /\ niClient /\ ~ Busy(note)
        /\ rawRequest' = [rawRequest EXCEPT ![s] = n]
        /\ reqIDCounter' = reqIDCounter + 1
        /\ reqID' = [reqID EXCEPT ![s] = reqIDCounter']
        /\ thread' = [thread EXCEPT ![n] = [at |-> "waiting", s |-> s]]
        /\ prompt' = [prompt EXCEPT ![n] = reqIDCounter']
  /\ UNCHANGED <<resp, respRecvd, setting, taken, historyVars>>

Answerable(s, id) == reqID[s] = id /\ rawRequest[s] # NoRequest

\* gnssNiResponseCommand of a client: finds the session of the id without its
\* lock.  Accepting an emergency request ignores an open one of another kind.
UserResponse ==
  /\ HandlesNi("userResponse")
  /\ LET id == Head(niQueue).id
         answer == Head(niQueue).resp
         ignored == IF answer = "accept" /\ rawRequest["session"] # NoRequest
                    THEN <<Setting("session", "ignore")>> ELSE <<>>
     IN setting' = IF ~ niClient THEN <<>>
                   ELSE IF Answerable("sessionEs", id)
                   THEN Append(ignored, Setting("sessionEs", answer))
                   ELSE IF Answerable("session", id) THEN <<Setting("session", answer)>>
                   ELSE <<>>
  /\ UNCHANGED <<sessionVars, threadVars, prompt, historyVars>>

\* ... and sets the response and the flag under the lock.
SetsResponse ==
  /\ setting # <<>>
  /\ LET set == Head(setting)
     IN /\ resp' = [resp EXCEPT ![set.s] = set.resp]
        /\ respRecvd' = [respRecvd EXCEPT ![set.s] = TRUE]
        /\ late' = (late \/ rawRequest[set.s] # set.req)
  /\ setting' = Tail(setting)
  /\ UNCHANGED <<niConfig, niQueue, niClient, rawRequest, reqID, reqIDCounter, threadVars, prompt,
                 said, ended, told, dropped>>

\* gnssNiResponseCommand of a thread.
NiResponse ==
  /\ HandlesNi("niResponse")
  /\ Informs(Head(niQueue).req, Head(niQueue).resp)
  /\ UNCHANGED <<sessionVars, setting, threadVars, prompt, said, dropped, late>>

NiAdapter ==
  NotifyDecided \/ NotifyNoClient \/ NotifyBusy \/ NotifyOpens \/ UserResponse \/ SetsResponse
  \/ NiResponse

-----------------------------------------------------------------------------
(* niThreadProc *)

\* Mutant: the flag is not reset for the next session.
ThreadTakes_keepsFlag(n, r) ==
  LET s == thread[n].s
      req == rawRequest[s]
  IN /\ thread[n].at = "waiting"
     /\ thread' = [thread EXCEPT ![n].at = "finishing"]
     /\ resp' = [resp EXCEPT ![s] = r]
     /\ rawRequest' = [rawRequest EXCEPT ![s] = NoRequest]
     /\ taken' = IF req # NoRequest /\ r # "ignore"
                 THEN [taken EXCEPT ![n] = [req |-> req, resp |-> r]] ELSE taken
     /\ IF req # NoRequest /\ r = "ignore" THEN Frees(req) ELSE UNCHANGED <<ended, told>>
     /\ UNCHANGED <<niConfig, niQueue, niClient, reqID, reqIDCounter, respRecvd, setting, prompt,
                    said, dropped, late>>

\* Mutant: an ignored request is not freed.
ThreadTakes_leak(n, r) ==
  LET s == thread[n].s
      req == rawRequest[s]
  IN /\ thread[n].at = "waiting"
     /\ thread' = [thread EXCEPT ![n].at = "finishing"]
     /\ resp' = [resp EXCEPT ![s] = r]
     /\ respRecvd' = [respRecvd EXCEPT ![s] = FALSE]
     /\ rawRequest' = [rawRequest EXCEPT ![s] = NoRequest]
     /\ taken' = IF req # NoRequest /\ r # "ignore"
                 THEN [taken EXCEPT ![n] = [req |-> req, resp |-> r]] ELSE taken
     /\ UNCHANGED <<niConfig, niQueue, niClient, reqID, reqIDCounter, setting, prompt, historyVars>>

\* Under the session's lock: the thread resets the flag and takes whatever
\* request the session holds, with the response r; an ignored one is freed.
ThreadTakes(n, r) ==
  LET s == thread[n].s
      req == rawRequest[s]
  IN /\ thread[n].at = "waiting"
     /\ thread' = [thread EXCEPT ![n].at = "finishing"]
     /\ resp' = [resp EXCEPT ![s] = r]
     /\ respRecvd' = [respRecvd EXCEPT ![s] = FALSE]
     /\ rawRequest' = [rawRequest EXCEPT ![s] = NoRequest]
     /\ taken' = IF req # NoRequest /\ r # "ignore"
                 THEN [taken EXCEPT ![n] = [req |-> req, resp |-> r]] ELSE taken
     /\ IF req # NoRequest /\ r = "ignore" THEN Frees(req) ELSE UNCHANGED <<ended, told>>
     /\ UNCHANGED <<niConfig, niQueue, niClient, reqID, reqIDCounter, setting, prompt,
                    said, dropped, late>>

ThreadHasResponse(n) ==
  /\ respRecvd[thread[n].s]
  /\ ThreadTakes(n, resp[thread[n].s])

\* The wait may time out although the flag has just been set.
ThreadTimesOut(n) == ThreadTakes(n, "noResponse")

\* After the lock: the thread clears the session's id and posts the response.
ThreadEnds(n) ==
  /\ thread[n].at = "finishing"
  /\ thread' = [thread EXCEPT ![n].at = "done"]
  /\ reqID' = [reqID EXCEPT ![thread[n].s] = 0]
  /\ taken' = [taken EXCEPT ![n] = NoTake]
  /\ niQueue' = IF taken[n] = NoTake THEN niQueue
                ELSE Append(niQueue, [k |-> "niResponse", req |-> taken[n].req,
                                      resp |-> taken[n].resp])
  /\ UNCHANGED <<niConfig, niClient, rawRequest, resp, respRecvd, reqIDCounter, setting, prompt,
                 historyVars>>

NiThread(n) == ThreadHasResponse(n) \/ ThreadTimesOut(n) \/ ThreadEnds(n)

NiNext ==
  \/ \E n \in NiRequests : ModemRequests(n) \/ UserAnswers(n) \/ NiThread(n)
  \/ ClientChanges
  \/ NiAdapter

\* The adapter's thread and the NI threads run, and waits end.
NiFairness ==
  /\ WF_niVars(NiAdapter)
  /\ \A n \in NiRequests : WF_niVars(NiThread(n))

NiSpec == NiInit /\ [][NiNext]_niVars /\ NiFairness

-----------------------------------------------------------------------------
(* Properties *)

Copies(n) ==
  Cardinality(Holding(n)) + Cardinality({s \in NiSessions : rawRequest[s] = n})
  + Cardinality({m \in NiRequests : taken[m].req = n})

\* The data of a request is in one place at a time, in a message, a session or
\* a thread's hands, until it is given back to the modem or freed, once; and
\* an open session is waited on by the one thread that was started for it.
\* The adapter and the threads hand it over without a common lock (the checks
\* of rawRequest in requestNiNotify against niThreadProc).  A request dropped
\* for want of a client with the NI callback is in no place at all, and never
\* comes back.
NiDataOwned ==
  /\ \A n \in NiRequests : Copies(n) + ended[n] = IF Sent(n) /\ n \notin dropped THEN 1 ELSE 0
  /\ \A s \in NiSessions, n \in NiRequests :
       thread[n] = [at |-> "waiting", s |-> s] <=> rawRequest[s] = n

\* The modem hears "accept" or "deny" of a request the user was asked about
\* only when that was the user's response to this very request, as long as no
\* response was set in a session that had just ended (the flag such a response
\* leaves behind answers the session's next request).
AnswerIsUsers ==
  ~ late => \A n \in NiRequests :
              prompt[n] # 0 /\ told[n] \in Answers => told[n] = said[n]

\* Every request of the modem comes to an end: it is answered, or its data is
\* freed because another request goes before it (requestNiNotify, niThreadProc),
\* once, unless it was dropped for want of a client with the NI callback.
NiSettled == \A n \in NiRequests : Sent(n) ~> ended[n] = 1 \/ n \in dropped
=============================================================================
