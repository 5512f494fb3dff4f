--------------------------- MODULE BatchingClient ---------------------------
(***************************************************************************)
(* The batching HAL on top of the batching adapter: GnssBatching and its   *)
(* BatchingAPIClient (gps/android/2.1), which keep one session, and the    *)
(* sessions of LocationAPIClientBase.                                      *)
(*                                                                         *)
(* A call of the framework looks the session up in mSessionBiDict, queues  *)
(* a request object for the answer and posts the command to the adapter.   *)
(* The adapter's answer takes the oldest request object, if the session it *)
(* names is in the dictionary, and it is this object that decides whether  *)
(* the session leaves the dictionary.                                      *)
(*                                                                         *)
(* Left out: updates and trips, which the HAL never asks for, and the      *)
(* options and locations it converts.                                      *)
(***************************************************************************)
EXTENDS Batching

VARIABLES
  session,  \* mSessionBiDict: the session of mDefaultId, or 0
  requests, \* mRequestQueues[REQUEST_SESSION]; of is the session it was made for
  taken,    \* the answer that is being given, with the request it took
  lost      \* history: sessions with a command that never was answered, or was
            \* when the session had left the dictionary

halVars == <<session, requests, taken, lost>>

Requests == [op : {"start", "stop", "get"}, of : Ids]
Answers  == [op : {"start", "stop", "get"}, of : Ids, answers : {"start", "stop", "get"},
             id : Ids, ok : BOOLEAN]
Nothing  == [op |-> "none"]

-----------------------------------------------------------------------------
(* The framework's calls, under the mutex of the client *)

Push(c, op, id) ==
  /\ requests' = [requests EXCEPT ![c] = Append(@, [op |-> op, of |-> id])]
  /\ UNCHANGED <<taken, lost>>

\* locAPIStartSession: a session that is in the dictionary is not started again.
StartSession(c, o) ==
  /\ session[c] = 0
  /\ StartBatchingCommand(c, o)
  /\ session' = [session EXCEPT ![c] = Cardinality(DOMAIN owner) + 1]
  /\ Push(c, "start", Cardinality(DOMAIN owner) + 1)

\* locAPIStopSession
StopSession(c) ==
  /\ session[c] # 0
  /\ StopBatchingCommand(session[c])
  /\ Push(c, "stop", session[c])
  /\ UNCHANGED session

\* locAPIGetBatchedLocations, for flush
FlushBatchedLocations(c) ==
  /\ session[c] # 0
  /\ c \in live
  /\ PostCommand(Msg("get", session[c], Routine, 0))
  /\ Push(c, "get", session[c])
  /\ UNCHANGED <<live, owner, session>>

\* LocationAPIClientBase::destroy drops the requests.
DestroyClient(c) ==
  /\ Destroy(c)
  /\ requests' = [requests EXCEPT ![c] = << >>]
  /\ UNCHANGED <<session, taken, lost>>

-----------------------------------------------------------------------------
(* The adapter's thread *)

\* reportResponse, onResponseCb and getRequestBySession: the answer to command
\* op takes the oldest request.
Respond(op, id, ok) ==
  LET c == owner[id]
      found == c \in clientData /\ session[c] = id /\ requests[c] # << >>
  IN  IF found
      THEN /\ taken' = [op |-> Head(requests[c]).op, of |-> Head(requests[c]).of,
                        answers |-> op, id |-> id, ok |-> ok]
           /\ requests' = [requests EXCEPT ![c] = Tail(@)]
           /\ UNCHANGED <<session, lost>>
      ELSE lost' = lost \cup {id} /\ UNCHANGED <<session, requests, taken>>

Silent == UNCHANGED halVars

\* Mutant: forgets a session whose stop failed.
OnResponse_always ==
  /\ taken # Nothing
  /\ taken' = Nothing
  /\ LET c    == owner[taken.id]
         goes == taken.op = "stop" \/ (taken.op = "start" /\ ~ taken.ok)
     IN  session' = IF goes /\ session[c] = taken.id THEN [session EXCEPT ![c] = 0] ELSE session
  /\ UNCHANGED <<requests, lost>>
  /\ UNCHANGED vars

\* onResponse of the request, which no longer holds the mutex: a start that
\* failed and a stop that did not take the session out of the dictionary.
OnResponse ==
  /\ taken # Nothing
  /\ taken' = Nothing
  /\ LET c    == owner[taken.id]
         goes == taken.op = (IF taken.ok THEN "stop" ELSE "start")
     IN  session' = IF goes /\ session[c] = taken.id THEN [session EXCEPT ![c] = 0] ELSE session
  /\ UNCHANGED <<requests, lost>>
  /\ UNCHANGED vars

\* A stop of a session the adapter does not know is not answered.
StopAsked ==
  /\ StopBatching
  /\ LET id == Head(msgQ).id
     IN  lost' = IF id \in DOMAIN saved THEN lost ELSE lost \cup {id}
  /\ UNCHANGED <<session, requests, taken>>

\* getBatchedLocationsCommand is answered at once when the session is unknown.
GetSetAside ==
  /\ Receive("get") /\ ~ capsKnown
  /\ pending' = Append(pending, Head(msgQ))
  /\ UNCHANGED <<apiQ, capsKnown, clientData, adapterVars>>
  /\ Silent

GetBatchedLocations ==
  /\ Command("get")
  /\ LET id == Head(msgQ).id
     IN  IF owner[id] \in clientData /\ id \in DOMAIN saved
         THEN apiQ' = Append(apiQ, Call("get", id, Routine, Msg("got", id, Routine, 0))) /\ Silent
         ELSE Respond("get", id, FALSE) /\ UNCHANGED apiQ
  /\ UNCHANGED adapterVars

Got ==
  /\ Reply("got")
  /\ Respond("get", Head(msgQ).id, Head(msgQ).ok)
  /\ UNCHANGED <<apiQ, adapterVars>>

\* One handler at a time: an answer is given to its end first.
HalAdapterNext ==
  \/ OnResponse
  \/ /\ taken = Nothing
     /\ \/ (SetAside \/ StartBatching \/ RemoveClient \/ SweepSession \/ Swept \/ EngineUp) /\ Silent
        \/ StopAsked \/ GetSetAside \/ GetBatchedLocations \/ Got
        \/ Started /\ Respond("start", Head(msgQ).id, Head(msgQ).ok)
        \/ Stopped /\ Respond("stop", Head(msgQ).id, Head(msgQ).ok)

HalEngineNext == (Accept \/ Refuse \/ EngineDown \/ OpenLink) /\ Silent

-----------------------------------------------------------------------------
ClientIdle ==
  /\ session = [c \in Clients |-> 0]
  /\ requests = [c \in Clients |-> << >>]
  /\ taken = Nothing

HalInit == ClientIdle /\ lost = {}

FrameworkNext ==
  \E c \in Clients :
    \/ \E o \in Plain : StartSession(c, o)
    \/ StopSession(c) \/ FlushBatchedLocations(c) \/ DestroyClient(c)

HalNext == FrameworkNext \/ HalAdapterNext \/ HalEngineNext

HalSpec == Init /\ HalInit /\ [][HalNext]_<<vars, halVars>>

-----------------------------------------------------------------------------
(* Properties *)

\* Types of what the client keeps.
HalTypeOK ==
  /\ session \in [Clients -> Ids \cup {0}]
  /\ requests \in [Clients -> Seq(Requests)]
  /\ taken \in Answers \cup {Nothing}
  /\ lost \subseteq Ids

\* At rest, a session that runs for a client is the one the client can stop
\* (removeSession, whatever request its answers took), unless an answer was
\* lost.
RunningCanBeStopped ==
  AtRest /\ taken = Nothing /\ lost = {} =>
    \A id \in DOMAIN saved : owner[id] \in live => session[owner[id]] = id

\* The session id of a response matches it with its command (LocationAPI.h): the
\* request object that is told of an answer was made for that command.
ResponsesMatchCommands ==
  taken # Nothing => taken.op = taken.answers /\ taken.of = taken.id
=============================================================================
