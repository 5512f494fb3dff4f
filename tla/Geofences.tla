------------------------------ MODULE Geofences ------------------------------
(***************************************************************************)
(* Geofences: the part of gps/location/LocationAPIClientBase.cpp a client  *)
(* runs in its own threads, and gps/geofence/GeofenceAdapter.cpp behind it.*)
(*                                                                         *)
(* A command names a batch of fences.  The client base translates its ids  *)
(* into the adapter's (mGeofenceBiDict), queues a request object for the   *)
(* answer and posts the command on the adapter's queue.  The adapter       *)
(* sends one "turn" per fence through the LocApi queue (addToCallQueue);   *)
(* when a turn comes back it looks the fence up and asks the modem; when   *)
(* the modem has answered for the last fence of the batch, the whole batch *)
(* is answered at once and its arrays are freed.  The client base gives an *)
(* answer to the request object at the head of its queue.                  *)
(*                                                                         *)
(* Left out: what a fence is apart from the breaches it asks for (place,   *)
(* radius, responsiveness, dwell), null arrays (HIDL never passes them),   *)
(* locAPIRemoveAllGeofences (not called), geofence status events, event    *)
(* masks and capabilities.                                                 *)
(***************************************************************************)
EXTENDS Integers, Sequences, FiniteSets

CONSTANTS
  Clients,       \* LocationAPIClientBase objects, each with its LocationAPI
  NoClient,
  MaxFences,     \* fence ids are handed out from 1 up to MaxFences
  MaxHw,         \* hardware ids of the modem
  AddMasks,      \* breachTypeMask: sets of breach types, to add a fence with
  ModifyMasks,   \* ... and to change it to
  MaxBatch,      \* fences in one command
  MaxCommands,   \* bound
  Scenarios,     \* bound: sets of events that may come together, each once
  MaxQueue       \* bound: clients post only while msgQ is shorter than this

Masks == AddMasks \cup ModifyMasks
Ids   == 1 .. MaxFences
HwIds == 1 .. MaxHw

\* What may happen besides commands and their service.
Events == {"refusal", "reset", "breach", "leave", "reuse"}

ASSUME ConstantsAssumption ==
  /\ NoClient \notin Clients
  /\ MaxFences \in Nat
  /\ MaxHw \in Nat
  /\ Masks \subseteq (SUBSET {"enter", "exit"}) \ {{}}
  /\ MaxBatch \in Nat \ {0}
  /\ Scenarios \subseteq SUBSET Events
  /\ MaxCommands \in Nat
  /\ MaxQueue \in Nat

VARIABLES
  \* LocationAPIClientBase
  live,         \* mLocationAPI is not null
  dict,         \* mGeofenceBiDict: the mask of each fence a client knows
  requests,     \* mRequestQueues[REQUEST_GEOFENCE], by number of the command
  owner,        \* [Ids -> client the id was made for]
  nextId,       \* mSessionIdCounter
  \* GeofenceAdapter
  msgQ,         \* the adapter's MsgTask queue
  clientData,   \* clients in mClientData
  geofences,    \* mGeofences: hardware id to fence
  geofenceIds,  \* mGeofenceIds: client and id to hardware id
  batches,      \* every command so far, with its arrays errs, ids and options
  \* LocApi thread and modem
  apiQ,
  link,         \* is the modem reachable
  modem,        \* [HwIds -> fence watched by the modem]
  usedHw,       \* hardware ids handed out so far
  \* bounds and history
  happened,     \* events so far
  delivered     \* what clients were told of breaches

clientVars  == <<live, dict, requests, owner, nextId>>
mapVars     == <<geofences, geofenceIds>>
modemVars   == <<link, modem, usedHw>>
vars == <<clientVars, msgQ, clientData, mapVars, batches, apiQ, modemVars, happened, delivered>>

-----------------------------------------------------------------------------
(* Fences, commands, messages *)

NoMask  == {}     \* no breach type: also what getExtBySession returns for nothing
Fence   == [id : Ids, mask : Masks, paused : BOOLEAN]
NoFence == [id |-> 0, mask |-> NoMask, paused |-> FALSE]

Present(map) == {h \in HwIds : map[h] # NoFence}

Cmds == {"add", "remove", "pause", "resume", "modify"}

Errors == {"unset", "ok", "refused", "unknown"}

\* The arrays of a command: fences it names, options (masks), and one error
\* per fence, "unset" until it is written.  freed: delete[] was called.
\* told counts its answers; heard is the command whose answer its request got.
Commands ==
  [cmd : Cmds, client : Clients, ids : Seq(Ids), masks : Seq(Masks \cup {NoMask}),
   errs : Seq(Errors), freed : BOOLEAN, told : Nat, heard : 0 .. MaxCommands]

Batch(cmd, c, ids, masks) ==
  [cmd |-> cmd, client |-> c, ids |-> ids, masks |-> masks,
   errs |-> [i \in DOMAIN ids |-> "unset"], freed |-> FALSE, told |-> 0, heard |-> 0]

\* Commands and the lambdas handed to LocApiResponse, by what they do.
Kinds == {"command",     \* MsgAddGeofences ... MsgModifyGeofences
          "turn",        \* addToCallQueue
          "done",        \* the modem's answer for one fence of a batch
          "removeClient", "engineUp", "breach",
          "swept",       \* stopClientSessions
          "restored",    \* restartGeofences
          "ignore"}      \* [] (LocationError) {}

\* What a request or a breach says of a fence: an id, a mask, or nothing.
Described == [id : Ids \cup {0}, mask : SUBSET {"enter", "exit"}, paused : BOOLEAN]

Messages ==
  [k : Kinds, client : Clients \cup {NoClient}, batch : 0 .. MaxCommands, item : 0 .. MaxBatch,
   hw : HwIds \cup {0}, fence : Described, ok : BOOLEAN]

Ops   == Cmds \cup {"turn", "open"}
Calls == [op : Ops, hw : HwIds \cup {0}, fence : Described, reply : Messages]

Blank == [k |-> "ignore", client |-> NoClient, batch |-> 0, item |-> 0, hw |-> 0,
          fence |-> NoFence, ok |-> TRUE]

Of(k, b, i) == [Blank EXCEPT !.k = k, !.batch = b, !.item = i]

Call(op, hw, fence, reply) == [op |-> op, hw |-> hw, fence |-> fence, reply |-> reply]
Open == Call("open", 0, NoFence, Blank)

Watching(id, mask) == [id |-> id, mask |-> mask, paused |-> FALSE]

\* The numbers of the fences of batch b, and the last of them.
Items(b)  == DOMAIN batches[b].ids
IsLast(b, i) == i = Len(batches[b].ids)

Happens(event) ==
  /\ event \notin happened
  /\ \E s \in Scenarios : happened \cup {event} \subseteq s
  /\ happened' = happened \cup {event}

\* The modem hands out a hardware id again, as often as it likes.
Reuses == /\ \E s \in Scenarios : happened \cup {"reuse"} \subseteq s
          /\ happened' = happened \cup {"reuse"}

NoReuse == "reuse" \notin happened

\* A finite set of numbers in the order in which std::map is walked through.
Ascending(S) ==
  [n \in 1 .. Cardinality(S) |-> CHOOSE i \in S : Cardinality({j \in S : j <= i}) = n]

Post(m)      == msgQ' = Append(msgQ, m)
Request(seq) == apiQ' = apiQ \o seq

-----------------------------------------------------------------------------
(* Client threads: LocationAPIClientBase under its mutex.  The commands of  *)
(* GeofenceAdapter copy the arrays and post one message.                    *)

Issue(cmd, c, ids, masks) ==
  /\ live[c]
  /\ Len(msgQ) < MaxQueue
  /\ Len(batches) < MaxCommands
  /\ batches' = Append(batches, Batch(cmd, c, ids, masks))
  /\ requests' = [requests EXCEPT ![c] = Append(@, Len(batches) + 1)]
  /\ Post(Of("command", Len(batches) + 1, 0))
  /\ UNCHANGED <<live, clientData, mapVars, apiQ, modemVars, happened, delivered>>

Sizes == 1 .. MaxBatch

\* locAPIAddGeofences
AddGeofences(c, masks) ==
  LET ids == [i \in DOMAIN masks |-> nextId + i - 1]
  IN  /\ nextId + Len(masks) - 1 \in Ids
      /\ nextId' = nextId + Len(masks)
      /\ owner' = [id \in Ids |-> IF id \in {ids[i] : i \in DOMAIN ids} THEN c ELSE owner[id]]
      /\ dict' = [id \in Ids |-> IF id \in {ids[i] : i \in DOMAIN ids}
                                 THEN masks[id - nextId + 1] ELSE dict[id]]
      /\ Issue("add", c, ids, masks)

\* What a client may name: its own fences, each once.
Named(c) == {ids \in UNION {[1 .. n -> Ids] : n \in Sizes} :
               /\ \A i \in DOMAIN ids : owner[ids[i]] = c
               /\ \A i, j \in DOMAIN ids : i < j => ids[i] < ids[j]}

Known(id) == dict[id] # NoMask

\* The loop all four commands share keeps the fences in mGeofenceBiDict, and
\* nothing is sent for none.  The options are not moved up with the ids.
Translated(ids) ==
  LET kept == Ascending({i \in DOMAIN ids : Known(ids[i])})
  IN  [n \in DOMAIN kept |-> ids[kept[n]]]

Change(cmd, c, ids, masks) ==
  /\ Translated(ids) # << >>
  /\ Issue(cmd, c, Translated(ids), masks)
  /\ UNCHANGED <<owner, nextId>>

NewMask(ids, masks, id) ==
  IF \E i \in DOMAIN ids : ids[i] = id /\ Known(id)
  THEN masks[CHOOSE i \in DOMAIN ids : ids[i] = id]
  ELSE dict[id]

Nothing(ids) == [i \in DOMAIN ids |-> NoMask]

\* locAPIRemoveGeofences: the fences leave the dictionary at once.
RemoveGeofences(c, ids) ==
  /\ Change("remove", c, ids, Nothing(ids))
  /\ dict' = [id \in Ids |-> NewMask(ids, Nothing(ids), id)]

\* locAPIPauseGeofences
PauseGeofences(c, ids) ==
  /\ Change("pause", c, ids, Nothing(ids))
  /\ UNCHANGED dict

\* locAPIResumeGeofences: the mask goes into the dictionary only.
ResumeGeofences(c, ids, masks) ==
  /\ Change("resume", c, ids, Nothing(ids))
  /\ dict' = [id \in Ids |-> NewMask(ids, masks, id)]

\* locAPIModifyGeofences
ModifyGeofences(c, ids, masks) ==
  /\ Change("modify", c, ids, masks)
  /\ dict' = [id \in Ids |-> NewMask(ids, masks, id)]

\* LocationAPIClientBase::destroy
Destroy(c) ==
  /\ live[c]
  /\ Len(msgQ) < MaxQueue
  /\ Happens("leave")
  /\ live' = [live EXCEPT ![c] = FALSE]
  /\ requests' = [requests EXCEPT ![c] = << >>]
  /\ Post([Blank EXCEPT !.k = "removeClient", !.client = c])
  /\ UNCHANGED <<dict, owner, nextId, clientData, mapVars, batches, apiQ, modemVars, delivered>>


Choices(n, masks) == [1 .. n -> masks]

ClientStep ==
  \E c \in Clients :
    \/ \E n \in Sizes : \E masks \in Choices(n, AddMasks) : AddGeofences(c, masks)
    \/ \E ids \in Named(c) :
         \/ RemoveGeofences(c, ids)
         \/ PauseGeofences(c, ids)
         \/ \E masks \in Choices(Len(ids), AddMasks) : ResumeGeofences(c, ids, masks)
         \/ \E masks \in Choices(Len(ids), ModifyMasks) : ModifyGeofences(c, ids, masks)
    \/ Destroy(c)

-----------------------------------------------------------------------------
(* The adapter thread *)

msg == Head(msgQ)     \* the message being handled
cmd == batches[msg.batch]

Receive(k) ==
  /\ msgQ # << >>
  /\ msg.k = k
  /\ msgQ' = Tail(msgQ)

AdapterKeeps == UNCHANGED <<live, dict, owner, nextId, modemVars, happened>>

\* MsgAddGeofences::proc and its four sisters: a turn for every fence.
StartBatch ==
  /\ Receive("command")
  /\ Request([i \in Items(msg.batch) |->
                Call("turn", 0, NoFence, Of("turn", msg.batch, i))])
  /\ UNCHANGED <<requests, clientData, mapVars, batches, delivered>>
  /\ AdapterKeeps

\* reportResponse, and onCollectiveResponseCb on the same thread: the oldest
\* request object gets the answer.  Then the arrays are freed.
Answer(b, errs) ==
  LET c == batches[b].client
      answered == [batches EXCEPT ![b].errs = errs, ![b].freed = TRUE]
  IN  IF c \notin clientData
      THEN batches' = answered /\ UNCHANGED requests
      ELSE IF requests[c] = << >>
           THEN batches' = [answered EXCEPT ![b].told = @ + 1] /\ UNCHANGED requests
           ELSE /\ batches' = [answered EXCEPT ![b].told = @ + 1,
                                               ![Head(requests[c])].heard = b]
                /\ requests' = [requests EXCEPT ![c] = Tail(@)]

\* errs[i] = err: into freed memory when the batch has been answered.
Written(b, i, err) ==
  IF batches[b].freed THEN batches[b].errs ELSE [batches[b].errs EXCEPT ![i] = err]

Store(b, i, err) ==
  /\ batches' = [batches EXCEPT ![b].errs = Written(b, i, err)]
  /\ UNCHANGED requests

\* Mutant: answers after each fence.
AnswerIfLast_each(b, i, err) == Answer(b, Written(b, i, err))

AnswerIfLast(b, i, err) ==
  IF IsLast(b, i) THEN Answer(b, Written(b, i, err)) ELSE Store(b, i, err)

Turn(how) ==
  /\ Receive("turn")
  /\ cmd.cmd \in how
  /\ UNCHANGED <<clientData, mapVars, delivered>>
  /\ AdapterKeeps

Ask(hw, fence) == Request(<<Call(cmd.cmd, hw, fence, Of("done", msg.batch, msg.item))>>)

AddTurn ==
  /\ Turn({"add"})
  /\ Ask(0, Watching(cmd.ids[msg.item], cmd.masks[msg.item]))
  /\ UNCHANGED <<requests, batches>>

\* getHwIdFromClient finds the fence, and errs[i] is already SUCCESS
FoundTurn ==
  /\ Turn(Cmds \ {"add"})
  /\ geofenceIds[cmd.ids[msg.item]] # 0
  /\ Ask(geofenceIds[cmd.ids[msg.item]], Watching(cmd.ids[msg.item], cmd.masks[msg.item]))
  /\ Store(msg.batch, msg.item, "ok")

\* Mutant: forgets the answer on this path.
UnknownTurn_mute ==
  /\ Turn(Cmds \ {"add"})
  /\ geofenceIds[cmd.ids[msg.item]] = 0
  /\ Store(msg.batch, msg.item, "unknown")
  /\ UNCHANGED apiQ

\* ... or not, and if it is the last of the batch the batch is answered,
\* while others may still be with the modem
UnknownTurn ==
  /\ Turn(Cmds \ {"add"})
  /\ geofenceIds[cmd.ids[msg.item]] = 0
  /\ AnswerIfLast(msg.batch, msg.item, "unknown")
  /\ UNCHANGED apiQ

-----------------------------------------------------------------------------
(* ... and the maps, as the modem's answers come *)

\* saveGeofenceItem
SaveItem(id, hw, mask) ==
  /\ geofences' = [geofences EXCEPT ![hw] = Watching(id, mask)]
  /\ geofenceIds' = [geofenceIds EXCEPT ![id] = hw]

\* removeGeofenceItem: nothing happens when the id is gone already
RemoveItem(hw) ==
  IF geofences[hw] # NoFence /\ geofenceIds[geofences[hw].id] # 0
  THEN /\ geofenceIds' = [geofenceIds EXCEPT ![geofences[hw].id] = 0]
       /\ geofences' = [geofences EXCEPT ![hw] = NoFence]
  ELSE UNCHANGED mapVars

\* pauseGeofenceItem, resumeGeofenceItem
SetPaused(hw, paused) ==
  /\ geofences' = IF geofences[hw] = NoFence THEN geofences
                  ELSE [geofences EXCEPT ![hw].paused = paused]
  /\ UNCHANGED geofenceIds

\* modifyGeofenceItem
SetMask(hw, mask) ==
  /\ geofences' = IF geofences[hw] = NoFence THEN geofences
                  ELSE [geofences EXCEPT ![hw].mask = mask]
  /\ UNCHANGED geofenceIds

\* mOptions[i]: any mask once the arrays are freed
Options(b, i) == IF batches[b].freed THEN Masks ELSE {batches[b].masks[i]}

Done(how) ==
  /\ Receive("done")
  /\ cmd.cmd \in how
  /\ UNCHANGED <<clientData, apiQ, delivered>>
  /\ AdapterKeeps

Result == IF msg.ok THEN "ok" ELSE "refused"

AddDone ==
  /\ Done({"add"})
  /\ IF msg.ok
     THEN SaveItem(cmd.ids[msg.item], msg.hw, cmd.masks[msg.item])
     ELSE UNCHANGED mapVars
  /\ AnswerIfLast(msg.batch, msg.item, Result)

RemoveDone ==
  /\ Done({"remove"})
  /\ IF msg.ok THEN RemoveItem(msg.hw) ELSE UNCHANGED mapVars
  /\ AnswerIfLast(msg.batch, msg.item, Result)

\* Mutant: takes a refusal for a success.
PauseDone_always ==
  /\ Done({"pause"})
  /\ SetPaused(msg.hw, TRUE)
  /\ AnswerIfLast(msg.batch, msg.item, Result)

PauseDone ==
  /\ Done({"pause"})
  /\ IF msg.ok THEN SetPaused(msg.hw, TRUE) ELSE UNCHANGED mapVars
  /\ AnswerIfLast(msg.batch, msg.item, Result)

\* a refused resume is not even stored, let alone answered
ResumeDone ==
  /\ Done({"resume"})
  /\ msg.ok
  /\ SetPaused(msg.hw, FALSE)
  /\ AnswerIfLast(msg.batch, msg.item, "ok")

ResumeRefused ==
  /\ Done({"resume"})
  /\ ~msg.ok
  /\ UNCHANGED <<mapVars, requests, batches>>

\* a refused modify keeps the SUCCESS of the lookup
ModifyDone ==
  /\ Done({"modify"})
  /\ IF msg.ok
     THEN \E mask \in Options(msg.batch, msg.item) : SetMask(msg.hw, mask)
     ELSE UNCHANGED mapVars
  /\ AnswerIfLast(msg.batch, msg.item, "ok")

\* stopClientSessions and eraseClient: the ids go at once ...
RemoveClient ==
  LET gone      == {id \in Ids : owner[id] = msg.client /\ geofenceIds[id] # 0}
      sweep(id) == Call("remove", geofenceIds[id], NoFence, [Blank EXCEPT !.k = "swept"])
  IN  /\ Receive("removeClient")
      /\ Request([n \in DOMAIN Ascending(gone) |-> sweep(Ascending(gone)[n])])
      /\ geofenceIds' = [id \in Ids |-> IF id \in gone THEN 0 ELSE geofenceIds[id]]
      /\ clientData' = clientData \ {msg.client}
      /\ UNCHANGED <<requests, geofences, batches, delivered>>
      /\ AdapterKeeps

\* ... the fences when the modem agrees.
Swept ==
  /\ Receive("swept")
  /\ geofences' = IF msg.ok THEN [geofences EXCEPT ![msg.hw] = NoFence] ELSE geofences
  /\ UNCHANGED <<requests, clientData, geofenceIds, batches, apiQ, delivered>>
  /\ AdapterKeeps

AddAgain ==
  LET again(h) == Call("add", 0, Watching(geofences[h].id, geofences[h].mask),
                       [Blank EXCEPT !.k = "restored", !.fence = geofences[h]])
      saved    == Ascending(Present(geofences))
  IN  [n \in DOMAIN saved |-> again(saved[n])]

\* restartGeofences
RestartGeofences ==
  /\ Receive("engineUp")
  /\ Request(AddAgain)
  /\ geofences' = [h \in HwIds |-> NoFence]
  /\ geofenceIds' = [id \in Ids |-> 0]
  /\ UNCHANGED <<requests, clientData, batches, delivered>>
  /\ AdapterKeeps

\* Mutant: a paused fence is not paused again.
Restored_running ==
  /\ Receive("restored")
  /\ IF msg.ok THEN SaveItem(msg.fence.id, msg.hw, msg.fence.mask) ELSE UNCHANGED mapVars
  /\ UNCHANGED <<requests, clientData, batches, delivered, apiQ>>
  /\ AdapterKeeps

\* its lambda: a paused fence is paused again, but saved as one that runs
Restored ==
  /\ Receive("restored")
  /\ IF msg.ok THEN SaveItem(msg.fence.id, msg.hw, msg.fence.mask) ELSE UNCHANGED mapVars
  /\ Request(IF msg.ok /\ msg.fence.paused
             THEN <<Call("pause", msg.hw, NoFence, Blank)>> ELSE << >>)
  /\ UNCHANGED <<requests, clientData, batches, delivered>>
  /\ AdapterKeeps

\* beforeGeofenceBreachCb: what client c asked of fence id, if it knows it.
Knows(c, id) == IF id \in Ids /\ owner[id] = c THEN dict[id] ELSE NoMask

\* geofenceBreach tells every client whose fence the hardware id is, and the
\* client base tells the client when its own mask agrees.  msg.fence is the
\* fence the modem meant, and the type of the breach.
Deliver(id) ==
  delivered' = delivered \cup
    {[client |-> c, told |-> id, meant |-> msg.fence.id] :
       c \in {d \in clientData : /\ geofences[msg.hw] # NoFence
                                /\ owner[geofences[msg.hw].id] = d
                                /\ live[d]
                                /\ msg.fence.mask \subseteq Knows(d, id)}}

\* Mutant: passes the hardware id on.
BreachReported_hwId ==
  /\ Receive("breach")
  /\ Deliver(msg.hw)
  /\ UNCHANGED <<requests, clientData, mapVars, batches, apiQ>>
  /\ AdapterKeeps

BreachReported ==
  /\ Receive("breach")
  /\ Deliver(geofences[msg.hw].id)
  /\ UNCHANGED <<requests, clientData, mapVars, batches, apiQ>>
  /\ AdapterKeeps

AdapterStep ==
  \/ StartBatch \/ AddTurn \/ FoundTurn \/ UnknownTurn
  \/ AddDone \/ RemoveDone \/ PauseDone \/ ResumeDone \/ ResumeRefused \/ ModifyDone
  \/ RemoveClient \/ Swept \/ RestartGeofences \/ Restored \/ BreachReported

-----------------------------------------------------------------------------
(* The LocApi thread and the modem, which are outside the tree.  Assumed:  *)
(* requests are served in order, none succeeds while the link is down or   *)
(* for a fence the modem does not have, and a refusal changes nothing.     *)

ModemKeeps == UNCHANGED <<clientVars, clientData, mapVars, batches, delivered>>

Serving(op) ==
  /\ apiQ # << >>
  /\ Head(apiQ).op = op
  /\ apiQ' = Tail(apiQ)
  /\ ModemKeeps

Reply(hw, ok) ==
  IF Head(apiQ).reply.k = "ignore"
  THEN UNCHANGED msgQ
  ELSE Post([Head(apiQ).reply EXCEPT !.hw = hw, !.ok = ok])

GiveTurn ==
  /\ Serving("turn")
  /\ Reply(0, TRUE)
  /\ UNCHANGED <<modemVars, happened>>

\* LocOpenMsg, LocSsrMsg: open the link, then tell the adapters.
OpenLink ==
  /\ Serving("open")
  /\ link' = TRUE
  /\ Post([Blank EXCEPT !.k = "engineUp"])
  /\ UNCHANGED <<modem, usedHw, happened>>

\* Which new hardware id is taken is of no matter: the lowest.
Lowest(S) == {h \in S : \A g \in S : g >= h}

\* The modem takes a hardware id it has not used before, or any one that is free.
ModemAdds ==
  /\ Serving("add")
  /\ link
  /\ \E hw \in Lowest(HwIds \ usedHw) \cup (usedHw \ Present(modem)) :
       /\ IF hw \in usedHw THEN Reuses ELSE UNCHANGED happened
       /\ modem' = [modem EXCEPT ![hw] = Head(apiQ).fence]
       /\ usedHw' = usedHw \cup {hw}
       /\ Reply(hw, TRUE)
  /\ UNCHANGED link

Changed(fence, call) ==
  CASE call.op = "remove" -> NoFence
    [] call.op = "pause"  -> [fence EXCEPT !.paused = TRUE]
    [] call.op = "resume" -> [fence EXCEPT !.paused = FALSE]
    [] call.op = "modify" -> [fence EXCEPT !.mask = call.fence.mask]

ModemChanges ==
  LET call == Head(apiQ)
  IN  /\ \E op \in Cmds \ {"add"} : Serving(op)
      /\ link
      /\ call.hw \in Present(modem)
      /\ modem' = [modem EXCEPT ![call.hw] = Changed(@, call)]
      /\ Reply(call.hw, TRUE)
      /\ UNCHANGED <<link, usedHw, happened>>

Possible(call) == call.op = "add" \/ call.hw \in Present(modem)

\* unreachable, or no such fence ...
ModemFails ==
  LET call == Head(apiQ)
  IN  /\ \E op \in Cmds : Serving(op)
      /\ ~link \/ ~Possible(call)
      /\ Reply(call.hw, FALSE)
      /\ UNCHANGED <<modemVars, happened>>

\* ... or unwilling.
ModemRefuses ==
  LET call == Head(apiQ)
  IN  /\ \E op \in Cmds : Serving(op)
      /\ link /\ Possible(call)
      /\ Happens("refusal")
      /\ Reply(call.hw, FALSE)
      /\ UNCHANGED modemVars

LocApiStep == GiveTurn \/ OpenLink \/ ModemAdds \/ ModemChanges \/ ModemFails \/ ModemRefuses

\* The modem restarts and forgets its fences.
ModemReset ==
  /\ link
  /\ Happens("reset")
  /\ link' = FALSE
  /\ modem' = [h \in HwIds |-> NoFence]
  /\ Request(<<Open>>)
  /\ UNCHANGED <<msgQ, usedHw>>
  /\ ModemKeeps

\* A breach of one fence that runs, of a type it asks for (geofenceBreachEvent).
Breach(hw, type) ==
  /\ link
  /\ modem[hw] # NoFence
  /\ ~modem[hw].paused
  /\ type \in modem[hw].mask
  /\ Happens("breach")
  /\ Post([Blank EXCEPT !.k = "breach", !.hw = hw, !.fence = [modem[hw] EXCEPT !.mask = {type}]])
  /\ UNCHANGED <<apiQ, modemVars>>
  /\ ModemKeeps

ModemStep == ModemReset \/ \E hw \in HwIds, type \in {"enter", "exit"} : Breach(hw, type)

-----------------------------------------------------------------------------
Init ==
  /\ live = [c \in Clients |-> TRUE]
  /\ dict = [id \in Ids |-> NoMask]
  /\ requests = [c \in Clients |-> << >>]
  /\ owner = [id \in Ids |-> NoClient]
  /\ nextId = 1
  /\ msgQ = << >>
  /\ clientData = Clients
  /\ geofences = [h \in HwIds |-> NoFence]
  /\ geofenceIds = [id \in Ids |-> 0]
  /\ batches = << >>
  /\ apiQ = << >>
  /\ link = TRUE
  /\ modem = [h \in HwIds |-> NoFence]
  /\ usedHw = {}
  /\ happened = {}
  /\ delivered = {}

Next == ClientStep \/ AdapterStep \/ LocApiStep \/ ModemStep

Spec == Init /\ [][Next]_vars

-----------------------------------------------------------------------------
(* Properties: of which only BreachesReachOwner is about runs in which the  *)
(* modem hands a hardware id out again.                                    *)

AtRest == msgQ = << >> /\ apiQ = << >> /\ link

\* Every variable, queue and message keeps its type: no handler names a
\* fence, item or command that does not exist.
TypeOK ==
  /\ live \in [Clients -> BOOLEAN]
  /\ dict \in [Ids -> Masks \cup {NoMask}]
  /\ requests \in [Clients -> Seq(1 .. MaxCommands)]
  /\ owner \in [Ids -> Clients \cup {NoClient}]
  /\ nextId \in 1 .. MaxFences + 1
  /\ msgQ \in Seq(Messages)
  /\ clientData \in SUBSET Clients
  /\ geofences \in [HwIds -> Fence \cup {NoFence}]
  /\ geofenceIds \in [Ids -> HwIds \cup {0}]
  /\ batches \in Seq(Commands)
  /\ Len(batches) <= MaxCommands
  /\ apiQ \in Seq(Calls)
  /\ link \in BOOLEAN
  /\ modem \in [HwIds -> Fence \cup {NoFence}]
  /\ usedHw \in SUBSET HwIds
  /\ happened \in SUBSET Events
  /\ delivered \in SUBSET [client : Clients, told : Ids, meant : Ids]

\* A modify answered while the modem was still busy with some of its fences.
CutShort == \E b \in DOMAIN batches :
              batches[b].cmd = "modify" /\ Len(batches[b].ids) > 1
              /\ batches[b].freed /\ batches[b].errs[Len(batches[b].ids)] = "unknown"

\* The adapter finds the fence of an id under the hardware id it finds for it,
\* until one is handed out again.
IdsNameOwnFences ==
  \A id \in Ids : geofenceIds[id] # 0 => geofences[geofenceIds[id]].id = id

\* As long as no hardware id is handed out again, the two maps agree, and at
\* rest they and the modem agree on the fences, their masks (unless freed
\* options were read) and, until a restart, on which are paused.  Fences of a
\* client that has left may stay in the map alone.
FencesMirrored ==
  /\ NoReuse => IdsNameOwnFences
  /\ NoReuse /\ AtRest =>
       /\ \A h \in Present(geofences) :
            owner[geofences[h].id] \in clientData => h \in Present(modem)
       /\ \A h \in Present(modem) :
            /\ geofences[h].id = modem[h].id
            /\ CutShort \/ geofences[h].mask = modem[h].mask
            /\ "reset" \in happened \/ geofences[h].paused = modem[h].paused

\* A command is answered once, and is answered when all is done, unless the
\* client has left, or it is a resume and the modem refused something; as long
\* as no hardware id is handed out again.
MayBeForgotten(b) ==
  batches[b].cmd = "resume" /\ happened \cap {"refusal", "reset"} # {}

AnsweredOnce ==
  NoReuse => \A b \in DOMAIN batches :
    /\ batches[b].told <= 1
    /\ AtRest /\ ~MayBeForgotten(b) /\ live[batches[b].client] => batches[b].told = 1

\* A breach is reported to nobody or to the owner of the fence the modem meant,
\* under that fence's id (geofenceBreach compares clients, and the client base
\* looks the id up), also when fences go and their hardware ids are handed out
\* again while it is on its way.
BreachesReachOwner ==
  \A d \in delivered : d.told = d.meant /\ d.client = owner[d.meant]

\* What clients were told is what the modem does, as long as no hardware id is
\* handed out again.  Told(cmds, id) are the
\* commands of these kinds answered with success for fence id.
Told(cmds, id) ==
  {b \in DOMAIN batches : /\ batches[b].cmd \in cmds
                          /\ batches[b].told = 1
                          /\ \E i \in Items(b) : batches[b].ids[i] = id /\ batches[b].errs[i] = "ok"}

Latest(S) == CHOOSE b \in S : \A a \in S : a <= b

OneByOne == \A b \in DOMAIN batches : Len(batches[b].ids) = 1

Heeded(id) ==
  LET toggles == Told({"pause", "resume"}, id)
      here    == {h \in Present(modem) : modem[h].id = id}
  IN  /\ Cardinality(here) = IF Told({"add"}, id) # {} /\ Told({"remove"}, id) = {} THEN 1 ELSE 0
      /\ \A h \in here : modem[h].paused <=> toggles # {} /\ batches[Latest(toggles)].cmd = "pause"

AnswersHold ==
  NoReuse /\ AtRest /\ (OneByOne \/ happened \cap {"reset", "refusal"} = {})
         /\ ~({"reset", "refusal"} \subseteq happened)
    => \A id \in Ids : owner[id] # NoClient /\ live[owner[id]] => Heeded(id)

\* A command that may be answered before earlier ones, or never.
Overtakes(b) == MayBeForgotten(b) \/ \E i \in Items(b) : batches[b].errs[i] = "unknown"

\* Answers take the oldest request object (onCollectiveResponseCb), and that is
\* the one made for their command, whatever is under way, as long as every
\* fence is known by the time its turn comes, no resume is refused and no
\* hardware id is handed out again.
AnswersReachRequests ==
  NoReuse /\ (\A b \in DOMAIN batches : ~Overtakes(b)) =>
    \A b \in DOMAIN batches : batches[b].heard \in {0, b}

=============================================================================
