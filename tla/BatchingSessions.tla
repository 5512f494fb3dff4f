-------------------------- MODULE BatchingSessions --------------------------
(***************************************************************************)
(* Why the framework can stop what runs for it: what every state of        *)
(* HalSpec has in common, for the theorem that RunningCanBeStopped holds.  *)
(***************************************************************************)
EXTENDS BatchingClient

-----------------------------------------------------------------------------
(* How many messages of a sequence concern a session, and in which order *)

\* A message of one of the kinds K about the session, and how many a sequence has.
Tells(m, K, id)   == m.k \in K /\ m.id = id
Worth(m, K, id)   == IF Tells(m, K, id) THEN 1 ELSE 0
Places(q, K, id)  == {n \in DOMAIN q : Tells(q[n], K, id)}
Number(q, K, id)  == Cardinality(Places(q, K, id))
Joined(q, r)      == q \o r

\* The last of those of the kinds K in q is a k.
Closes(q, k, K, id) ==
  \E n \in DOMAIN q : /\ Tells(q[n], {k}, id)
                      /\ \A m \in DOMAIN q : m > n => ~ Tells(q[m], K, id)

\* Some one of the kinds K comes before a k.
Precedes(q, K, k, id) ==
  \E n, m \in DOMAIN q : n < m /\ Tells(q[n], K, id) /\ Tells(q[m], {k}, id)

-----------------------------------------------------------------------------
(* The commands, calls and answers under way, counted by session *)

\* What the framework posts, and what the modem answers.
Posted   == {"start", "stop", "get"}
Replied  == {"started", "stopped", "got"}
Business == Posted \cup Replied

\* Of the messages w, the commands put aside p and the answers to come r, those
\* about a session: all, its starts, its stops that have left the queue for the
\* engine, its answers, and its starts that are not answered yet.
Open(w, p, r, id)     == Number(w, Business, id) + Number(p, Business, id) + Number(r, Business, id)
Starts(w, p, id)      == Number(w, {"start"}, id) + Number(p, {"start"}, id)
Halts(w, r, id)       == Number(w, {"stopped"}, id) + Number(r, {"stopped"}, id)
Answering(w, r, id)   == Number(w, Replied, id) + Number(r, Replied, id)
Starting(w, p, r, id) == Starts(w, p, id) + Number(w, {"started"}, id) + Number(r, {"started"}, id)

\* The youngest command about the session is a stop, or the answer to one.
Youngest(w, p, r, id) ==
  \/ Closes(w, "stop", Posted, id)
  \/ /\ Number(w, Posted, id) = 0
     /\ \/ Closes(p, "stop", Posted, id)
        \/ /\ Number(p, Posted, id) = 0
           /\ \/ Closes(r, "stopped", Replied, id)
              \/ Number(r, Replied, id) = 0 /\ Closes(w, "stopped", Replied, id)

-----------------------------------------------------------------------------
(* The inductive invariant *)

\* Ids are handed out from 1.
Numbered == \E k \in Nat : DOMAIN owner = 1 .. k

\* The answers the engine owes, and the messages of the HAL, which starts no trip.
RepliesOf(q) == [n \in DOMAIN q |-> q[n].reply]
Plainly     == {o \in Options : o.mode # "trip"}
Told(K, D)  == [k : K, id : D, opts : Plainly, acc : {0}, was : Modes, again : {FALSE}, ok : BOOLEAN]
LinkUp      == Msg("engineUp", 0, Routine, 0)
Heard(D)    == Told(Business, D) \cup {LinkUp} \cup Removals
Back(D)     == Told(Replied, D) \cup {Ignore}
HalCalls(D) == [op : {"start", "stop", "get"}, id : D, opts : Options, reply : Back(D)]

\* The counts of the current state.
OpenNow(id)     == Open(msgQ, pending, RepliesOf(apiQ), id)
StartsNow(id)   == Starts(msgQ, pending, id)
HaltsNow(id)    == Halts(msgQ, RepliesOf(apiQ), id)
AnswersNow(id)  == Answering(msgQ, RepliesOf(apiQ), id)
StartingNow(id) == Starting(msgQ, pending, RepliesOf(apiQ), id)
YoungestNow(id) == Youngest(msgQ, pending, RepliesOf(apiQ), id)

\* A session belongs to a client, and what is saved was handed out.
Ledger ==
  /\ live \subseteq clientData /\ clientData \subseteq Clients
  /\ Partial(owner, Clients) /\ Numbered
  /\ Partial(saved, {"routine", "noReport"}) /\ DOMAIN saved \subseteq DOMAIN owner /\ trips = << >>
  /\ capsKnown \in BOOLEAN /\ (capsKnown => pending = << >>)

\* Messages concern sessions that were handed out.
Mail ==
  /\ msgQ \in Seq(Heard(DOMAIN owner))
  /\ pending \in Seq(Told(Posted, DOMAIN owner))
  /\ apiQ \in Seq(HalCalls(DOMAIN owner))

\* What LocationAPIClientBase holds of a client is a session of that client.
Talks ==
  /\ session \in [Clients -> DOMAIN owner \cup {0}]
  /\ \A c \in Clients : session[c] # 0 => owner[session[c]] = c
  /\ requests \in [Clients -> Seq(Requests)]
  /\ taken # Nothing => taken.id \in DOMAIN owner /\ session[owner[taken.id]] = taken.id

\* A sweep is about the sessions of the client that has gone.
Sweeps ==
  /\ sweep \subseteq DOMAIN saved \cup {0}
  /\ sweep # {} => /\ msgQ # << >> /\ Head(msgQ).k = "remove"
                   /\ \A i \in sweep \ {0} : owner[i] = Head(msgQ).client
  /\ \A n \in DOMAIN msgQ : msgQ[n].k = "remove" => msgQ[n].client \notin live

Kept == Ledger /\ Mail /\ Talks /\ Sweeps

\* A session has one start and one stop under way at most, neither once it is saved.
Once(id) ==
  /\ StartsNow(id) <= 1 /\ (StartsNow(id) = 1 => id \notin DOMAIN saved /\ AnswersNow(id) = 0)
  /\ HaltsNow(id) <= 1 /\ (HaltsNow(id) = 1 => id \notin DOMAIN saved)

\* Before the capabilities are known a session still waits to be started: nothing
\* about it comes before its start, and what was put aside has the start in it.
Early(id) ==
  /\ StartsNow(id) # 0
  /\ Number(pending, Business, id) # 0 => Number(pending, {"start"}, id) # 0
  /\ ~ Precedes(msgQ, {"stop", "get"}, "start", id)

Prompt == ~ capsKnown => apiQ = << >> /\ saved = << >> /\ \A id \in DOMAIN owner : Early(id)

\* A stop is ahead of the start of its session: the adapter will not know the session.
Doomed(id) == capsKnown /\ Precedes(msgQ, {"stop"}, "start", id)

\* An answer to the client is bound to find no request or no session.
Lossy(c) ==
  \E id \in DOMAIN owner :
    /\ owner[id] = c
    /\ \/ id # session[c] /\ OpenNow(id) # 0
       \/ Doomed(id)

\* The answer being delivered ends the session.
Goes == taken # Nothing /\ taken.op = (IF taken.ok THEN "stop" ELSE "start")

\* The requests of the client are the commands and answers under way about its
\* session: as many, the first may be the start, the last may be the stop.
Tracked(c) ==
  LET s == session[c]
      q == requests[c]
  IN  /\ \A id \in DOMAIN owner : owner[id] = c /\ id # s => id \notin DOMAIN saved
      /\ s = 0 => q = << >>
      /\ s # 0 => Len(q) = OpenNow(s)
      /\ \A n \in DOMAIN q : q[n].op = "start" => n = 1
      /\ q # << >> /\ q[1].op = "start" => StartingNow(s) # 0
      /\ q # << >> /\ q[Len(q)].op = "stop" => YoungestNow(s)
      /\ Goes /\ owner[taken.id] = c => s \notin DOMAIN saved \/ OpenNow(s) # 0

\* How it is as long as every answer finds the request it is for.
Good ==
  /\ \A id \in DOMAIN owner : Once(id)
  /\ Prompt
  /\ \A c \in live : Lossy(c) \/ Tracked(c)

Followed == lost = {} => Good
HalInv == Kept /\ Followed

=============================================================================
