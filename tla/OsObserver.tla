----------------------------- MODULE OsObserver -----------------------------
(***************************************************************************)
(* core/SystemStatusOsObserver.cpp: stands between those who want to know  *)
(* of the phone's data items (network, cell, ...) and the framework, which *)
(* reports them.  It keeps who subscribed to what in two maps, one by      *)
(* client and one by item (utils/LocUnorderedSetMap.h), asks the framework *)
(* for an item when its first client comes, tells it to stop when the last *)
(* one goes, and keeps the last value of every item for those who come     *)
(* later.                                                                  *)
(*                                                                         *)
(* The framework is not in the tree (IDataItemSubscription is its          *)
(* interface): it reports the value of an item when it is subscribed to,   *)
(* when it is requested, and whenever it changes while subscribed to.      *)
(*                                                                         *)
(* A map entry that is not there is the empty set.  Left out: turnOn,      *)
(* turnOff and the backhaul calls, and how SystemStatus merges reports on  *)
(* several networks into one value.                                        *)
(***************************************************************************)
EXTENDS Integers, Sequences, FiniteSets, SequencesExt, Functions

CONSTANTS
  Watchers,    \* IDataItemObservers
  Callers,     \* those of them that come and go
  Items,       \* data items
  Values,      \* values of an item
  NoValue,     \* no value yet
  WatchCalls,  \* bound: calls of the watchers
  MaxChanges,  \* bound: changes of items
  MaxOsQueue   \* bound: calls are made only while osQ is shorter than this

ASSUME OsObserverAssumption ==
  /\ IsFiniteSet(Watchers) /\ Callers \subseteq Watchers /\ NoValue \notin Values
  /\ WatchCalls \in Nat /\ MaxChanges \in Nat /\ MaxOsQueue \in Nat

VARIABLES
  osQ,          \* the queue of mMsgTask, which the watchers use as well
  attached,     \* is mSubscriptionObj set?
  offered,      \* has setSubscriptionObj been called?
  clientItems,  \* mClientToDataItems
  itemClients,  \* mDataItemToClients
  cache,        \* mDataItemCache
  heard,        \* the last value of each item a watcher has taken in
  world, asked, due,     \* framework: values, items subscribed to, items to report
  watchCalls, changes,   \* bounds
  requested,    \* history: items recorded for a client that only requested data
  updaters      \* history: clients that called updateSubscription

mapVars       == <<clientItems, itemClients, requested, updaters>>
frameworkVars == <<world, asked, due>>
osVars == <<osQ, attached, offered, mapVars, cache, heard, frameworkVars, watchCalls, changes>>

-----------------------------------------------------------------------------
(* LocUnorderedSetMap.  trimOrRemove reads the key of an entry it has just *)
(* freed; nothing is allocated in between, so it still reads as before.    *)

Added(map, keys, vals)   == [k \in DOMAIN map |-> IF k \in keys THEN map[k] \cup vals ELSE map[k]]
Trimmed(map, keys, vals) == [k \in DOMAIN map |-> IF k \in keys THEN map[k] \ vals ELSE map[k]]
NewKeys(map, keys)       == {k \in keys : map[k] = {}}
GoneKeys(map, keys, vals) == {k \in keys : map[k] # {} /\ map[k] \subseteq vals}

\* removeAndReturnInterset goes on from an iterator it has erased: it may stop
\* at any time after the first common element.
Intersections(s1, s2) == {s \in SUBSET (s1 \cap s2) : s = {} => s1 \cap s2 = {}}

-----------------------------------------------------------------------------
(* Messages and what the handlers have in common *)

Ask(k, c, items) == [k |-> k, client |-> c, items |-> items]
Notice(news)     == [k |-> "notify", news |-> news]
Told(c, news)    == [k |-> "told", client |-> c, news |-> news]

Kinds == {"subscribe", "request", "update", "unsubscribe", "unsubscribeAll"}

Takes(k)  == osQ # <<>> /\ Head(osQ).k = k
Done      == osQ' = Tail(osQ)
Item(map) == {i \in DOMAIN map : map[i] # NoValue}

\* Values of the items, some of which are new.
Updated(values, news) ==
  [i \in Items |-> IF i \in DOMAIN news THEN news[i] ELSE values[i]]

\* sendCachedDataItems: the watcher's notify posts a message to itself.
Cached(c, items) ==
  LET known == items \cap Item(cache)
  IN IF known = {} THEN <<>> ELSE <<Told(c, Restrict(cache, known))>>

\* Calls of the framework's subscribe, requestData and unsubscribe.
Orders(subscribed, wanted, dropped) ==
  IF attached
    THEN /\ asked' = (asked \cup subscribed) \ dropped
         /\ due' = due \cup subscribed \cup wanted
         /\ UNCHANGED world
    ELSE UNCHANGED frameworkVars

OsInit(q) ==
  /\ osQ = q /\ attached = FALSE /\ offered = FALSE
  /\ clientItems = [c \in Watchers |-> {}] /\ itemClients = [i \in Items |-> {}]
  /\ cache = [i \in Items |-> NoValue] /\ heard = [c \in Watchers |-> cache]
  /\ world \in [Items -> Values] /\ asked = {} /\ due = {}
  /\ watchCalls = 0 /\ changes = 0 /\ requested = {} /\ updaters = {}

-----------------------------------------------------------------------------
(* The watchers' threads and the framework's *)

Watch(k) ==
  /\ watchCalls < WatchCalls /\ Len(osQ) < MaxOsQueue
  /\ \E c \in Callers, items \in SUBSET Items \ {{}} :
       /\ k = "unsubscribeAll" => items = Items
       /\ osQ' = Append(osQ, Ask(k, c, items))
  /\ watchCalls' = watchCalls + 1
  /\ UNCHANGED <<attached, offered, mapVars, cache, heard, frameworkVars, changes>>

SetSubscriptionObj ==
  /\ ~ offered
  /\ offered' = TRUE
  /\ osQ' = Append(osQ, [k |-> "attach"])
  /\ UNCHANGED <<attached, mapVars, cache, heard, frameworkVars, watchCalls, changes>>

ItemChanges ==
  \E i \in Items, v \in Values :
    /\ changes < MaxChanges /\ v # world[i]
    /\ world' = [world EXCEPT ![i] = v]
    /\ due' = due \cup ({i} \cap asked)
    /\ changes' = changes + 1
    /\ UNCHANGED <<osQ, attached, offered, mapVars, cache, heard, asked, watchCalls>>

\* The framework reports some of the items it has to.
Notify ==
  \E items \in SUBSET due \ {{}} :
    /\ Len(osQ) < MaxOsQueue
    /\ osQ' = Append(osQ, Notice(Restrict(world, items)))
    /\ due' = due \ items
    /\ UNCHANGED <<attached, offered, mapVars, cache, heard, world, asked, watchCalls, changes>>

-----------------------------------------------------------------------------
(* The thread of the queue *)

Handles == UNCHANGED <<offered, watchCalls, changes>>

\* Mutant: what was wanted before the framework was there is requested once.
SetSubsObj_requestsOnly ==
  LET keys == {i \in Items : itemClients[i] # {}}
  IN /\ Takes("attach") /\ Done /\ Handles
     /\ attached' = TRUE
     /\ due' = due \cup keys
     /\ requested' = {}
     /\ UNCHANGED <<clientItems, itemClients, updaters, cache, heard, world, asked>>

SetSubsObj ==
  LET keys == {i \in Items : itemClients[i] # {}}
  IN /\ Takes("attach") /\ Done /\ Handles
     /\ attached' = TRUE
     /\ asked' = asked \cup keys /\ due' = due \cup keys
     /\ requested' = {}
     /\ UNCHANGED <<clientItems, itemClients, updaters, cache, heard, world>>

\* A request goes into the maps as a subscription does, but the framework is not
\* asked to go on reporting.
HandleSubscribeReq ==
  \E request \in BOOLEAN :
    LET c     == Head(osQ).client
        items == Head(osQ).items
        new   == NewKeys(itemClients, items)
    IN /\ Takes(IF request THEN "request" ELSE "subscribe") /\ Handles
       /\ itemClients' = Added(itemClients, items, {c})
       /\ clientItems' = Added(clientItems, {c}, items)
       /\ osQ' = Tail(osQ) \o Cached(c, items)
       /\ IF request THEN Orders({}, items, {}) ELSE Orders(new, {}, {})
       /\ requested' = IF attached /\ request THEN requested \cup new ELSE requested
       /\ UNCHANGED <<attached, updaters, cache, heard>>

\* update returns what the client keeps, not what it gives up, and takes that out
\* of the items of the message.
HandleUpdateSubscriptionReq ==
  LET c     == Head(osQ).client
      items == Head(osQ).items
  IN /\ Takes("update") /\ Handles
     /\ \E kept \in Intersections(clientItems[c], items) :
          LET added   == items \ kept
              trimmed == Trimmed(itemClients, kept, {c})
              gone    == GoneKeys(itemClients, kept, {c})
          IN /\ itemClients' = Added(trimmed, added, {c})
             /\ osQ' = Tail(osQ) \o Cached(c, added)
             /\ Orders(NewKeys(trimmed, added), {}, gone)
             /\ requested' = requested \ gone
     /\ clientItems' = [clientItems EXCEPT ![c] = items]
     /\ updaters' = updaters \cup {c}
     /\ UNCHANGED <<attached, cache, heard>>

\* Mutant: one map is forgotten when a client gives up everything.
HandleUnsubscribe_oneMap ==
  \E all \in BOOLEAN :
    LET c     == Head(osQ).client
        items == clientItems[c] \cap (IF all THEN Items ELSE Head(osQ).items)
        gone  == GoneKeys(itemClients, items, {c})
    IN /\ Takes(IF all THEN "unsubscribeAll" ELSE "unsubscribe") /\ Done /\ Handles
       /\ clientItems' = Trimmed(clientItems, {c}, items)
       /\ itemClients' = IF all THEN itemClients ELSE Trimmed(itemClients, items, {c})
       /\ Orders({}, {}, gone)
       /\ requested' = requested \ gone
       /\ UNCHANGED <<attached, updaters, cache, heard>>

HandleUnsubscribe ==
  \E all \in BOOLEAN :
    LET c     == Head(osQ).client
        items == clientItems[c] \cap (IF all THEN Items ELSE Head(osQ).items)
        gone  == GoneKeys(itemClients, items, {c})
    IN /\ Takes(IF all THEN "unsubscribeAll" ELSE "unsubscribe") /\ Done /\ Handles
       /\ clientItems' = Trimmed(clientItems, {c}, items)
       /\ itemClients' = Trimmed(itemClients, items, {c})
       /\ Orders({}, {}, gone)
       /\ requested' = requested \ gone
       /\ UNCHANGED <<attached, updaters, cache, heard>>

\* Clients are told of the items that changed, each of its own.
HandleNotify ==
  LET news    == Head(osQ).news
      changed == {i \in DOMAIN news : cache[i] # news[i]}
      clients == UNION {itemClients[i] : i \in changed}
      told(c) == Told(c, Restrict(news, clientItems[c] \cap changed))
      tolds   == {told(c) : c \in {d \in clients : clientItems[d] \cap changed # {}}}
  IN /\ Takes("notify") /\ Handles
     /\ cache' = Updated(cache, news)
     /\ osQ' = Tail(osQ) \o SetToSeq(tolds)
     /\ UNCHANGED <<attached, mapVars, heard, frameworkVars>>

\* The watcher takes its message in.
TakesIn(m) == heard' = [heard EXCEPT ![m.client] = Updated(@, m.news)]

HandleOsObserverUpdate ==
  /\ Takes("told") /\ Done /\ Handles
  /\ TakesIn(Head(osQ))
  /\ UNCHANGED <<attached, mapVars, cache, frameworkVars>>

-----------------------------------------------------------------------------
Watcher == \E k \in Kinds : Watch(k)
Observer ==
  \/ SetSubsObj \/ HandleSubscribeReq \/ HandleUpdateSubscriptionReq
  \/ HandleUnsubscribe \/ HandleNotify
Framework == SetSubscriptionObj \/ ItemChanges \/ Notify

OsNext == Watcher \/ Framework \/ Observer \/ HandleOsObserverUpdate

OsSpec == OsInit(<<>>) /\ [][OsNext]_osVars

-----------------------------------------------------------------------------
\* A client is recorded under an item exactly when the item is recorded under the
\* client, whatever calls of however many clients come in between
\* (HandleSubscribeReq, HandleUnsubscribeReq, HandleUnsubscribeAllReq).
\* updateSubscription breaks the rule for the client that calls it.
SubscriptionsMirrored ==
  \A c \in Watchers \ updaters, i \in Items : c \in itemClients[i] <=> i \in clientItems[c]

\* When no message waits and the framework has nothing to report, a subscriber
\* has the present value of its items: none was kept from it because the item had
\* changed before it came, had other clients, or was in the cache already.
\* Left out: items that were first requested, of which the framework reports once.
Quiet == osQ = <<>> /\ due = {} /\ attached

WatchersInformed ==
  Quiet => \A c \in Watchers \ updaters : \A i \in clientItems[c] \ requested :
             heard[c][i] = world[i]
=============================================================================
