--------------------------- MODULE Requests_proof ---------------------------
(***************************************************************************)
(* What holds of the modem's requests.  Of ODCPI and the timer service it  *)
(* uses, for every number of timers and delegates, every delay and every   *)
(* heap that orders them: a delegate is accounted for, the timer file      *)
(* descriptor is set for the soonest timer, and an active request has its  *)
(* timer.  Of network initiated requests, for every number of requests,    *)
(* every kind and every configuration: the data of each is owned by one    *)
(* place at a time, and the modem hears the user's answer to it.           *)
(***************************************************************************)
EXTENDS Odcpi, NiRequests, SequenceTheorems, FiniteSetTheorems, WellFoundedInduction, TLAPS

-----------------------------------------------------------------------------
(* The timer service, whatever its clients are *)

\* A step of the service, or of a client that starts or stops a timer.
StartsOne(t, delay) == CanStart(t) /\ StartTimer(t, delay) /\ LeavesService
StopsOne(t) == StopTimer(t) /\ LeavesService

TimersStep ==
  \/ \E t \in LocTimers, delay \in 1 .. MaxDelay : StartsOne(t, delay)
  \/ \E t \in LocTimers : StopsOne(t) \/ CallsBack(t)
  \/ MsgTask \/ PollTask \/ Tick
  \/ UNCHANGED timerVars

\* The steps of the adapter and of the other users are no others.
LEMMA OdcpiStepsTimers ==
  ASSUME [OdcpiNext]_odcpiVars
  PROVE  TimersStep
<1> USE OdcpiAssumption DEF StartsOne, StopsOne, LeavesService
<1>1. CASE Modem \/ InitOdcpiCommand
  BY <1>1 DEF TimersStep, Modem, InitOdcpiCommand
<1>2. ASSUME NEW t \in OtherTimers, OtherStops(t) \/ OtherCallsBack(t)
      PROVE  TimersStep
  BY <1>2 DEF TimersStep, OtherTimers, OtherStops, OtherCallsBack
<1>3. CASE OdcpiTimerExpireEvent
  BY <1>3 DEF TimersStep, OdcpiTimerExpireEvent
<1>4. ASSUME NEW t \in OtherTimers, OtherStarts(t)
      PROVE  TimersStep
  <2>1. PICK delay \in OtherDelays : StartTimer(t, delay)
    BY <1>4 DEF OtherStarts
  <2>2. StartsOne(t, delay) /\ delay \in 1 .. MaxDelay /\ t \in LocTimers
    BY <1>4, <2>1 DEF OtherStarts, OtherTimers
  <2> QED  BY <2>2 DEF TimersStep
<1>5. CASE InitOdcpi \/ RequestStop \/ EngineUp
  BY <1>5 DEF TimersStep, InitOdcpi, RequestStop, EngineUp, LeavesTimer, timerVars, serviceVars
<1>6. CASE RequestUnsupported
  BY <1>6 DEF TimersStep, RequestUnsupported
<1>7. CASE RequestStart
  <2>1. StartOdcpiTimer \/ RestartOdcpiTimer \/ LeavesTimer
    BY <1>7 DEF RequestStart
  <2> QED  BY <1>7, <2>1
    DEF TimersStep, RequestStart, StartOdcpiTimer, RestartOdcpiTimer, LeavesTimer, timerVars, serviceVars
<1>8. CASE OdcpiTimerExpire
  BY <1>8 DEF TimersStep, OdcpiTimerExpire, RestartOdcpiTimer, StopOdcpiTimer
<1>9. CASE RestartStarts
  BY <1>9 DEF TimersStep, RestartStarts, StartOdcpiTimer
<1>10. CASE ServiceTurn
  BY <1>10 DEF TimersStep, ServiceTurn
<1>11. CASE UNCHANGED odcpiVars
  BY <1>11 DEF TimersStep, odcpiVars
<1> QED  BY <1>1, <1>2, <1>3, <1>4, <1>5, <1>6, <1>7, <1>8, <1>9, <1>10, <1>11 DEF OdcpiNext, Adapter

-----------------------------------------------------------------------------
(* The inductive invariant of the service *)

\* The heap orders the delegates by the time they have left.
HeapSound == heap \in Heaps /\ InOrder(heap, Left)

\* A timer and the delegate it runs know each other.
DelegatesSound ==
  /\ \A t \in LocTimers : timer[t] # NoDelegate => delegate[timer[t]].client = t
  /\ \A d \in Delegates :
       /\ delegate[d].client # NoTimer => delegate[d].live /\ timer[delegate[d].client] = d
       /\ delegate[d].live => delegate[d].left \in Times

\* What is queued is about delegates there are: of one at most a push and, after
\* it, a removal.
MsgsSound ==
  \A i \in DOMAIN msgs :
    /\ msgs[i].k = "push" => msgs[i].d \in Live \ Members(heap)
    /\ msgs[i].k = "remove" => msgs[i].d \in Live /\ delegate[msgs[i].d].client = NoTimer
    /\ \A j \in DOMAIN msgs :
         i < j /\ msgs[i].d = msgs[j].d /\ msgs[i].k # "expire"
           => msgs[i].k = "push" /\ msgs[j].k = "remove"

\* A delegate nobody runs is about to be removed, one that is run is in the heap,
\* on its way there or popped.
NothingLost ==
  \A d \in Live :
    IF delegate[d].client = NoTimer
    THEN \E i \in DOMAIN msgs : msgs[i].k = "remove" /\ msgs[i].d = d
    ELSE \/ d \in Members(heap)
         \/ \E i \in DOMAIN msgs : msgs[i].k = "push" /\ msgs[i].d = d
         \/ expiring.at = "popped" /\ expiring.d = d

\* MsgTask holds a delegate that is not deleted meanwhile, though it may have been
\* stopped.
PoppedSound ==
  expiring.at = "popped" =>
    /\ expiring.client \in LocTimers
    /\ expiring.d \in Live
    /\ delegate[expiring.d].client \in {NoTimer, expiring.client}

TimersInv ==
  TimersTypeOK /\ HeapSound /\ DelegatesSound /\ MsgsSound /\ NothingLost /\ PoppedSound

-----------------------------------------------------------------------------
(* Lemmas *)

\* The least of a nonempty set of delegates.
LEMMA MinDelegate ==
  ASSUME NEW S, S \subseteq Delegates, S # {}
  PROVE  Min(S) \in S
<1>1. IsWellFoundedOn(OpToRel(<, Nat), Nat)
  BY NatLessThanWellFounded
<1>2. S \subseteq Nat
  BY TimersAssumption DEF Delegates
<1>3. PICK x \in S : \A y \in S : ~ (<<y, x>> \in OpToRel(<, Nat))
  BY <1>1, <1>2, WFMin
<1>4. ASSUME NEW y \in S
      PROVE  x <= y
  <2>1. x \in Nat /\ y \in Nat
    BY <1>2
  <2>2. y < x => <<y, x>> \in OpToRel(<, Nat)
    <3> DEFINE pair == <<y, x>>
    <3>1. pair \in Nat \X Nat /\ pair[1] = y /\ pair[2] = x
      BY <2>1
    <3> HIDE DEF pair
    <3>2. y < x => pair \in {ss \in Nat \X Nat : ss[1] < ss[2]}
      BY <3>1
    <3> QED  BY <3>2 DEF pair, OpToRel
  <2>3. ~ (y < x)
    BY <1>3, <2>2, Zenon
  <2> QED  BY <2>1, <2>3
<1> QED  BY <1>4 DEF Min

\* The messages of MsgTask are of three kinds.
LEMMA TimerMsgParts ==
  ASSUME NEW m \in TimerMsgs
  PROVE  /\ m.k \in {"push", "remove", "expire"}
         /\ m.k # "expire" => m.d \in Delegates
         /\ m.k = "expire" => m = Expire
BY DEF TimerMsgs, Expire

LEMMA TimerMsgTypes ==
  /\ \A d \in Delegates : [k |-> "push", d |-> d] \in TimerMsgs /\ [k |-> "remove", d |-> d] \in TimerMsgs
  /\ Expire \in TimerMsgs
BY DEF TimerMsgs, Expire

\* The queue when MsgTask takes a message, and when one joins it.
LEMMA MsgsTail ==
  ASSUME TimersTypeOK, NEW k, Takes(k)
  PROVE  /\ msgs' \in Seq(TimerMsgs)
         /\ Len(msgs) \in Nat \ {0} /\ DOMAIN msgs = 1 .. Len(msgs)
         /\ DOMAIN msgs' = 1 .. (Len(msgs) - 1)
         /\ \A i \in DOMAIN msgs' : msgs'[i] = msgs[i + 1]
         /\ Head(msgs) = msgs[1] /\ Head(msgs) \in TimerMsgs /\ Head(msgs).k = k
         /\ expiring.at = "no"
<1>1. msgs \in Seq(TimerMsgs) /\ msgs # << >> /\ msgs' = Tail(msgs)
  BY DEF TimersTypeOK, Takes
<1> QED  BY <1>1, HeadTailProperties, EmptySeq, LenProperties DEF Takes

LEMMA MsgsAppend ==
  ASSUME TimersTypeOK, NEW m \in TimerMsgs, msgs' = Append(msgs, m)
  PROVE  /\ msgs' \in Seq(TimerMsgs)
         /\ Len(msgs) \in Nat /\ DOMAIN msgs = 1 .. Len(msgs)
         /\ DOMAIN msgs' = 1 .. (Len(msgs) + 1)
         /\ \A i \in DOMAIN msgs : msgs'[i] = msgs[i]
         /\ msgs'[Len(msgs) + 1] = m
<1>1. msgs \in Seq(TimerMsgs)
  BY DEF TimersTypeOK
<1> QED  BY <1>1, AppendProperties, LenProperties

\* Every message in the queue is one of MsgTask's.
LEMMA MsgsTyped ==
  ASSUME TimersTypeOK, NEW i \in DOMAIN msgs
  PROVE  /\ msgs[i].k \in {"push", "remove", "expire"}
         /\ msgs[i].k # "expire" => msgs[i].d \in Delegates
         /\ msgs[i].k = "expire" => msgs[i] = Expire
<1>1. msgs[i] \in TimerMsgs
  BY ElementOfSeq, LenProperties DEF TimersTypeOK
<1> QED  BY <1>1, TimerMsgParts

\* The times left rank the delegates.
LEMMA LeftRanks ==
  ASSUME TimersTypeOK
  PROVE  /\ Left \in Ranks
         /\ \A d \in Delegates : Left[d] = delegate[d].left
         /\ Times \subseteq Int /\ Off \in Int /\ MaxLate \in Nat /\ MaxDelay \in Nat
<1>1. \A d \in Delegates : delegate[d].left \in Times \cup {Off}
  BY DEF TimersTypeOK
<1> QED  BY <1>1, TimersAssumption DEF Left, Ranks, Times, Off

LEMMA DelegatesAreNumbers == \A d \in Delegates : d \in Nat /\ d # NoDelegate
BY TimersAssumption DEF Delegates, NoDelegate

\* A heap that does not change stays in order as long as the order of its delegates does.
LEMMA HeapStays ==
  ASSUME TimersTypeOK, TimersTypeOK', HeapSound, UNCHANGED heap,
         \A d, e \in Members(heap) :
           delegate[d].left < delegate[e].left <=> delegate'[d].left < delegate'[e].left
  PROVE  HeapSound'
<1>1. Left \in Ranks /\ Left' \in Ranks
  BY LeftRanks DEF TimersTypeOK, Ranks, Left
<1>2. \A d \in Members(heap) : Left[d] = delegate[d].left /\ Left'[d] = delegate'[d].left
  BY HeapAssumption DEF HeapSound, Left
<1>3. SameOrder(Members(heap), Left, Left')
  BY <1>2 DEF SameOrder
<1> QED  BY <1>1, <1>3, HeapAssumption DEF HeapSound

-----------------------------------------------------------------------------
(* Type correctness *)

\* What StartTimer and StopTimer do to the delegates.
LEMMA StartsDelegate ==
  ASSUME TimersTypeOK, NEW t \in LocTimers, NEW delay, CanStart(t), StartTimer(t, delay),
         timer[t] = NoDelegate
  PROVE  \E d \in Delegates :
           /\ ~ delegate[d].live
           /\ timer' = [timer EXCEPT ![t] = d]
           /\ delegate' = [delegate EXCEPT ![d] = [client |-> t, left |-> delay, live |-> TRUE]]
           /\ msgs' = Append(msgs, [k |-> "push", d |-> d])
<1> DEFINE d == Min(Delegates \ Live)
<1>1. d \in Delegates \ Live
  BY MinDelegate DEF CanStart, Live
<1>2. timer' = [timer EXCEPT ![t] = d] /\ msgs' = Append(msgs, [k |-> "push", d |-> d])
      /\ delegate' = [delegate EXCEPT ![d] = [client |-> t, left |-> delay, live |-> TRUE]]
  BY DEF StartTimer
<1> HIDE DEF d
<1> QED  BY <1>1, <1>2 DEF Live

\* A heap that loses its top, gains a delegate or loses one.
LEMMA HeapBecomes ==
  ASSUME TimersTypeOK, HeapSound
  PROVE  /\ Members(heap) \subseteq Delegates
         /\ heap # NoHeap =>
              /\ Soonest(heap) \in Members(heap)
              /\ \A d \in Members(heap) : Left[Soonest(heap)] <= Left[d]
              /\ Becomes(HeapPop(heap, Left), Members(heap) \ {Soonest(heap)}, Left)
         /\ heap = NoHeap => Members(heap) = {} /\ Soonest(heap) = NoDelegate
         /\ \A d \in Delegates \ Members(heap) :
              /\ Becomes(HeapPush(heap, d, Left), Members(heap) \cup {d}, Left)
              /\ HeapRemove(heap, d, Left) = heap
         /\ \A d \in Members(heap) : Becomes(HeapRemove(heap, d, Left), Members(heap) \ {d}, Left)
<1>1. Left \in Ranks
  BY LeftRanks
<1>2. NoHeap \in Heaps /\ Members(NoHeap) = {}
  BY <1>1, HeapAssumption DEF Becomes
<1> QED  BY <1>1, <1>2, HeapAssumption DEF HeapSound, Soonest

\* The invariant is about the variables of the service only.
LEMMA TimersStutter ==
  ASSUME TimersInv, UNCHANGED timerVars
  PROVE  TimersInv'
BY DEF TimersInv, timerVars, serviceVars, TimersTypeOK, HeapSound, DelegatesSound, MsgsSound,
       NothingLost, PoppedSound, Live, Left

-----------------------------------------------------------------------------
(* The clients *)

\* A new delegate, whose push is queued.
LEMMA StartKeepsInv ==
  ASSUME TimersInv, NEW t \in LocTimers, NEW delay \in 1 .. MaxDelay, StartsOne(t, delay)
  PROVE  TimersInv'
<1>1. CASE timer[t] # NoDelegate
  <2>1. UNCHANGED timerVars
    BY <1>1 DEF StartsOne, StartTimer, LeavesService, timerVars, serviceVars
  <2> QED  BY <2>1, TimersStutter
<1>2. CASE timer[t] = NoDelegate
  <2>1. PICK d \in Delegates :
          /\ ~ delegate[d].live
          /\ timer' = [timer EXCEPT ![t] = d]
          /\ delegate' = [delegate EXCEPT ![d] = [client |-> t, left |-> delay, live |-> TRUE]]
          /\ msgs' = Append(msgs, [k |-> "push", d |-> d])
    BY <1>2, StartsDelegate DEF TimersInv, StartsOne
  <2>2. UNCHANGED <<heap, fd, polled, polling, expiring>>
    BY DEF StartsOne, LeavesService
  <2> DEFINE push == [k |-> "push", d |-> d]
             new  == [client |-> t, left |-> delay, live |-> TRUE]
  <2>3. push \in TimerMsgs /\ push.k = "push" /\ push.d = d
    BY TimerMsgTypes
  <2>4. /\ new \in [client : LocTimers \cup {NoTimer}, left : Times \cup {Off}, live : BOOLEAN]
        /\ new.client = t /\ new.left = delay /\ new.live
        /\ delay \in Times
    BY TimersAssumption DEF Times
  <2> HIDE DEF push, new
  <2>5. delegate' = [delegate EXCEPT ![d] = new] /\ msgs' = Append(msgs, push)
    BY <2>1 DEF push, new
  <2>6. /\ msgs' \in Seq(TimerMsgs)
        /\ Len(msgs) \in Nat /\ DOMAIN msgs = 1 .. Len(msgs)
        /\ DOMAIN msgs' = 1 .. (Len(msgs) + 1)
        /\ \A i \in DOMAIN msgs : msgs'[i] = msgs[i]
        /\ msgs'[Len(msgs) + 1] = push
    BY <2>3, <2>5, MsgsAppend DEF TimersInv
  <2>7. /\ delegate'[d] = new
        /\ \A e \in Delegates \ {d} : delegate'[e] = delegate[e]
        /\ Live' = Live \cup {d} /\ d \notin Live
        /\ delegate[d].client = NoTimer
    <3>1. delegate'[d] = new /\ \A e \in Delegates \ {d} : delegate'[e] = delegate[e]
      BY <2>5 DEF TimersInv, TimersTypeOK
    <3> QED  BY <2>1, <2>4, <3>1 DEF Live, TimersInv, DelegatesSound
  <2>8. Members(heap) \subseteq Live /\ \A i \in DOMAIN msgs : msgs[i].k # "expire" => msgs[i].d \in Live
    BY MsgsTyped DEF TimersInv, TimersTypeOK, MsgsSound
  <2>9. TimersTypeOK'
    BY <2>1, <2>2, <2>4, <2>5, <2>6, <2>7, <2>8 DEF TimersInv, TimersTypeOK
  <2>10. HeapSound'
    BY <2>2, <2>7, <2>8, <2>9, HeapStays DEF TimersInv, Live
  <2>11. DelegatesSound'
    <3>1. timer'[t] = d /\ \A u \in LocTimers \ {t} : timer'[u] = timer[u]
      BY <2>1 DEF TimersInv, TimersTypeOK
    <3>2. \A u \in LocTimers \ {t} : timer[u] # d
      BY <2>7, DelegatesAreNumbers, TimersAssumption DEF TimersInv, DelegatesSound
    <3>3. \A e \in Delegates \ {d} : delegate[e].client # t
      BY <1>2, DelegatesAreNumbers, TimersAssumption DEF TimersInv, DelegatesSound
    <3>4. \A u \in LocTimers : timer'[u] # NoDelegate => timer'[u] \in Delegates
      BY <2>9 DEF TimersTypeOK
    <3>5. \A u \in LocTimers : timer'[u] # NoDelegate => delegate'[timer'[u]].client = u
      BY <2>4, <2>7, <3>1, <3>2, <3>4 DEF TimersInv, DelegatesSound
    <3>6. \A e \in Delegates : delegate'[e].client # NoTimer => delegate'[e].client \in LocTimers
      BY <2>9 DEF TimersTypeOK
    <3>7. ASSUME NEW e \in Delegates
          PROVE  /\ delegate'[e].client # NoTimer => delegate'[e].live /\ timer'[delegate'[e].client] = e
                 /\ delegate'[e].live => delegate'[e].left \in Times
      BY <2>4, <2>7, <3>1, <3>3, <3>6 DEF TimersInv, DelegatesSound
    <3> QED  BY <3>5, <3>7 DEF DelegatesSound
  <2>12. MsgsSound'
    BY <2>2, <2>3, <2>6, <2>7, <2>8, MsgsTyped DEF TimersInv, MsgsSound
  <2>13. NothingLost'
    BY <2>2, <2>3, <2>4, <2>6, <2>7, TimersAssumption DEF TimersInv, NothingLost, Live
  <2>14. PoppedSound'
    BY <2>2, <2>7 DEF TimersInv, PoppedSound, Live
  <2> QED  BY <2>9, <2>10, <2>11, <2>12, <2>13, <2>14 DEF TimersInv
<1> QED  BY <1>1, <1>2

\* Where MsgTask is: it goes on, or leaves the delegate it has popped when it has
\* stopped the client.
Expirings == [at : {"no", "loop", "popped", "calling"}, d : Delegates \cup {NoDelegate},
              client : LocTimers \cup {NoTimer}]
Leaves(t) ==
  \/ expiring' = expiring
  \/ expiring.at = "popped" /\ expiring.client = t /\ expiring' \in Expirings /\ expiring'.at # "popped"

\* A delegate that its client has left, whose removal is queued.
LEMMA StopKeepsInv ==
  ASSUME TimersInv, NEW t \in LocTimers, StopTimer(t), Leaves(t),
         UNCHANGED <<heap, fd, polled, polling>>
  PROVE  TimersInv'
<1> USE DEF TimersInv
<1>1. CASE timer[t] = NoDelegate
  <2>1. UNCHANGED <<timer, delegate, msgs, heap, fd, polled, polling>>
    BY <1>1 DEF StopTimer
  <2>2. TimersTypeOK'
    BY <2>1 DEF TimersTypeOK, Leaves, Expirings, Live
  <2>3. HeapSound' /\ DelegatesSound' /\ MsgsSound'
    BY <2>1 DEF HeapSound, DelegatesSound, MsgsSound, Left, Live
  <2>4. \A e \in Delegates : delegate[e].client # t
    BY <1>1, DelegatesAreNumbers, TimersAssumption DEF DelegatesSound
  <2>5. NothingLost'
    BY <2>1, <2>4 DEF NothingLost, PoppedSound, Leaves, Live
  <2>6. PoppedSound'
    BY <2>1 DEF PoppedSound, Leaves, Live
  <2> QED  BY <2>2, <2>3, <2>5, <2>6
<1>2. CASE timer[t] # NoDelegate
  <2> DEFINE d == timer[t]
             remove == [k |-> "remove", d |-> d]
  <2>1. /\ d \in Delegates /\ delegate[d].client = t /\ delegate[d].live
        /\ timer' = [timer EXCEPT ![t] = NoDelegate]
        /\ delegate' = [delegate EXCEPT ![d].client = NoTimer]
        /\ msgs' = Append(msgs, remove)
    BY <1>2, TimersAssumption DEF StopTimer, DelegatesSound, TimersTypeOK
  <2>2. UNCHANGED <<heap, fd, polled, polling>>
    OBVIOUS
  <2>3. remove \in TimerMsgs /\ remove.k = "remove" /\ remove.d = d
    BY <2>1, TimerMsgTypes
  <2> HIDE DEF remove, d
  <2>4. /\ msgs' \in Seq(TimerMsgs)
        /\ Len(msgs) \in Nat /\ DOMAIN msgs = 1 .. Len(msgs)
        /\ DOMAIN msgs' = 1 .. (Len(msgs) + 1)
        /\ \A i \in DOMAIN msgs : msgs'[i] = msgs[i]
        /\ msgs'[Len(msgs) + 1] = remove
    BY <2>1, <2>3, MsgsAppend
  <2>5. /\ delegate'[d].client = NoTimer
        /\ \A e \in Delegates : /\ delegate'[e].live = delegate[e].live
                                 /\ delegate'[e].left = delegate[e].left
        /\ \A e \in Delegates \ {d} : delegate'[e] = delegate[e]
    BY <2>1 DEF TimersTypeOK
  <2>6. Live' = Live /\ d \in Live
    BY <2>1, <2>5 DEF Live
  <2>7. timer'[t] = NoDelegate /\ \A u \in LocTimers \ {t} : timer'[u] = timer[u]
    BY <2>1 DEF TimersTypeOK
  <2>8. TimersTypeOK'
    <3>1. delegate' \in [Delegates -> [client : LocTimers \cup {NoTimer}, left : Times \cup {Off},
                                        live : BOOLEAN]]
      BY <2>1 DEF TimersTypeOK
    <3>2. timer' \in [LocTimers -> Delegates \cup {NoDelegate}]
      BY <2>1 DEF TimersTypeOK
    <3> QED  BY <2>2, <2>4, <2>6, <3>1, <3>2 DEF TimersTypeOK, Leaves, Expirings
  <2>9. HeapSound'
    <3>1. Members(heap) \subseteq Delegates
      BY HeapAssumption DEF HeapSound
    <3> QED  BY <2>2, <2>5, <2>8, <3>1, HeapStays
  <2>10. DelegatesSound'
    <3>1. \A u \in LocTimers \ {t} : timer[u] # NoDelegate => timer[u] # d
      BY <2>1 DEF DelegatesSound
    <3>2. \A e \in Delegates \ {d} : delegate[e].client # t
      BY TimersAssumption DEF DelegatesSound, d
    <3>3. \A e \in Delegates : delegate[e].client # NoTimer => delegate[e].client \in LocTimers
      BY DEF TimersTypeOK
    <3>4. \A u \in LocTimers : timer[u] # NoDelegate => timer[u] \in Delegates
      BY DEF TimersTypeOK
    <3>5. \A u \in LocTimers : timer'[u] # NoDelegate => delegate'[timer'[u]].client = u
      BY <2>5, <2>7, <3>1, <3>4 DEF DelegatesSound
    <3>6. \A e \in Delegates :
            /\ delegate'[e].client # NoTimer => delegate'[e].live /\ timer'[delegate'[e].client] = e
            /\ delegate'[e].live => delegate'[e].left \in Times
      BY <2>5, <2>7, <3>2, <3>3 DEF DelegatesSound
    <3> QED  BY <3>5, <3>6 DEF DelegatesSound
  <2>11. MsgsSound'
    <3>1. \A i \in DOMAIN msgs : msgs[i].k = "remove" => msgs[i].d # d
      BY <2>1, TimersAssumption DEF MsgsSound
    <3>2. ASSUME NEW i \in DOMAIN msgs'
          PROVE  /\ msgs'[i].k = "push" => msgs'[i].d \in Live' \ Members(heap')
                 /\ msgs'[i].k = "remove" => msgs'[i].d \in Live' /\ delegate'[msgs'[i].d].client = NoTimer
      <4>1. CASE i \in DOMAIN msgs
        BY <2>2, <2>4, <2>5, <2>6, <4>1, MsgsTyped DEF MsgsSound
      <4>2. CASE i = Len(msgs) + 1
        BY <2>3, <2>4, <2>5, <2>6, <4>2
      <4> QED  BY <2>4, <4>1, <4>2
    <3>3. ASSUME NEW i \in DOMAIN msgs', NEW j \in DOMAIN msgs',
                 i < j, msgs'[i].d = msgs'[j].d, msgs'[i].k # "expire"
          PROVE  msgs'[i].k = "push" /\ msgs'[j].k = "remove"
      <4>1. i \in DOMAIN msgs /\ msgs'[i] = msgs[i]
        BY <2>4, <3>3
      <4>2. CASE j \in DOMAIN msgs
        BY <2>4, <3>3, <4>1, <4>2 DEF MsgsSound
      <4>3. CASE j = Len(msgs) + 1
        BY <2>3, <2>4, <3>1, <3>3, <4>1, <4>3, MsgsTyped
      <4> QED  BY <2>4, <4>2, <4>3
    <3> QED  BY <3>2, <3>3 DEF MsgsSound
  <2>12. NothingLost'
    <3>1. ASSUME NEW e \in Live, e # d, delegate[e].client # NoTimer,
                 expiring.at = "popped" /\ expiring.d = e
          PROVE  expiring' = expiring
      <4>1. delegate[e].client # t
        BY <2>1, <3>1, TimersAssumption DEF DelegatesSound, Live, d
      <4> QED  BY <3>1, <4>1 DEF PoppedSound, Leaves
    <3>2. ASSUME NEW e \in Live, e # d
          PROVE  IF delegate'[e].client = NoTimer
                 THEN \E i \in DOMAIN msgs' : msgs'[i].k = "remove" /\ msgs'[i].d = e
                 ELSE \/ e \in Members(heap')
                      \/ \E i \in DOMAIN msgs' : msgs'[i].k = "push" /\ msgs'[i].d = e
                      \/ expiring'.at = "popped" /\ expiring'.d = e
      <4>1. delegate'[e] = delegate[e] /\ DOMAIN msgs \subseteq DOMAIN msgs'
        BY <2>4, <2>5, <3>2 DEF Live
      <4> QED  BY <2>2, <2>4, <3>1, <3>2, <4>1 DEF NothingLost
    <3>3. Len(msgs) + 1 \in DOMAIN msgs'
      BY <2>4
    <3> QED  BY <2>3, <2>4, <2>5, <2>6, <3>2, <3>3 DEF NothingLost
  <2>13. PoppedSound'
    <3>1. CASE expiring' = expiring
      BY <2>5, <2>6, <3>1 DEF PoppedSound, Live
    <3> QED  BY <3>1 DEF PoppedSound, Leaves
  <2> QED  BY <2>8, <2>9, <2>10, <2>11, <2>12, <2>13
<1> QED  BY <1>1, <1>2

-----------------------------------------------------------------------------
(* MsgTask *)

\* The top of a heap is one of its delegates.
LEMMA SoonestTyped ==
  ASSUME NEW h \in Heaps
  PROVE  IF h = NoHeap THEN Soonest(h) = NoDelegate ELSE Soonest(h) \in Members(h) /\ Soonest(h) \in Delegates
BY HeapAssumption DEF Soonest

\* What the fd is set to is the time of the top.
LEMMA FdTyped ==
  ASSUME TimersTypeOK, NEW h \in Heaps, NEW priorTop, UpdateSoonestTime(h, priorTop)
  PROVE  fd' \in Times \cup {Off} /\ polled' \in BOOLEAN
<1>1. fd \in Times \cup {Off} /\ polled \in BOOLEAN
  BY DEF TimersTypeOK
<1>2. Left \in Ranks
  BY LeftRanks
<1>3. Soonest(h) # NoDelegate => Left[Soonest(h)] \in Times \cup {Off}
  BY <1>2, SoonestTyped DEF Ranks
<1> QED  BY <1>1, <1>3 DEF UpdateSoonestTime

\* A message about a delegate is the only one of its kind, and taken before the rest.
LEMMA TakesKeepsMsgs ==
  ASSUME TimersInv, NEW k \in {"push", "remove", "expire"}, Takes(k), UNCHANGED delegate,
         Members(heap') \subseteq Members(heap) \cup (IF k = "push" THEN {Head(msgs).d} ELSE {})
  PROVE  MsgsSound'
<1>1. /\ Len(msgs) \in Nat \ {0} /\ DOMAIN msgs = 1 .. Len(msgs)
      /\ DOMAIN msgs' = 1 .. (Len(msgs) - 1)
      /\ \A i \in DOMAIN msgs' : msgs'[i] = msgs[i + 1]
      /\ Head(msgs) = msgs[1] /\ Head(msgs).k = k
  BY MsgsTail DEF TimersInv
<1>2. Live' = Live
  BY DEF Live
<1>3. ASSUME NEW i \in DOMAIN msgs'
      PROVE  /\ i + 1 \in DOMAIN msgs /\ 1 \in DOMAIN msgs /\ 1 < i + 1
             /\ msgs'[i] = msgs[i + 1]
  BY <1>1
<1>4. ASSUME NEW i \in DOMAIN msgs', msgs'[i].k = "push"
      PROVE  msgs'[i].d \in Live' \ Members(heap')
  <2>1. msgs[i + 1].d \in Live \ Members(heap)
    BY <1>3, <1>4 DEF TimersInv, MsgsSound
  <2>2. k = "push" => msgs[i + 1].d # msgs[1].d
    BY <1>1, <1>3, <1>4 DEF TimersInv, MsgsSound
  <2> QED  BY <1>1, <1>2, <1>3, <2>1, <2>2
<1>5. ASSUME NEW i \in DOMAIN msgs', msgs'[i].k = "remove"
      PROVE  msgs'[i].d \in Live' /\ delegate'[msgs'[i].d].client = NoTimer
  BY <1>2, <1>3, <1>5 DEF TimersInv, MsgsSound
<1>6. ASSUME NEW i \in DOMAIN msgs', NEW j \in DOMAIN msgs',
             i < j, msgs'[i].d = msgs'[j].d, msgs'[i].k # "expire"
      PROVE  msgs'[i].k = "push" /\ msgs'[j].k = "remove"
  <2>1. i + 1 < j + 1
    BY <1>1, <1>6
  <2> QED  BY <1>3, <1>6, <2>1 DEF TimersInv, MsgsSound
<1> QED  BY <1>4, <1>5, <1>6 DEF MsgsSound

\* What is left in the queue.
LEMMA TakesTheFirst ==
  ASSUME TimersTypeOK, NEW k, Takes(k), NEW i \in DOMAIN msgs
  PROVE  (i = 1 /\ msgs[i] = Head(msgs)) \/ \E j \in DOMAIN msgs' : msgs'[j] = msgs[i]
<1>1. /\ Len(msgs) \in Nat \ {0} /\ DOMAIN msgs = 1 .. Len(msgs)
      /\ DOMAIN msgs' = 1 .. (Len(msgs) - 1)
      /\ \A j \in DOMAIN msgs' : msgs'[j] = msgs[j + 1]
      /\ Head(msgs) = msgs[1]
  BY MsgsTail
<1>2. CASE i # 1
  <2>1. i - 1 \in DOMAIN msgs' /\ (i - 1) + 1 = i
    BY <1>1, <1>2
  <2> QED  BY <1>1, <2>1
<1> QED  BY <1>1, <1>2

LEMMA PushKeepsInv ==
  ASSUME TimersInv, MsgTimerPush
  PROVE  TimersInv'
<1> DEFINE d == Head(msgs).d
<1>1. Takes("push") /\ heap' = HeapPush(heap, d, Left) /\ UNCHANGED <<timer, delegate, polling, expiring>>
      /\ UpdateSoonestTime(heap', Soonest(heap))
  BY DEF MsgTimerPush
<1>2. /\ msgs' \in Seq(TimerMsgs) /\ expiring.at = "no"
      /\ Head(msgs).k = "push" /\ 1 \in DOMAIN msgs /\ Head(msgs) = msgs[1]
  BY <1>1, MsgsTail DEF TimersInv
<1>3. d \in Live \ Members(heap) /\ d \in Delegates
  BY <1>2 DEF TimersInv, MsgsSound, Live
<1> HIDE DEF d
<1>4. heap' \in Heaps /\ Members(heap') = Members(heap) \cup {d} /\ InOrder(heap', Left)
  BY <1>1, <1>3, HeapBecomes DEF TimersInv, Becomes
<1>5. Left' = Left /\ Live' = Live
  BY <1>1 DEF Left, Live
<1>6. TimersTypeOK'
  <2>1. PICK h, prior : h \in Heaps /\ h = heap' /\ UpdateSoonestTime(h, prior)
    BY <1>1, <1>4
  <2>2. fd' \in Times \cup {Off} /\ polled' \in BOOLEAN
    BY <2>1, FdTyped DEF TimersInv
  <2> QED  BY <1>1, <1>2, <1>3, <1>4, <1>5, <2>2 DEF TimersInv, TimersTypeOK
<1>7. HeapSound' /\ DelegatesSound'
  BY <1>1, <1>4, <1>5 DEF HeapSound, DelegatesSound, TimersInv
<1>8. MsgsSound'
  BY <1>1, <1>4, TakesKeepsMsgs DEF d
<1>9. NothingLost'
  <2>1. ASSUME NEW i \in DOMAIN msgs, msgs[i].k = "push" => msgs[i].d # d
        PROVE  \E j \in DOMAIN msgs' : msgs'[j] = msgs[i]
    BY <1>1, <1>2, <2>1, TakesTheFirst DEF TimersInv, d
  <2> QED  BY <1>1, <1>4, <1>5, <2>1 DEF NothingLost, TimersInv
<1>10. PoppedSound'
  BY <1>1, <1>5 DEF PoppedSound, TimersInv
<1> QED  BY <1>6, <1>7, <1>8, <1>9, <1>10 DEF TimersInv

LEMMA RemoveKeepsInv ==
  ASSUME TimersInv, MsgTimerRemove
  PROVE  TimersInv'
<1> DEFINE d == Head(msgs).d
<1>1. /\ Takes("remove") /\ heap' = HeapRemove(heap, d, Left) /\ UNCHANGED <<timer, polling, expiring>>
      /\ delegate' = [delegate EXCEPT ![d] = Freed]
      /\ UpdateSoonestTime(heap', NoDelegate) \/ UNCHANGED <<polled, fd>>
  BY DEF MsgTimerRemove
<1>2. /\ msgs' \in Seq(TimerMsgs) /\ expiring.at = "no"
      /\ Len(msgs) \in Nat \ {0} /\ DOMAIN msgs = 1 .. Len(msgs)
      /\ DOMAIN msgs' = 1 .. (Len(msgs) - 1)
      /\ \A i \in DOMAIN msgs' : msgs'[i] = msgs[i + 1]
      /\ Head(msgs).k = "remove" /\ Head(msgs) = msgs[1]
  BY <1>1, MsgsTail DEF TimersInv
<1>3. d \in Live /\ d \in Delegates /\ delegate[d].client = NoTimer
  BY <1>2 DEF TimersInv, MsgsSound, Live
<1> HIDE DEF d
<1>4. heap' \in Heaps /\ Members(heap') = Members(heap) \ {d} /\ InOrder(heap', Left)
  <2>1. CASE d \in Members(heap)
    BY <1>1, <2>1, HeapBecomes DEF TimersInv, Becomes
  <2>2. CASE d \notin Members(heap)
    BY <1>1, <1>3, <2>2, HeapBecomes DEF TimersInv, HeapSound
  <2> QED  BY <2>1, <2>2
<1>5. /\ delegate'[d] = Freed
      /\ \A e \in Delegates \ {d} : delegate'[e] = delegate[e]
      /\ Live' = Live \ {d}
      /\ Freed \in [client : LocTimers \cup {NoTimer}, left : Times \cup {Off}, live : BOOLEAN]
      /\ Freed.client = NoTimer /\ ~ Freed.live
  <2>1. delegate'[d] = Freed /\ \A e \in Delegates \ {d} : delegate'[e] = delegate[e]
    BY <1>1, <1>3 DEF TimersInv, TimersTypeOK
  <2>2. Freed \in [client : LocTimers \cup {NoTimer}, left : Times \cup {Off}, live : BOOLEAN]
        /\ Freed.client = NoTimer /\ Freed.live = FALSE
    BY DEF Freed
  <2> QED  BY <1>3, <2>1, <2>2 DEF Live
<1>6. TimersTypeOK'
  <2>1. fd' \in Times \cup {Off} /\ polled' \in BOOLEAN
    <3>1. CASE UpdateSoonestTime(heap', NoDelegate)
      <4>1. PICK h \in Heaps : h = heap' /\ UpdateSoonestTime(h, NoDelegate)
        BY <1>4, <3>1
      <4> QED  BY <4>1, FdTyped DEF TimersInv
    <3> QED  BY <1>1, <3>1 DEF TimersInv, TimersTypeOK
  <2>2. delegate' \in [Delegates -> [client : LocTimers \cup {NoTimer}, left : Times \cup {Off},
                                      live : BOOLEAN]]
    BY <1>1, <1>5 DEF TimersInv, TimersTypeOK
  <2>3. Members(heap') \subseteq Live'
    BY <1>4, <1>5 DEF TimersInv, TimersTypeOK
  <2> QED  BY <1>1, <1>2, <2>1, <2>2, <2>3 DEF TimersInv, TimersTypeOK
<1>7. HeapSound'
  <2>1. Left \in Ranks /\ Left' \in Ranks
    BY <1>6, LeftRanks DEF TimersInv, TimersTypeOK, Ranks, Left
  <2>2. Members(heap') \subseteq Delegates
    BY <1>4, HeapAssumption
  <2>3. \A e \in Members(heap') : Left'[e] = Left[e]
    BY <1>4, <1>5, <2>2 DEF Left
  <2>4. PICK h \in Heaps : h = heap' /\ InOrder(h, Left)
    BY <1>4
  <2>5. SameOrder(Members(h), Left, Left')
    BY <2>3, <2>4 DEF SameOrder
  <2>6. InOrder(h, Left')
    BY <2>1, <2>4, <2>5, HeapAssumption
  <2> QED  BY <2>4, <2>6 DEF HeapSound
<1>8. DelegatesSound'
  <2>1. \A u \in LocTimers : timer[u] # d
    BY <1>3, DelegatesAreNumbers, TimersAssumption DEF TimersInv, DelegatesSound
  <2>2. \A u \in LocTimers : timer[u] # NoDelegate => timer[u] \in Delegates
    BY DEF TimersInv, TimersTypeOK
  <2> QED  BY <1>1, <1>5, <2>1, <2>2 DEF TimersInv, DelegatesSound
<1>9. \A i \in DOMAIN msgs' : msgs'[i].k # "expire" => msgs'[i].d # d
  <2>1. ASSUME NEW i \in DOMAIN msgs', msgs'[i].k # "expire"
        PROVE  msgs'[i].d # d
    <3>1. i + 1 \in DOMAIN msgs /\ 1 \in DOMAIN msgs /\ 1 < i + 1 /\ msgs'[i] = msgs[i + 1]
      BY <1>2
    <3> QED  BY <1>2, <2>1, <3>1 DEF TimersInv, MsgsSound, d
  <2> QED  BY <2>1
<1>10. MsgsSound'
  <2>1. ASSUME NEW i \in DOMAIN msgs'
        PROVE  /\ msgs'[i].k = "push" => msgs'[i].d \in Live' \ Members(heap')
               /\ msgs'[i].k = "remove" => msgs'[i].d \in Live' /\ delegate'[msgs'[i].d].client = NoTimer
    <3>1. i + 1 \in DOMAIN msgs /\ msgs'[i] = msgs[i + 1]
      BY <1>2
    <3> QED  BY <1>4, <1>5, <1>9, <3>1 DEF TimersInv, MsgsSound, Live
  <2>2. ASSUME NEW i \in DOMAIN msgs', NEW j \in DOMAIN msgs',
               i < j, msgs'[i].d = msgs'[j].d, msgs'[i].k # "expire"
        PROVE  msgs'[i].k = "push" /\ msgs'[j].k = "remove"
    <3>1. /\ i + 1 \in DOMAIN msgs /\ msgs'[i] = msgs[i + 1]
          /\ j + 1 \in DOMAIN msgs /\ msgs'[j] = msgs[j + 1] /\ i + 1 < j + 1
      BY <1>2, <2>2
    <3> QED  BY <2>2, <3>1 DEF TimersInv, MsgsSound
  <2> QED  BY <2>1, <2>2 DEF MsgsSound
<1>11. NothingLost'
  <2>1. ASSUME NEW i \in DOMAIN msgs, msgs[i].k # "remove" \/ msgs[i].d # d
        PROVE  \E j \in DOMAIN msgs' : msgs'[j] = msgs[i]
    BY <1>1, <1>2, <2>1, TakesTheFirst DEF TimersInv, d
  <2>2. ASSUME NEW e \in Live'
        PROVE  e \in Live /\ e # d /\ delegate'[e] = delegate[e]
    BY <1>5, <2>2 DEF Live
  <2>3. ASSUME NEW e \in Live'
        PROVE  IF delegate'[e].client = NoTimer
               THEN \E i \in DOMAIN msgs' : msgs'[i].k = "remove" /\ msgs'[i].d = e
               ELSE \/ e \in Members(heap')
                    \/ \E i \in DOMAIN msgs' : msgs'[i].k = "push" /\ msgs'[i].d = e
                    \/ expiring'.at = "popped" /\ expiring'.d = e
    BY <1>1, <1>4, <2>1, <2>2, <2>3 DEF NothingLost, TimersInv
  <2> QED  BY <2>3 DEF NothingLost
<1>12. PoppedSound'
  BY <1>1, <1>2 DEF PoppedSound
<1> QED  BY <1>6, <1>7, <1>8, <1>10, <1>11, <1>12 DEF TimersInv

\* What is queued about delegates is no less when an expiry is taken.
LEMMA ExpiryKeepsMsgs ==
  ASSUME TimersInv, Takes("expire") \/ UNCHANGED msgs, UNCHANGED delegate,
         Members(heap') \subseteq Members(heap)
  PROVE  /\ MsgsSound'
         /\ msgs' \in Seq(TimerMsgs)
         /\ \A i \in DOMAIN msgs : msgs[i].k # "expire" => \E j \in DOMAIN msgs' : msgs'[j] = msgs[i]
<1>1. CASE Takes("expire")
  <2>1. MsgsSound'
    BY <1>1, TakesKeepsMsgs
  <2>2. Head(msgs).k = "expire" /\ msgs' \in Seq(TimerMsgs)
    BY <1>1, MsgsTail DEF TimersInv
  <2> QED  BY <1>1, <2>1, <2>2, TakesTheFirst DEF TimersInv
<1>2. CASE UNCHANGED msgs
  BY <1>2 DEF MsgsSound, TimersInv, TimersTypeOK, Live
<1> QED  BY <1>1, <1>2

\* An expiry pops a delegate, and leaves it at once when nobody runs it.
LEMMA PopKeepsInv ==
  ASSUME TimersInv, heap # NoHeap, Takes("expire") \/ UNCHANGED msgs, expiring.at # "popped",
         PopsSoonest
  PROVE  TimersInv'
<1> DEFINE d == Soonest(heap)
           client == delegate[d].client
           popped == [at |-> IF client = NoTimer THEN "loop" ELSE "popped", d |-> d, client |-> client]
<1>1. /\ heap' = HeapPop(heap, Left) /\ expiring' = popped
      /\ UNCHANGED <<timer, delegate, fd, polled, polling>>
  BY DEF PopsSoonest
<1>2. /\ d \in Members(heap) /\ d \in Live /\ d \in Delegates
      /\ client \in LocTimers \cup {NoTimer}
      /\ popped \in Expirings /\ popped.d = d /\ popped.client = client
      /\ popped.at = IF client = NoTimer THEN "loop" ELSE "popped"
  <2>1. d \in Members(heap) /\ d \in Live
    BY HeapBecomes DEF TimersInv, TimersTypeOK
  <2>2. d \in Delegates /\ client \in LocTimers \cup {NoTimer}
    BY <2>1 DEF TimersInv, TimersTypeOK, Live
  <2> HIDE DEF d, client
  <2> QED  BY <2>1, <2>2 DEF Expirings
<1>3. heap' \in Heaps /\ Members(heap') = Members(heap) \ {d} /\ InOrder(heap', Left)
  BY <1>1, HeapBecomes DEF TimersInv, Becomes
<1> HIDE DEF d, popped
<1>4. /\ MsgsSound'
      /\ msgs' \in Seq(TimerMsgs)
      /\ \A i \in DOMAIN msgs : msgs[i].k # "expire" => \E j \in DOMAIN msgs' : msgs'[j] = msgs[i]
  BY <1>1, <1>3, ExpiryKeepsMsgs
<1>5. Left' = Left /\ Live' = Live
  BY <1>1 DEF Left, Live
<1>6. TimersTypeOK'
  BY <1>1, <1>2, <1>3, <1>4, <1>5 DEF TimersInv, TimersTypeOK, Expirings
<1>7. HeapSound' /\ DelegatesSound'
  BY <1>1, <1>3, <1>5 DEF HeapSound, DelegatesSound, TimersInv
<1>8. NothingLost'
  BY <1>1, <1>2, <1>3, <1>4, <1>5 DEF NothingLost, TimersInv
<1>9. PoppedSound'
  BY <1>1, <1>2, <1>5 DEF PoppedSound
<1> QED  BY <1>4, <1>6, <1>7, <1>8, <1>9 DEF TimersInv

\* The rest of MsgTask, which changes the heap no more.
LEMMA ExpiryKeepsInv ==
  ASSUME TimersInv, MsgTimerExpire \/ MsgTimerExpireEmpty \/ PopsNext \/ EndsExpiry \/ StopsClient
  PROVE  TimersInv'
<1>1. CASE MsgTimerExpire
  <2>1. expiring.at = "no"
    BY <1>1 DEF MsgTimerExpire, Takes
  <2> QED  BY <1>1, <2>1, PopKeepsInv DEF MsgTimerExpire
<1>2. CASE PopsNext
  BY <1>2, PopKeepsInv DEF PopsNext, Due
<1>3. CASE StopsClient
  <2> DEFINE t == expiring.client
  <2>1. t \in LocTimers /\ expiring \in Expirings
    BY <1>3 DEF StopsClient, TimersInv, PoppedSound, TimersTypeOK, Expirings
  <2>2. Leaves(t)
    BY <1>3, <2>1 DEF StopsClient, Leaves, Expirings
  <2>3. StopTimer(t) /\ UNCHANGED <<heap, fd, polled, polling>>
    BY <1>3 DEF StopsClient
  <2> HIDE DEF t
  <2> QED  BY <2>1, <2>2, <2>3, StopKeepsInv
<1>4. CASE MsgTimerExpireEmpty \/ EndsExpiry
  <2>1. /\ UNCHANGED <<timer, delegate, heap, polling>>
        /\ Takes("expire") \/ UNCHANGED msgs
        /\ UpdateSoonestTime(heap, NoDelegate)
        /\ expiring' = expiring \/ expiring' = NotExpiring
        /\ expiring.at # "popped"
    BY <1>4 DEF MsgTimerExpireEmpty, EndsExpiry, Takes
  <2>2. /\ MsgsSound'
        /\ msgs' \in Seq(TimerMsgs)
        /\ \A i \in DOMAIN msgs : msgs[i].k # "expire" => \E j \in DOMAIN msgs' : msgs'[j] = msgs[i]
    BY <2>1, ExpiryKeepsMsgs
  <2>3. fd' \in Times \cup {Off} /\ polled' \in BOOLEAN
    BY <2>1, FdTyped DEF TimersInv, HeapSound
  <2>4. Left' = Left /\ Live' = Live
    BY <2>1 DEF Left, Live
  <2>5. NotExpiring \in Expirings /\ NotExpiring.at = "no"
    BY DEF NotExpiring, Expirings
  <2>6. TimersTypeOK'
    BY <2>1, <2>2, <2>3, <2>4, <2>5 DEF TimersInv, TimersTypeOK, Expirings
  <2>7. HeapSound' /\ DelegatesSound'
    BY <2>1, <2>4 DEF HeapSound, DelegatesSound, TimersInv
  <2>8. NothingLost'
    BY <2>1, <2>2, <2>4 DEF NothingLost, TimersInv
  <2>9. PoppedSound'
    BY <2>1, <2>5 DEF PoppedSound
  <2> QED  BY <2>2, <2>6, <2>7, <2>8, <2>9 DEF TimersInv
<1> QED  BY <1>1, <1>2, <1>3, <1>4

-----------------------------------------------------------------------------
(* Callbacks, the poll thread, and the clock *)

LEMMA CallKeepsInv ==
  ASSUME TimersInv, NEW t \in LocTimers, CallsBack(t)
  PROVE  TimersInv'
<1>1. /\ UNCHANGED <<timer, delegate, heap, fd, polled, polling, msgs>>
      /\ expiring' = [expiring EXCEPT !.at = "loop"] /\ expiring \in Expirings /\ expiring.at = "calling"
  BY DEF CallsBack, TimersInv, TimersTypeOK, Expirings
<1>2. expiring' \in Expirings /\ expiring'.at = "loop"
  BY <1>1 DEF Expirings
<1> QED  BY <1>1, <1>2 DEF TimersInv, TimersTypeOK, HeapSound, DelegatesSound, MsgsSound, NothingLost,
           PoppedSound, Live, Left, Expirings

LEMMA PollKeepsInv ==
  ASSUME TimersInv, PollTask
  PROVE  TimersInv'
<1>1. CASE Wakes \/ Disarms
  <2>1. /\ UNCHANGED <<timer, delegate, heap, polled, msgs, expiring>>
        /\ fd' \in Times \cup {Off} /\ polling' \in {"woken", "disarmed"}
    BY <1>1 DEF Wakes, Disarms, TimersInv, TimersTypeOK
  <2> QED  BY <2>1 DEF TimersInv, TimersTypeOK, HeapSound, DelegatesSound, MsgsSound, NothingLost,
             PoppedSound, Live, Left
<1>2. CASE PostsExpire
  <2>1. /\ UNCHANGED <<timer, delegate, heap, fd, expiring>>
        /\ polled' = FALSE /\ polling' = "wait"
        /\ msgs' = Append(msgs, Expire)
    BY <1>2 DEF PostsExpire
  <2>2. /\ msgs' \in Seq(TimerMsgs)
        /\ Len(msgs) \in Nat /\ DOMAIN msgs = 1 .. Len(msgs)
        /\ DOMAIN msgs' = 1 .. (Len(msgs) + 1)
        /\ \A i \in DOMAIN msgs : msgs'[i] = msgs[i]
        /\ msgs'[Len(msgs) + 1] = Expire
    BY <2>1, MsgsAppend, TimerMsgTypes DEF TimersInv
  <2>3. Expire.k = "expire" /\ Expire.d = NoDelegate
    BY DEF Expire
  <2>4. Left' = Left /\ Live' = Live
    BY <2>1 DEF Left, Live
  <2>5. TimersTypeOK' /\ HeapSound' /\ DelegatesSound' /\ PoppedSound'
    BY <2>1, <2>2, <2>4 DEF TimersInv, TimersTypeOK, HeapSound, DelegatesSound, PoppedSound
  <2>6. MsgsSound'
    <3>1. ASSUME NEW i \in DOMAIN msgs', msgs'[i].k # "expire"
          PROVE  i \in DOMAIN msgs /\ msgs'[i] = msgs[i] /\ msgs[i].d \in Delegates
      <4>1. i \in DOMAIN msgs /\ msgs'[i] = msgs[i]
        BY <2>2, <2>3, <3>1
      <4> QED  BY <3>1, <4>1, MsgsTyped DEF TimersInv
    <3>2. ASSUME NEW i \in DOMAIN msgs'
          PROVE  /\ msgs'[i].k = "push" => msgs'[i].d \in Live' \ Members(heap')
                 /\ msgs'[i].k = "remove" => msgs'[i].d \in Live' /\ delegate'[msgs'[i].d].client = NoTimer
      BY <2>1, <2>4, <3>1 DEF TimersInv, MsgsSound
    <3>3. ASSUME NEW i \in DOMAIN msgs', NEW j \in DOMAIN msgs',
                 i < j, msgs'[i].d = msgs'[j].d, msgs'[i].k # "expire"
          PROVE  msgs'[i].k = "push" /\ msgs'[j].k = "remove"
      <4>1. i \in DOMAIN msgs /\ msgs'[i] = msgs[i] /\ msgs[i].d \in Delegates
        BY <3>1, <3>3
      <4>2. j \in DOMAIN msgs /\ msgs'[j] = msgs[j]
        BY <2>2, <2>3, <3>3, <4>1, DelegatesAreNumbers
      <4> QED  BY <3>3, <4>1, <4>2 DEF TimersInv, MsgsSound
    <3> QED  BY <3>2, <3>3 DEF MsgsSound
  <2>7. NothingLost'
    <3>1. DOMAIN msgs \subseteq DOMAIN msgs'
      BY <2>2
    <3> QED  BY <2>1, <2>2, <2>4, <3>1 DEF TimersInv, NothingLost
  <2> QED  BY <2>5, <2>6, <2>7 DEF TimersInv
<1> QED  BY <1>1, <1>2 DEF PollTask

\* What a tick does to each delegate.
LEMMA TickParts ==
  ASSUME TimersInv, Tick
  PROVE  /\ \A d \in Live : /\ delegate'[d] = [delegate[d] EXCEPT !.left = @ - 1]
                            /\ delegate'[d].left = delegate[d].left - 1
                            /\ delegate[d].left - 1 \in Times
                            /\ delegate[d].left \in Times
         /\ \A d \in Delegates \ Live : delegate'[d] = delegate[d]
         /\ \A d \in Delegates : /\ delegate'[d].client = delegate[d].client
                                 /\ delegate'[d].live = delegate[d].live
         /\ Live' = Live
         /\ fd' = IF fd = Off THEN Off ELSE fd - 1
         /\ fd' \in Times \cup {Off}
         /\ UNCHANGED <<timer, heap, polled, polling, msgs, expiring>>
<1>1. /\ \A d \in Live : delegate'[d] = [delegate[d] EXCEPT !.left = @ - 1]
      /\ \A d \in Delegates \ Live : delegate'[d] = delegate[d]
      /\ fd' = IF fd = Off THEN Off ELSE fd - 1
      /\ UNCHANGED <<timer, heap, polled, polling, msgs, expiring>>
  BY DEF Tick, Live
<1>2. \A d \in Delegates : delegate[d] \in [client : LocTimers \cup {NoTimer}, left : Times \cup {Off},
                                            live : BOOLEAN]
  BY DEF TimersInv, TimersTypeOK
<1>3. ASSUME NEW d \in Live
      PROVE  /\ delegate'[d].left = delegate[d].left - 1
             /\ delegate'[d].client = delegate[d].client
             /\ delegate'[d].live = delegate[d].live
             /\ delegate[d].left - 1 \in Times /\ delegate[d].left \in Times
  <2>1. delegate[d].left \in Times /\ delegate[d].left >= - MaxLate
    BY DEF Tick, Live, TimersInv, DelegatesSound
  <2>2. delegate[d].left - 1 \in Times
    BY <2>1, TimersAssumption DEF Times
  <2> QED  BY <1>1, <1>2, <2>1, <2>2 DEF Live
<1>4. \A d \in Delegates : /\ delegate'[d].client = delegate[d].client
                           /\ delegate'[d].live = delegate[d].live
  BY <1>1, <1>3
<1>5. fd' \in Times \cup {Off}
  BY <1>1, TimersAssumption DEF Tick, TimersInv, TimersTypeOK, Times, Off
<1> QED  BY <1>1, <1>3, <1>4, <1>5 DEF Live

LEMMA TickKeepsInv ==
  ASSUME TimersInv, Tick
  PROVE  TimersInv'
<1>1. TimersTypeOK'
  <2>1. delegate' \in [Delegates -> [client : LocTimers \cup {NoTimer}, left : Times \cup {Off},
                                      live : BOOLEAN]]
    <3>1. DOMAIN delegate' = Delegates /\ delegate' = [d \in Delegates |-> delegate'[d]]
      BY DEF Tick
    <3>2. ASSUME NEW d \in Delegates
          PROVE  delegate'[d] \in [client : LocTimers \cup {NoTimer}, left : Times \cup {Off}, live : BOOLEAN]
      <4>1. delegate[d] \in [client : LocTimers \cup {NoTimer}, left : Times \cup {Off}, live : BOOLEAN]
        BY DEF TimersInv, TimersTypeOK
      <4>2. CASE d \in Live
        BY <4>1, <4>2, TickParts
      <4>3. CASE d \notin Live
        BY <4>1, <4>3, TickParts
      <4> QED  BY <4>2, <4>3
    <3> QED  BY <3>1, <3>2
  <2> QED  BY <2>1, TickParts DEF TimersInv, TimersTypeOK
<1>2. HeapSound'
  <2>1. Members(heap) \subseteq Live
    BY DEF TimersInv, TimersTypeOK
  <2>2. \A d, e \in Members(heap) :
          delegate[d].left < delegate[e].left <=> delegate'[d].left < delegate'[e].left
    <3>1. \A d \in Live : delegate[d].left \in Int /\ delegate'[d].left = delegate[d].left - 1
      BY TickParts, LeftRanks DEF TimersInv
    <3> QED  BY <2>1, <3>1
  <2> QED  BY <1>1, <2>2, TickParts, HeapStays DEF TimersInv
<1>3. DelegatesSound'
  <2>1. \A t \in LocTimers : timer[t] # NoDelegate => timer[t] \in Delegates
    BY DEF TimersInv, TimersTypeOK
  <2>2. \A t \in LocTimers : timer'[t] # NoDelegate => delegate'[timer'[t]].client = t
    BY <2>1, TickParts DEF TimersInv, DelegatesSound
  <2>3. \A d \in Delegates :
          /\ delegate'[d].client # NoTimer => delegate'[d].live /\ timer'[delegate'[d].client] = d
          /\ delegate'[d].live => delegate'[d].left \in Times
    BY TickParts DEF TimersInv, DelegatesSound, Live
  <2> QED  BY <2>2, <2>3 DEF DelegatesSound
<1>4. Live \subseteq Delegates
  BY DEF Live
<1>5. MsgsSound'
  BY <1>4, TickParts DEF TimersInv, MsgsSound
<1>6. NothingLost'
  BY <1>4, TickParts DEF TimersInv, NothingLost
<1>7. PoppedSound'
  BY <1>4, TickParts DEF TimersInv, PoppedSound
<1> QED  BY <1>1, <1>2, <1>3, <1>5, <1>6, <1>7 DEF TimersInv

-----------------------------------------------------------------------------
(* The invariant holds *)

LEMMA TimersInvInit ==
  ASSUME TimersInit
  PROVE  TimersInv
<1>1. Freed \in [client : LocTimers \cup {NoTimer}, left : Times \cup {Off}, live : BOOLEAN]
      /\ Freed.client = NoTimer /\ Freed.live = FALSE
  BY DEF Freed
<1>2. NotExpiring \in Expirings /\ NotExpiring.at = "no"
  BY DEF NotExpiring, Expirings
<1>3. \A d \in Delegates : delegate[d] = Freed
  BY DEF TimersInit
<1>4. Left \in Ranks /\ Live = {}
  BY <1>1, <1>3 DEF Left, Ranks, Live
<1>5. heap \in Heaps /\ Members(heap) = {} /\ InOrder(heap, Left)
  BY <1>4, HeapAssumption DEF TimersInit, Becomes
<1>6. msgs \in Seq(TimerMsgs) /\ DOMAIN msgs = {}
  BY EmptySeq DEF TimersInit
<1>7. TimersTypeOK
  BY <1>1, <1>2, <1>5, <1>6 DEF TimersInit, TimersTypeOK, Expirings
<1>8. DelegatesSound
  BY <1>1, <1>3 DEF TimersInit, DelegatesSound
<1> QED  BY <1>2, <1>4, <1>5, <1>6, <1>7, <1>8
         DEF TimersInit, TimersInv, HeapSound, MsgsSound, NothingLost, PoppedSound

LEMMA TimersInvStep ==
  ASSUME TimersInv, TimersStep
  PROVE  TimersInv'
<1>1. ASSUME NEW t \in LocTimers, NEW delay \in 1 .. MaxDelay, StartsOne(t, delay)
      PROVE  TimersInv'
  BY <1>1, StartKeepsInv
<1>2. ASSUME NEW t \in LocTimers, StopsOne(t)
      PROVE  TimersInv'
  BY <1>2, StopKeepsInv DEF StopsOne, LeavesService, Leaves
<1>3. ASSUME NEW t \in LocTimers, CallsBack(t)
      PROVE  TimersInv'
  BY <1>3, CallKeepsInv
<1>4. CASE MsgTask
  BY <1>4, PushKeepsInv, RemoveKeepsInv, ExpiryKeepsInv DEF MsgTask
<1>5. CASE PollTask
  BY <1>5, PollKeepsInv
<1>6. CASE Tick
  BY <1>6, TickKeepsInv
<1>7. CASE UNCHANGED timerVars
  BY <1>7, TimersStutter
<1> QED  BY <1>1, <1>2, <1>3, <1>4, <1>5, <1>6, <1>7 DEF TimersStep

LEMMA TimersAreSound == OdcpiSpec => []TimersInv
<1>1. OdcpiInit => TimersInv
  BY TimersInvInit DEF OdcpiInit
<1>2. TimersInv /\ [OdcpiNext]_odcpiVars => TimersInv'
  BY OdcpiStepsTimers, TimersInvStep
<1> QED  BY <1>1, <1>2, PTL DEF OdcpiSpec

-----------------------------------------------------------------------------
(* What it implies *)

\* A message is one of a kind about a delegate.
LEMMA MsgIs ==
  ASSUME TimersTypeOK, NEW i \in DOMAIN msgs, NEW k, NEW d
  PROVE  msgs[i] = [k |-> k, d |-> d] <=> msgs[i].k = k /\ msgs[i].d = d
<1>1. msgs[i] \in TimerMsgs
  BY ElementOfSeq, LenProperties DEF TimersTypeOK
<1>2. msgs[i] = [k |-> msgs[i].k, d |-> msgs[i].d]
  BY <1>1 DEF TimerMsgs
<1> QED  BY <1>2

\* How many there are.
LEMMA QueuedParts ==
  ASSUME TimersTypeOK, NEW k, NEW d
  PROVE  /\ Queued(k, d) = 0 <=> \A i \in DOMAIN msgs : msgs[i].k # k \/ msgs[i].d # d
         /\ \A i \in DOMAIN msgs :
              /\ msgs[i].k = k /\ msgs[i].d = d
              /\ \A j \in DOMAIN msgs \ {i} : msgs[j].k # k \/ msgs[j].d # d
              => Queued(k, d) = 1
<1> DEFINE places == {i \in DOMAIN msgs : msgs[i] = [k |-> k, d |-> d]}
<1>1. Len(msgs) \in Nat /\ DOMAIN msgs = 1 .. Len(msgs)
  BY LenProperties DEF TimersTypeOK
<1>2. IsFiniteSet(places)
  <2>1. IsFiniteSet(1 .. Len(msgs))
    BY <1>1, FS_Interval
  <2> QED  BY <1>1, <2>1, FS_Subset
<1>3. Queued(k, d) = Cardinality(places)
  BY DEF Queued
<1>4. \A i \in DOMAIN msgs : i \in places <=> msgs[i].k = k /\ msgs[i].d = d
  BY MsgIs
<1>5. places \subseteq DOMAIN msgs
  OBVIOUS
<1> HIDE DEF places
<1>6. Cardinality(places) = 0 <=> places = {}
  BY <1>2, FS_EmptySet
<1>7. ASSUME NEW i \in DOMAIN msgs, msgs[i].k = k /\ msgs[i].d = d,
             \A j \in DOMAIN msgs \ {i} : msgs[j].k # k \/ msgs[j].d # d
      PROVE  Cardinality(places) = 1
  <2>1. places = {i}
    BY <1>4, <1>5, <1>7
  <2> QED  BY <2>1, FS_Singleton
<1> QED  BY <1>3, <1>4, <1>5, <1>6, <1>7

\* Each delegate is accounted for.
LEMMA AllAccounted ==
  ASSUME TimersInv
  PROVE  DelegatesAccounted
<1> USE DEF TimersInv
<1>1. \A i, j \in DOMAIN msgs :
        msgs[i].d = msgs[j].d /\ msgs[i].k = msgs[j].k /\ msgs[i].k # "expire" => i = j
  <2>1. \A i, j \in DOMAIN msgs : i < j \/ j < i \/ i = j
    BY LenProperties DEF TimersTypeOK
  <2> QED  BY <2>1 DEF MsgsSound
<1>2. ASSUME NEW d \in Delegates, NEW k \in {"push", "remove"}
      PROVE  Queued(k, d) = IF \E i \in DOMAIN msgs : msgs[i].k = k /\ msgs[i].d = d THEN 1 ELSE 0
  <2>1. CASE \E i \in DOMAIN msgs : msgs[i].k = k /\ msgs[i].d = d
    <3>1. PICK i \in DOMAIN msgs : msgs[i].k = k /\ msgs[i].d = d
      BY <2>1
    <3>2. \A j \in DOMAIN msgs \ {i} : msgs[j].k # k \/ msgs[j].d # d
      BY <1>1, <3>1
    <3> QED  BY <2>1, <3>1, <3>2, QueuedParts
  <2> QED  BY <2>1, QueuedParts
<1>3. \A t \in LocTimers : timer[t] # NoDelegate => delegate[timer[t]].client = t
  BY DEF DelegatesSound
<1>4. ASSUME NEW d \in Delegates
      PROVE  Queued("remove", d) = IF d \in Live /\ delegate[d].client = NoTimer THEN 1 ELSE 0
  <2>1. (\E i \in DOMAIN msgs : msgs[i].k = "remove" /\ msgs[i].d = d)
          <=> d \in Live /\ delegate[d].client = NoTimer
    BY DEF MsgsSound, NothingLost
  <2> QED  BY <1>2, <2>1
<1>5. ASSUME NEW d \in Delegates, d \notin Live
      PROVE  d \notin Members(heap) /\ Queued("push", d) = 0
  BY <1>2, <1>5 DEF MsgsSound, TimersTypeOK
<1>6. ASSUME NEW d \in Delegates, delegate[d].client # NoTimer
      PROVE  /\ timer[delegate[d].client] = d
             /\ \/ d \in Members(heap) /\ Queued("push", d) = 0
                \/ d \notin Members(heap) /\ Queued("push", d) = 1
                \/ d \notin Members(heap) /\ expiring.at = "popped" /\ expiring.d = d
  <2>1. timer[delegate[d].client] = d /\ d \in Live
    BY <1>6 DEF DelegatesSound, Live
  <2>2. d \in Members(heap) => ~ \E i \in DOMAIN msgs : msgs[i].k = "push" /\ msgs[i].d = d
    BY DEF MsgsSound
  <2> QED  BY <1>2, <1>6, <2>1, <2>2 DEF NothingLost
<1> QED  BY <1>3, <1>4, <1>5, <1>6 DEF DelegatesAccounted

\* Each LocTimerDelegate is run by the timer that made it or is queued for its one
\* deletion, and while it runs it is in the heap, on its way there, or just popped
\* (LocTimer.cpp), whatever the number of timers, delegates and delays.
THEOREM DelegatesAreAccounted == OdcpiSpec => []DelegatesAccounted
<1>1. TimersInv => DelegatesAccounted
  BY AllAccounted
<1> QED  BY <1>1, TimersAreSound, PTL

-----------------------------------------------------------------------------
(* The fd is armed for the soonest timer *)

\* SoonestArmed, with the queue told by its messages.
Watching ==
  /\ heap # NoHeap
  /\ polling \in {"wait", "woken"} /\ expiring.at = "no"
  /\ \A i \in DOMAIN msgs : msgs[i].k # "expire"
Armed == Watching => polled /\ \A d \in Members(heap) : fd <= delegate[d].left

LEMMA ArmedIsSoonestArmed ==
  ASSUME TimersInv
  PROVE  Armed <=> SoonestArmed
<1>1. Queued("expire", NoDelegate) = 0 <=> \A i \in DOMAIN msgs : msgs[i].k # "expire"
  <2>1. \A i \in DOMAIN msgs : msgs[i].k = "expire" => msgs[i].d = NoDelegate
    BY MsgsTyped DEF TimersInv, Expire
  <2> QED  BY <2>1, QueuedParts DEF TimersInv
<1>2. \A d \in Members(heap) : Left[d] = delegate[d].left
  BY LeftRanks, HeapAssumption DEF TimersInv, HeapSound
<1> QED  BY <1>1, <1>2 DEF Armed, Watching, SoonestArmed

\* The times are numbers, and those of the heap are what they are said to be.
LEMMA TimesAreNumbers ==
  ASSUME TimersInv
  PROVE  /\ \A d \in Live : delegate[d].left \in Times
         /\ Times \subseteq Int /\ Off \in Int /\ fd \in Int
         /\ \A x \in Times : x < Off
         /\ Members(heap) \subseteq Live /\ Live \subseteq Delegates
BY TimersAssumption DEF TimersInv, TimersTypeOK, DelegatesSound, Live, Times, Off

\* A queue that gets no shorter holds the expiries it held.
LEMMA WatchedBefore ==
  ASSUME TimersInv, Watching', UNCHANGED <<heap, polling>>, expiring.at = "no",
         \/ UNCHANGED msgs
         \/ \E k \in {"push", "remove"} : Takes(k)
         \/ \E m \in TimerMsgs : msgs' = Append(msgs, m)
  PROVE  Watching
<1>1. ASSUME NEW i \in DOMAIN msgs, msgs[i].k = "expire"
      PROVE  FALSE
  <2>1. CASE UNCHANGED msgs
    BY <1>1, <2>1 DEF Watching
  <2>2. ASSUME NEW k \in {"push", "remove"}, Takes(k)
        PROVE  FALSE
    <3>1. Head(msgs).k = k
      BY <2>2 DEF Takes
    <3>2. PICK j \in DOMAIN msgs' : msgs'[j] = msgs[i]
      BY <1>1, <2>2, <3>1, TakesTheFirst DEF TimersInv
    <3> QED  BY <1>1, <3>2 DEF Watching
  <2>3. ASSUME NEW m \in TimerMsgs, msgs' = Append(msgs, m)
        PROVE  FALSE
    <3>1. i \in DOMAIN msgs' /\ msgs'[i] = msgs[i]
      BY <2>3, MsgsAppend DEF TimersInv
    <3> QED  BY <1>1, <3>1 DEF Watching
  <2> QED  BY <2>1, <2>2, <2>3
<1> QED  BY <1>1 DEF Watching

\* A step that leaves the fd, the heap and the time of its delegates.
LEMMA ArmedStays ==
  ASSUME TimersInv, Armed, UNCHANGED <<heap, fd, polled>>,
         \A d \in Live : delegate'[d].left = delegate[d].left,
         Watching' => Watching
  PROVE  Armed'
BY TimesAreNumbers DEF Armed

LEMMA PushArms ==
  ASSUME TimersInv, TimersInv', Armed, MsgTimerPush, Watching'
  PROVE  polled' /\ \A e \in Members(heap') : fd' <= delegate'[e].left
<1> DEFINE d == Head(msgs).d
<1>1. /\ Takes("push") /\ heap' = HeapPush(heap, d, Left) /\ UNCHANGED <<timer, delegate, polling, expiring>>
      /\ UpdateSoonestTime(heap', Soonest(heap))
      /\ expiring.at = "no"
  BY DEF MsgTimerPush, Takes
<1>2. d \in Live \ Members(heap) /\ d \in Delegates
  BY <1>1, MsgsTail DEF TimersInv, MsgsSound, Live
<1> HIDE DEF d
<1>3. Members(heap') = Members(heap) \cup {d}
  BY <1>1, <1>2, HeapBecomes DEF TimersInv, Becomes
<1>4. PICK top : top = Soonest(heap')
  OBVIOUS
<1>5. top \in Members(heap') /\ top # NoDelegate /\ \A e \in Members(heap') : delegate[top].left <= delegate[e].left
  <2>1. heap' # NoHeap
    BY DEF Watching
  <2>2. heap' \in Heaps /\ InOrder(heap', Left) /\ Left \in Ranks
    BY <1>1, LeftRanks DEF TimersInv, HeapSound, Left
  <2>3. top \in Members(heap') /\ \A e \in Members(heap') : Left[top] <= Left[e]
    BY <1>4, <2>1, <2>2, HeapAssumption DEF Soonest
  <2>4. Members(heap') \subseteq Delegates
    BY <2>2, HeapAssumption
  <2> QED  BY <2>3, <2>4, LeftRanks, DelegatesAreNumbers DEF TimersInv
<1>6. \A e \in Members(heap') : delegate[e].left \in Int /\ Left[e] = delegate[e].left
  BY <1>2, <1>3, TimesAreNumbers, LeftRanks DEF TimersInv
<1>7. PICK prior : prior = Soonest(heap)
  OBVIOUS
<1>8. \/ polled' = TRUE /\ fd' = Left[top]
      \/ /\ UNCHANGED <<polled, fd>>
         /\ top = prior \/ (prior # NoDelegate /\ ~ (Left[top] < Left[prior]))
  BY <1>1, <1>4, <1>5, <1>7 DEF UpdateSoonestTime, Outranks
<1>9. CASE polled' = TRUE /\ fd' = Left[top]
  BY <1>1, <1>5, <1>6, <1>9
<1>10. CASE /\ UNCHANGED <<polled, fd>>
            /\ top = prior \/ (prior # NoDelegate /\ ~ (Left[top] < Left[prior]))
  <2>1. heap # NoHeap /\ prior \in Members(heap)
    BY <1>5, <1>7, <1>10, HeapBecomes DEF TimersInv
  <2>2. \A i \in DOMAIN msgs : msgs[i].k # "expire"
    <3>1. Head(msgs).k = "push"
      BY <1>1 DEF Takes
    <3> QED  BY <1>1, <3>1, TakesTheFirst DEF TimersInv, Watching
  <2>3. Watching
    BY <1>1, <2>1, <2>2 DEF Watching
  <2>4. polled /\ fd <= delegate[prior].left
    BY <2>1, <2>3 DEF Armed
  <2>5. delegate[prior].left <= delegate[top].left
    BY <1>3, <1>5, <1>6, <1>10, <2>1
  <2> QED  BY <1>1, <1>3, <1>5, <1>6, <1>10, <2>1, <2>4, <2>5, TimesAreNumbers
<1> QED  BY <1>8, <1>9, <1>10

\* The fd set anew.
LEMMA SetsFd ==
  ASSUME TimersInv, TimersInv', UNCHANGED delegate, heap' # NoHeap, UpdateSoonestTime(heap', NoDelegate)
  PROVE  polled' /\ \A d \in Members(heap') : fd' <= delegate'[d].left
<1>1. PICK top : top = Soonest(heap')
  OBVIOUS
<1>2. heap' \in Heaps /\ InOrder(heap', Left) /\ Left \in Ranks
  BY LeftRanks DEF TimersInv, HeapSound, Left
<1>3. top \in Members(heap') /\ top # NoDelegate /\ \A d \in Members(heap') : Left[top] <= Left[d]
  BY <1>1, <1>2, HeapAssumption, DelegatesAreNumbers DEF Soonest
<1>4. polled' = TRUE /\ fd' = Left[top]
  BY <1>1, <1>3 DEF UpdateSoonestTime
<1>5. \A d \in Members(heap') : Left[d] = delegate'[d].left
  BY <1>2, LeftRanks, HeapAssumption DEF TimersInv
<1> QED  BY <1>3, <1>4, <1>5

LEMMA RemoveArms ==
  ASSUME TimersInv, TimersInv', Armed, MsgTimerRemove, Watching'
  PROVE  polled' /\ \A e \in Members(heap') : fd' <= delegate'[e].left
<1> DEFINE d == Head(msgs).d
           removed == IF d \in Members(heap) /\ HeapRemove(heap, d, Left) # heap THEN d ELSE NoDelegate
<1>1. /\ Takes("remove") /\ heap' = HeapRemove(heap, d, Left) /\ UNCHANGED <<timer, polling, expiring>>
      /\ delegate' = [delegate EXCEPT ![d] = Freed]
      /\ IF Soonest(heap) = removed
         THEN UpdateSoonestTime(heap', NoDelegate)
         ELSE UNCHANGED <<polled, fd>>
  BY DEF MsgTimerRemove
<1>2. d \in Live /\ d \in Delegates
  BY <1>1, MsgsTail DEF TimersInv, MsgsSound, Live
<1> HIDE DEF d
<1>3. heap' \in Heaps /\ Members(heap') = Members(heap) \ {d} /\ InOrder(heap', Left) /\ heap' # NoHeap
  <2>1. CASE d \in Members(heap)
    BY <1>1, <2>1, HeapBecomes DEF TimersInv, Becomes, Watching
  <2>2. CASE d \notin Members(heap)
    BY <1>1, <1>2, <2>2, HeapBecomes DEF TimersInv, HeapSound, Watching
  <2> QED  BY <2>1, <2>2
<1>4. ASSUME NEW e \in Members(heap')
      PROVE  e \in Delegates /\ delegate'[e] = delegate[e] /\ Left[e] = delegate[e].left
  <2>1. e \in Delegates /\ e # d
    BY <1>3, HeapAssumption
  <2> QED  BY <1>1, <2>1, LeftRanks DEF TimersInv, TimersTypeOK
<1>5. CASE UpdateSoonestTime(heap', NoDelegate)
  <2>1. PICK top : top = Soonest(heap')
    OBVIOUS
  <2>2. top \in Members(heap') /\ top # NoDelegate /\ \A e \in Members(heap') : Left[top] <= Left[e]
    BY <1>3, <2>1, LeftRanks, HeapAssumption, DelegatesAreNumbers DEF TimersInv, Soonest
  <2>3. polled' = TRUE /\ fd' = Left[top]
    BY <1>5, <2>1, <2>2 DEF UpdateSoonestTime
  <2> QED  BY <1>4, <2>2, <2>3
<1>6. CASE UNCHANGED <<polled, fd>>
  <2>1. heap # NoHeap
    BY <1>3, HeapBecomes, <1>1, <1>2 DEF TimersInv
  <2>2. \A i \in DOMAIN msgs : msgs[i].k # "expire"
    <3>1. Head(msgs).k = "remove"
      BY <1>1 DEF Takes
    <3> QED  BY <1>1, <3>1, TakesTheFirst DEF TimersInv, Watching
  <2>3. Watching
    BY <1>1, <2>1, <2>2 DEF Watching, Takes
  <2> QED  BY <1>3, <1>4, <1>6, <2>3 DEF Armed
<1> QED  BY <1>1, <1>5, <1>6

\* A tick brings the fd and the timers forward alike.
LEMMA TickArms ==
  ASSUME TimersInv, Armed, Tick
  PROVE  Armed'
<1>1. ASSUME Watching'
      PROVE  polled /\ \A d \in Members(heap) : fd <= delegate[d].left
  <2>1. Watching
    BY <1>1, TickParts DEF Watching
  <2> QED  BY <2>1 DEF Armed
<1>2. ASSUME Watching', NEW d \in Members(heap)
      PROVE  fd' <= delegate'[d].left
  <2>1. /\ fd \in Int /\ Off \in Int /\ d \in Live
        /\ delegate[d].left \in Int /\ delegate[d].left < Off
    BY TimesAreNumbers
  <2>2. fd <= delegate[d].left
    BY <1>1, <1>2
  <2>3. fd' = fd - 1 /\ delegate'[d].left = delegate[d].left - 1
    <3>1. fd # Off
      BY <2>1, <2>2
    <3> QED  BY <2>1, <3>1, TickParts, Zenon
  <2> QED  BY <2>1, <2>2, <2>3
<1> QED  BY <1>1, <1>2, TickParts DEF Armed

LEMMA ArmedStep ==
  ASSUME TimersInv, TimersInv', Armed, TimersStep
  PROVE  Armed'
<1>1. ASSUME NEW t \in LocTimers, NEW delay \in 1 .. MaxDelay, StartsOne(t, delay)
      PROVE  Armed'
  <2>1. UNCHANGED <<heap, fd, polled, polling, expiring>>
    BY <1>1 DEF StartsOne, LeavesService
  <2>2. CASE timer[t] # NoDelegate
    BY <1>1, <2>1, <2>2 DEF StartsOne, StartTimer, Armed, Watching
  <2>3. CASE timer[t] = NoDelegate
    <3>1. PICK d \in Delegates :
            /\ ~ delegate[d].live
            /\ delegate' = [delegate EXCEPT ![d] = [client |-> t, left |-> delay, live |-> TRUE]]
            /\ msgs' = Append(msgs, [k |-> "push", d |-> d])
      BY <1>1, <2>3, StartsDelegate DEF TimersInv, StartsOne
    <3>2. \A e \in Live : delegate'[e].left = delegate[e].left
      BY <3>1 DEF Live, TimersInv, TimersTypeOK
    <3>3. Watching' => Watching
      BY <2>1, <3>1, TimerMsgTypes, WatchedBefore DEF Watching
    <3> QED  BY <2>1, <3>2, <3>3, ArmedStays
  <2> QED  BY <2>2, <2>3
<1>2. ASSUME NEW t \in LocTimers, StopTimer(t), UNCHANGED <<heap, fd, polled, polling>>,
             expiring.at # "no" => expiring'.at # "no"
      PROVE  Armed'
  <2>1. CASE timer[t] = NoDelegate
    BY <1>2, <2>1 DEF StopTimer, Armed, Watching
  <2>2. CASE timer[t] # NoDelegate
    <3>1. timer[t] \in Delegates
      BY <2>2 DEF TimersInv, TimersTypeOK
    <3>2. /\ delegate' = [delegate EXCEPT ![timer[t]].client = NoTimer]
          /\ msgs' = Append(msgs, [k |-> "remove", d |-> timer[t]])
      BY <1>2, <2>2 DEF StopTimer
    <3>3. \A e \in Live : delegate'[e].left = delegate[e].left
      BY <3>1, <3>2 DEF Live, TimersInv, TimersTypeOK
    <3>4. [k |-> "remove", d |-> timer[t]] \in TimerMsgs
      BY <3>1, TimerMsgTypes
    <3>5. Watching' => Watching
      BY <1>2, <3>2, <3>4, WatchedBefore DEF Watching
    <3> QED  BY <1>2, <3>3, <3>5, ArmedStays
  <2> QED  BY <2>1, <2>2
<1>3. ASSUME NEW t \in LocTimers, StopsOne(t)
      PROVE  Armed'
  BY <1>2, <1>3 DEF StopsOne, LeavesService
<1>4. CASE StopsClient
  <2> DEFINE t == expiring.client
  <2>1. t \in LocTimers
    BY <1>4 DEF StopsClient, TimersInv, PoppedSound
  <2>2. StopTimer(t) /\ UNCHANGED <<heap, fd, polled, polling>> /\ expiring'.at # "no"
    BY <1>4 DEF StopsClient, TimersInv, TimersTypeOK
  <2> HIDE DEF t
  <2> QED  BY <1>2, <2>1, <2>2
<1>5. CASE MsgTimerPush
  BY <1>5, PushArms DEF Armed
<1>6. CASE MsgTimerRemove
  BY <1>6, RemoveArms DEF Armed
<1>7. ASSUME expiring'.at # "no"
      PROVE  Armed'
  BY <1>7 DEF Armed, Watching
<1>8. CASE MsgTimerExpire \/ PopsNext
  <2>1. PopsSoonest
    BY <1>8 DEF MsgTimerExpire, PopsNext
  <2>2. expiring'.at # "no"
    BY <2>1 DEF PopsSoonest
  <2> QED  BY <1>7, <2>2
<1>9. CASE MsgTimerExpireEmpty
  BY <1>9 DEF MsgTimerExpireEmpty, Armed, Watching
<1>10. CASE EndsExpiry
  <2>1. UNCHANGED <<delegate, heap>> /\ UpdateSoonestTime(heap', NoDelegate)
    BY <1>10 DEF EndsExpiry
  <2> QED  BY <2>1, SetsFd DEF Armed, Watching
<1>11. ASSUME NEW t \in LocTimers, CallsBack(t)
       PROVE  Armed'
  <2>1. expiring'.at = "loop"
    BY <1>11 DEF CallsBack, TimersInv, TimersTypeOK
  <2> QED  BY <1>7, <2>1
<1>12. CASE Wakes
  BY <1>12 DEF Wakes, Armed, Watching
<1>13. CASE Disarms
  BY <1>13 DEF Disarms, Armed, Watching
<1>14. CASE PostsExpire
  <2>1. msgs' = Append(msgs, Expire) /\ Expire.k = "expire"
    BY <1>14 DEF PostsExpire, Expire
  <2>2. Len(msgs) + 1 \in DOMAIN msgs' /\ msgs'[Len(msgs) + 1] = Expire
    BY <2>1, MsgsAppend, TimerMsgTypes DEF TimersInv
  <2> QED  BY <2>1, <2>2 DEF Armed, Watching
<1>15. CASE Tick
  BY <1>15, TickArms
<1>16. CASE UNCHANGED timerVars
  BY <1>16 DEF timerVars, serviceVars, Armed, Watching
<1> QED  BY <1>1, <1>3, <1>4, <1>5, <1>6, <1>8, <1>9, <1>10, <1>11, <1>12, <1>13, <1>14, <1>15, <1>16
         DEF TimersStep, MsgTask, PollTask

\* The fd of the timer service is set for no later a time than that of any timer in
\* the heap, unless an expiry is on its way: updateSoonestTime forgets no timer,
\* whatever its heap is, as long as that orders the timers.
THEOREM SoonestIsArmed == OdcpiSpec => []SoonestArmed
<1>1. OdcpiInit => Armed
  BY DEF OdcpiInit, TimersInit, Armed, Watching
<1>2. TimersInv /\ TimersInv' /\ Armed /\ [OdcpiNext]_odcpiVars => Armed'
  BY OdcpiStepsTimers, ArmedStep
<1>3. TimersInv /\ Armed => SoonestArmed
  BY ArmedIsSoonestArmed
<1> QED  BY <1>1, <1>2, <1>3, TimersAreSound, PTL DEF OdcpiSpec

-----------------------------------------------------------------------------
(* ODCPI *)

\* What the adapter keeps.
AdapterTypeOK ==
  /\ callback \in BOOLEAN
  /\ active \in BOOLEAN /\ emergency \in BOOLEAN
  /\ timerActive \in BOOLEAN /\ restarting \in BOOLEAN
  /\ queue \in Seq(OdcpiMsgs)
  /\ asked \in {"nothing", "start", "emergency", "stop"}
  /\ others \in Nat /\ events \in Nat

LEMMA OdcpiMsgParts ==
  /\ \A m \in OdcpiMsgs : m.k = "start" => m.emergency \in BOOLEAN
  /\ \A m \in Requests \cup {[k |-> "engineUp"]} : m \in OdcpiMsgs
  /\ [k |-> "init"] \in OdcpiMsgs /\ [k |-> "expire"] \in OdcpiMsgs
BY DEF OdcpiMsgs, Requests

\* The queue when a message joins it, and when the adapter takes one.
LEMMA OdcpiQueueAppend ==
  ASSUME AdapterTypeOK, NEW m \in OdcpiMsgs, queue' = Append(queue, m)
  PROVE  /\ queue' \in Seq(OdcpiMsgs)
         /\ \A i \in DOMAIN queue : i \in DOMAIN queue' /\ queue'[i] = queue[i]
         /\ \E i \in DOMAIN queue' : queue'[i] = m
<1>1. queue \in Seq(OdcpiMsgs)
  BY DEF AdapterTypeOK
<1> QED  BY <1>1, AppendProperties, LenProperties

LEMMA OdcpiQueueTail ==
  ASSUME AdapterTypeOK, NEW k, Handles(k)
  PROVE  /\ queue' \in Seq(OdcpiMsgs)
         /\ Head(queue) \in OdcpiMsgs /\ Head(queue).k = k
         /\ \A i \in DOMAIN queue : queue[i].k # k => \E j \in DOMAIN queue' : queue'[j] = queue[i]
<1>1. queue \in Seq(OdcpiMsgs) /\ queue # << >> /\ queue' = Tail(queue) /\ Head(queue).k = k
  BY DEF AdapterTypeOK, Handles
<1>2. /\ queue' \in Seq(OdcpiMsgs) /\ Head(queue) \in OdcpiMsgs /\ Head(queue) = queue[1]
      /\ Len(queue) \in Nat \ {0} /\ DOMAIN queue = 1 .. Len(queue)
      /\ DOMAIN queue' = 1 .. (Len(queue) - 1)
      /\ \A j \in DOMAIN queue' : queue'[j] = queue[j + 1]
  BY <1>1, HeadTailProperties, EmptySeq, LenProperties
<1>3. ASSUME NEW i \in DOMAIN queue, queue[i].k # k
      PROVE  \E j \in DOMAIN queue' : queue'[j] = queue[i]
  <2>1. i # 1
    BY <1>1, <1>2, <1>3
  <2>2. i - 1 \in DOMAIN queue' /\ (i - 1) + 1 = i
    BY <1>2, <2>1
  <2> QED  BY <1>2, <2>2
<1> QED  BY <1>1, <1>2, <1>3

\* Type correctness of the adapter's part.
LEMMA AdapterTyped ==
  ASSUME AdapterTypeOK, [OdcpiNext]_odcpiVars
  PROVE  AdapterTypeOK'
<1>1. CASE Modem
  <2>1. PICK m \in Requests \cup {[k |-> "engineUp"]} : queue' = Append(queue, m)
    BY <1>1 DEF Modem, Posts
  <2>2. queue' \in Seq(OdcpiMsgs)
    BY <2>1, OdcpiMsgParts, OdcpiQueueAppend
  <2> QED  BY <1>1, <2>2 DEF Modem, adapterVars, AdapterTypeOK
<1>2. CASE InitOdcpiCommand
  <2>1. queue' \in Seq(OdcpiMsgs)
    BY <1>2, OdcpiMsgParts, OdcpiQueueAppend DEF InitOdcpiCommand, Posts
  <2> QED  BY <1>2, <2>1 DEF InitOdcpiCommand, adapterVars, AdapterTypeOK
<1>3. ASSUME NEW t \in OtherTimers, OtherStarts(t) \/ OtherStops(t) \/ OtherCallsBack(t)
      PROVE  AdapterTypeOK'
  <2>1. UNCHANGED <<adapterVars, queue, events>> /\ others' \in {others, others + 1}
    BY <1>3 DEF OtherStarts, OtherStops, OtherCallsBack
  <2> QED  BY <2>1 DEF adapterVars, AdapterTypeOK
<1>4. CASE OdcpiTimerExpireEvent
  <2>1. queue' \in Seq(OdcpiMsgs)
    BY <1>4, OdcpiMsgParts, OdcpiQueueAppend DEF OdcpiTimerExpireEvent
  <2> QED  BY <1>4, <2>1 DEF OdcpiTimerExpireEvent, adapterVars, AdapterTypeOK
<1>5. ASSUME NEW k, Handles(k)
      PROVE  queue' \in Seq(OdcpiMsgs) /\ Head(queue) \in OdcpiMsgs /\ Head(queue).k = k
             /\ UNCHANGED <<others, events>>
  BY <1>5, OdcpiQueueTail DEF Handles
<1>6. CASE InitOdcpi \/ RequestStop \/ EngineUp
  BY <1>5, <1>6 DEF InitOdcpi, RequestStop, EngineUp, LeavesTimer, AdapterTypeOK
<1>7. CASE RequestUnsupported
  BY <1>5, <1>7 DEF RequestUnsupported, adapterVars, AdapterTypeOK
<1>8. CASE RequestStart
  <2>1. Head(queue).emergency \in BOOLEAN
    BY <1>5, <1>8, OdcpiMsgParts DEF RequestStart
  <2>2. /\ active' = TRUE /\ emergency' = Head(queue).emergency /\ callback' = callback
        /\ asked' \in {asked, "emergency", "start"}
        /\ timerActive' \in {timerActive, TRUE, FALSE} /\ restarting' \in {restarting, TRUE, FALSE}
    BY <1>8 DEF RequestStart, Asks, StartOdcpiTimer, RestartOdcpiTimer, LeavesTimer
  <2> QED  BY <1>5, <1>8, <2>1, <2>2 DEF RequestStart, AdapterTypeOK
<1>9. CASE OdcpiTimerExpire
  <2>1. /\ UNCHANGED <<callback, active, emergency>>
        /\ asked' \in {asked, "emergency", "start"}
        /\ timerActive' = FALSE /\ restarting' \in {restarting, TRUE}
    BY <1>9 DEF OdcpiTimerExpire, Asks, StopOdcpiTimer, RestartOdcpiTimer
  <2> QED  BY <1>5, <1>9, <2>1 DEF OdcpiTimerExpire, AdapterTypeOK
<1>10. CASE RestartStarts
  BY <1>10 DEF RestartStarts, StartOdcpiTimer, AdapterTypeOK
<1>11. CASE ServiceTurn \/ UNCHANGED odcpiVars
  BY <1>11 DEF ServiceTurn, odcpiVars, adapterVars, AdapterTypeOK
<1> QED  BY <1>1, <1>2, <1>3, <1>4, <1>6, <1>7, <1>8, <1>9, <1>10, <1>11 DEF OdcpiNext, Adapter

LEMMA AdapterIsTyped == OdcpiSpec => []AdapterTypeOK
<1>1. OdcpiInit => AdapterTypeOK
  <2>1. << >> \in Seq(OdcpiMsgs)
    BY EmptySeq
  <2>2. 0 \in Nat
    OBVIOUS
  <2> QED  BY <2>1, <2>2, Zenon DEF OdcpiInit, AdapterTypeOK
<1>2. AdapterTypeOK /\ [OdcpiNext]_odcpiVars => AdapterTypeOK'
  BY AdapterTyped
<1> QED  BY <1>1, <1>2, PTL DEF OdcpiSpec

\* The adapter and the timer service keep to their types, for every number of timers
\* and delegates and every delay.
THEOREM OdcpiTypeCorrect == OdcpiSpec => []OdcpiTypeOK
<1>1. TimersInv /\ AdapterTypeOK => OdcpiTypeOK
  BY DEF TimersInv, AdapterTypeOK, OdcpiTypeOK
<1> QED  BY <1>1, TimersAreSound, AdapterIsTyped, PTL

\* A timer the adapter has started runs, is calling back, or has its expiry in the queue.
TimerRuns ==
  \/ timer[OdcpiTimer] # NoDelegate
  \/ expiring.at = "calling" /\ expiring.client = OdcpiTimer
  \/ \E i \in DOMAIN queue : queue[i].k = "expire"

TimedInv ==
  /\ active => restarting \/ timerActive
  /\ timerActive /\ ~ restarting => TimerRuns

\* Starting the timer leaves it running.
LEMMA StartRuns ==
  ASSUME TimersInv, StartOdcpiTimer
  PROVE  timer'[OdcpiTimer] # NoDelegate /\ timerActive' /\ ~ restarting'
<1>1. OdcpiTimer \in LocTimers
  BY OdcpiAssumption
<1>2. CASE timer[OdcpiTimer] # NoDelegate
  BY <1>1, <1>2 DEF StartOdcpiTimer, StartTimer
<1>3. CASE timer[OdcpiTimer] = NoDelegate
  <2>1. PICK d \in Delegates : timer' = [timer EXCEPT ![OdcpiTimer] = d]
    BY <1>1, <1>3, StartsDelegate DEF StartOdcpiTimer, TimersInv
  <2>2. timer'[OdcpiTimer] = d
    BY <1>1, <2>1 DEF TimersInv, TimersTypeOK
  <2> QED  BY <2>2, DelegatesAreNumbers DEF StartOdcpiTimer
<1> QED  BY <1>2, <1>3 DEF StartOdcpiTimer

\* The service's own steps leave the timer of the adapter in hand.
LEMMA ServiceKeepsTimer ==
  ASSUME TimersInv, AdapterTypeOK, ServiceTurn, TimerRuns
  PROVE  TimerRuns'
<1>1. UNCHANGED queue
  BY DEF ServiceTurn
<1>2. CASE \E i \in DOMAIN queue : queue[i].k = "expire"
  BY <1>1, <1>2 DEF TimerRuns
<1>3. CASE StopsClient
  <2>1. expiring.at = "popped" /\ expiring \in Expirings /\ expiring.client \in LocTimers
    BY <1>3 DEF StopsClient, TimersInv, TimersTypeOK, PoppedSound, Expirings
  <2>2. CASE timer[OdcpiTimer] # NoDelegate
    <3>1. CASE expiring.client = OdcpiTimer
      <4>1. expiring' = [expiring EXCEPT !.at = "calling"]
        BY <1>3, <2>2, <3>1 DEF StopsClient
      <4> QED  BY <2>1, <3>1, <4>1 DEF TimerRuns, Expirings
    <3>2. CASE expiring.client # OdcpiTimer
      <4>1. timer'[OdcpiTimer] = timer[OdcpiTimer]
        BY <1>3, <2>1, <3>2, OdcpiAssumption DEF StopsClient, StopTimer, TimersInv, TimersTypeOK
      <4> QED  BY <2>2, <4>1 DEF TimerRuns
    <3> QED  BY <3>1, <3>2
  <2> QED  BY <1>1, <1>2, <2>1, <2>2 DEF TimerRuns
<1>4. CASE ~ StopsClient
  <2>1. UNCHANGED timer
    BY <1>4 DEF ServiceTurn, MsgTask, PollTask, MsgTimerPush, MsgTimerRemove, MsgTimerExpire,
       MsgTimerExpireEmpty, PopsNext, PopsSoonest, EndsExpiry, Wakes, Disarms, PostsExpire, Tick
  <2>2. expiring.at = "calling" => UNCHANGED expiring
    BY <1>4 DEF ServiceTurn, MsgTask, PollTask, MsgTimerPush, MsgTimerRemove, MsgTimerExpire,
       MsgTimerExpireEmpty, PopsNext, PopsSoonest, EndsExpiry, Wakes, Disarms, PostsExpire, Tick, Takes
  <2> QED  BY <1>1, <2>1, <2>2 DEF TimerRuns
<1> QED  BY <1>3, <1>4

LEMMA TimedStep ==
  ASSUME TimersInv, AdapterTypeOK, TimedInv, [OdcpiNext]_odcpiVars
  PROVE  TimedInv'
<1>1. CASE Modem \/ InitOdcpiCommand
  <2>1. \E m \in OdcpiMsgs : queue' = Append(queue, m)
    BY <1>1, OdcpiMsgParts DEF Modem, InitOdcpiCommand, Posts
  <2>2. \A i \in DOMAIN queue : i \in DOMAIN queue' /\ queue'[i] = queue[i]
    BY <2>1, OdcpiQueueAppend
  <2>3. UNCHANGED <<timer, expiring, active, restarting, timerActive>>
    BY <1>1 DEF Modem, InitOdcpiCommand, timerVars, serviceVars, adapterVars
  <2> QED  BY <2>2, <2>3 DEF TimedInv, TimerRuns
<1>2. ASSUME NEW t \in OtherTimers, OtherStarts(t) \/ OtherStops(t) \/ OtherCallsBack(t)
      PROVE  TimedInv'
  <2>1. UNCHANGED <<queue, active, restarting, timerActive>>
    BY <1>2 DEF OtherStarts, OtherStops, OtherCallsBack, adapterVars
  <2>2. timer'[OdcpiTimer] = timer[OdcpiTimer]
    BY <1>2, OdcpiAssumption
      DEF OtherStarts, OtherStops, OtherCallsBack, CallsBack, StartTimer, StopTimer, OtherTimers,
          TimersInv, TimersTypeOK
  <2>3. expiring.at = "calling" /\ expiring.client = OdcpiTimer => UNCHANGED expiring
    BY <1>2 DEF OtherStarts, OtherStops, OtherCallsBack, CallsBack, OtherTimers
  <2> QED  BY <2>1, <2>2, <2>3 DEF TimedInv, TimerRuns
<1>3. CASE OdcpiTimerExpireEvent
  <2>1. \E i \in DOMAIN queue' : queue'[i] = [k |-> "expire"]
    BY <1>3, OdcpiMsgParts, OdcpiQueueAppend DEF OdcpiTimerExpireEvent
  <2>2. \E i \in DOMAIN queue' : queue'[i].k = "expire"
    BY <2>1
  <2>3. UNCHANGED <<active, restarting, timerActive>>
    BY <1>3 DEF OdcpiTimerExpireEvent, adapterVars
  <2> QED  BY <2>2, <2>3 DEF TimedInv, TimerRuns
<1>4. ASSUME NEW k, Handles(k), k # "expire", UNCHANGED <<timer, expiring>>, TimerRuns
      PROVE  TimerRuns'
  BY <1>4, OdcpiQueueTail DEF TimerRuns
<1>5. CASE InitOdcpi \/ RequestStop \/ RequestUnsupported \/ EngineUp
  <2>1. /\ UNCHANGED <<timer, expiring, restarting, timerActive>>
        /\ active' => active
    BY <1>5 DEF InitOdcpi, RequestStop, RequestUnsupported, EngineUp, LeavesTimer, LeavesService,
         timerVars, serviceVars, adapterVars
  <2>2. TimerRuns => TimerRuns'
    BY <1>4, <1>5, <2>1 DEF InitOdcpi, RequestStop, RequestUnsupported, EngineUp
  <2> QED  BY <2>1, <2>2 DEF TimedInv
<1>6. CASE RequestStart
  <2>1. Handles("start") /\ UNCHANGED expiring /\ ~ restarting
    BY <1>6 DEF RequestStart, LeavesService, Handles
  <2>2. CASE StartOdcpiTimer
    BY <2>2, StartRuns DEF TimedInv, TimerRuns
  <2>3. CASE RestartOdcpiTimer
    BY <2>3 DEF RestartOdcpiTimer, TimedInv
  <2>4. CASE LeavesTimer /\ (active \/ timerActive)
    <3>1. TimerRuns => TimerRuns'
      BY <1>4, <2>1, <2>4 DEF LeavesTimer
    <3> QED  BY <2>1, <2>4, <3>1 DEF TimedInv, LeavesTimer
  <2>5. StartOdcpiTimer \/ RestartOdcpiTimer \/ (LeavesTimer /\ (active \/ timerActive))
    BY <1>6 DEF RequestStart
  <2> QED  BY <2>2, <2>3, <2>4, <2>5
<1>7. CASE OdcpiTimerExpire
  <2>1. CASE active
    BY <1>7, <2>1 DEF OdcpiTimerExpire, RestartOdcpiTimer, TimedInv
  <2>2. CASE ~ active
    BY <1>7, <2>2 DEF OdcpiTimerExpire, StopOdcpiTimer, TimedInv
  <2> QED  BY <2>1, <2>2
<1>8. CASE RestartStarts
  BY <1>8, StartRuns DEF RestartStarts, TimedInv, TimerRuns
<1>9. CASE ServiceTurn
  <2>1. UNCHANGED <<active, restarting, timerActive>>
    BY <1>9 DEF ServiceTurn, adapterVars
  <2> QED  BY <1>9, <2>1, ServiceKeepsTimer DEF TimedInv
<1>10. CASE UNCHANGED odcpiVars
  BY <1>10 DEF odcpiVars, timerVars, serviceVars, adapterVars, TimedInv, TimerRuns
<1> QED  BY <1>1, <1>2, <1>3, <1>5, <1>6, <1>7, <1>8, <1>9, <1>10 DEF OdcpiNext, Adapter

\* An active ODCPI request has a timer that will renew it, or the expiry that does is on
\* its way, in every order of start, stop, emergency, expiry and modem restart
\* (requestOdcpi, odcpiTimerExpire), whatever the other users of timers do.
THEOREM ActiveRequestsAreTimed == OdcpiSpec => []ActiveIsTimed
<1>1. OdcpiInit => TimedInv
  BY DEF OdcpiInit, TimedInv
<1>2. TimersInv /\ AdapterTypeOK /\ TimedInv /\ [OdcpiNext]_odcpiVars => TimedInv'
  BY TimedStep
<1>3. TimedInv => ActiveIsTimed
  BY DEF TimedInv, TimerRuns, ActiveIsTimed
<1> QED  BY <1>1, <1>2, <1>3, TimersAreSound, AdapterIsTyped, PTL DEF OdcpiSpec

-----------------------------------------------------------------------------
(* The adapter's queue *)

\* The messages are of three kinds.
LEMMA NiMessageParts ==
  ASSUME NEW m \in NiMsgs
  PROVE  /\ m.k \in {"notify", "userResponse", "niResponse"}
         /\ m.k = "notify" => m.req \in NiRequests /\ m.note \in Notifications
         /\ m.k = "userResponse" => m.id \in Nat /\ m.resp \in Answers
         /\ m.k = "niResponse" => m.req \in NiRequests /\ m.resp \in Responses
BY DEF NiMsgs

\* What is left of a queue when its first message is taken.
LEMMA NiQueueTail ==
  ASSUME NiTypeOK, NEW k, HandlesNi(k)
  PROVE  /\ niQueue' \in Seq(NiMsgs)
         /\ Len(niQueue) \in Nat \ {0} /\ DOMAIN niQueue = 1 .. Len(niQueue)
         /\ DOMAIN niQueue' = 1 .. (Len(niQueue) - 1)
         /\ \A i \in DOMAIN niQueue' : niQueue'[i] = niQueue[i + 1]
         /\ Head(niQueue) = niQueue[1] /\ Head(niQueue) \in NiMsgs /\ Head(niQueue).k = k
<1>1. niQueue \in Seq(NiMsgs) /\ niQueue # << >> /\ niQueue' = Tail(niQueue)
  BY DEF NiTypeOK, HandlesNi
<1> QED  BY <1>1, HeadTailProperties, EmptySeq, LenProperties DEF HandlesNi

\* A queue that a message joins.
LEMMA NiQueueAppend ==
  ASSUME NiTypeOK, NEW m \in NiMsgs, niQueue' = Append(niQueue, m)
  PROVE  /\ niQueue' \in Seq(NiMsgs)
         /\ Len(niQueue) \in Nat /\ DOMAIN niQueue = 1 .. Len(niQueue)
         /\ DOMAIN niQueue' = 1 .. (Len(niQueue) + 1)
         /\ \A i \in DOMAIN niQueue : niQueue'[i] = niQueue[i]
         /\ niQueue'[Len(niQueue) + 1] = m
<1>1. niQueue \in Seq(NiMsgs)
  BY DEF NiTypeOK
<1> QED  BY <1>1, AppendProperties, LenProperties

\* The messages of the modem, the user and the threads.
LEMMA NiMessageTypes ==
  /\ \A n \in NiRequests, note \in Notifications :
       [k |-> "notify", req |-> n, note |-> note] \in NiMsgs
  /\ \A id \in Nat, answer \in Answers :
       [k |-> "userResponse", id |-> id, resp |-> answer] \in NiMsgs
  /\ \A n \in NiRequests, r \in Responses :
       [k |-> "niResponse", req |-> n, resp |-> r] \in NiMsgs
BY DEF NiMsgs

-----------------------------------------------------------------------------
(* Type correctness *)

\* A response is set wherever its flag is.
FlagsHaveResponses == \A s \in NiSessions : respRecvd[s] => resp[s] \in Responses

NiTypes == NiTypeOK /\ FlagsHaveResponses

\* A response about to be set has its type, if the session is open.
LEMMA SettingType ==
  ASSUME NiTypeOK, NEW s \in NiSessions, rawRequest[s] # NoRequest, NEW r \in Responses
  PROVE  Setting(s, r) \in Settings
BY DEF NiTypeOK, Setting, Settings

\* Giving a request back or freeing it keeps the types of its history.
LEMMA EndTypes ==
  ASSUME NiTypeOK, NEW n \in NiRequests, NEW r \in Responses, Informs(n, r) \/ Frees(n)
  PROVE  /\ told' \in [NiRequests -> Responses \cup {Unset}]
         /\ ended' \in [NiRequests -> Nat]
<1>1. ended[n] + 1 \in Nat
  BY DEF NiTypeOK
<1>2. ended' = [ended EXCEPT ![n] = ended[n] + 1]
  BY DEF Informs, Frees
<1>3. ended' \in [NiRequests -> Nat]
  BY <1>1, <1>2 DEF NiTypeOK
<1>4. told' = told \/ told' = [told EXCEPT ![n] = r]
  BY DEF Informs, Frees
<1>5. told' \in [NiRequests -> Responses \cup {Unset}]
  BY <1>4 DEF NiTypeOK
<1> QED  BY <1>3, <1>5

\* The modem's, the client's and the user's steps keep the types.
LEMMA EnvironmentTypes ==
  ASSUME NiAssumption, NiTypes,
         \/ \E n \in NiRequests : ModemRequests(n) \/ UserAnswers(n)
         \/ ClientChanges
  PROVE  NiTypes'
<1> USE DEF NiTypes, FlagsHaveResponses, sessionVars, threadVars, historyVars
<1>1. ASSUME NEW n \in NiRequests, ModemRequests(n)
      PROVE  NiTypes'
  <2>1. niQueue' \in Seq(NiMsgs)
    BY <1>1, NiQueueAppend, NiMessageTypes DEF ModemRequests, NiAssumption
  <2> QED  BY <1>1, <2>1 DEF ModemRequests, NiTypeOK
<1>2. ASSUME NEW n \in NiRequests, UserAnswers(n)
      PROVE  NiTypes'
  <2>1. prompt[n] \in Nat
    BY DEF NiTypeOK
  <2>2. niQueue' \in Seq(NiMsgs)
    BY <1>2, <2>1, NiQueueAppend, NiMessageTypes DEF UserAnswers
  <2> QED  BY <1>2, <2>2 DEF UserAnswers, NiTypeOK
<1>3. CASE ClientChanges
  BY <1>3 DEF ClientChanges, NiTypeOK
<1> QED  BY <1>1, <1>2, <1>3

\* So do those of the adapter ...
LEMMA NiAdapterTypes ==
  ASSUME NiTypes, NiAdapter
  PROVE  NiTypes'
<1> USE DEF NiTypes, FlagsHaveResponses, sessionVars, threadVars, historyVars
<1>1. CASE NotifyDecided \/ NotifyBusy \/ NiResponse
  <2>1. PICK k \in {"notify", "niResponse"} : HandlesNi(k)
    BY <1>1 DEF NotifyDecided, NotifyBusy, NiResponse
  <2>2. niQueue' \in Seq(NiMsgs) /\ Head(niQueue).req \in NiRequests
    BY <2>1, NiQueueTail, NiMessageParts
  <2>3. \E r \in Responses : Informs(Head(niQueue).req, r) \/ Frees(Head(niQueue).req)
    <3>1. CASE NotifyDecided
      BY <3>1 DEF NotifyDecided, Verdict, Responses, Answers
    <3>2. CASE NotifyBusy
      BY <3>2 DEF NotifyBusy, Responses, Answers
    <3>3. CASE NiResponse
      <4>1. Head(niQueue).resp \in Responses
        BY <3>3, NiQueueTail, NiMessageParts DEF NiResponse
      <4> QED  BY <3>3, <4>1 DEF NiResponse
    <3> QED  BY <1>1, <3>1, <3>2, <3>3
  <2>4. /\ told' \in [NiRequests -> Responses \cup {Unset}]
        /\ ended' \in [NiRequests -> Nat]
    BY <2>2, <2>3, EndTypes
  <2> QED  BY <1>1, <2>1, <2>2, <2>4
              DEF NotifyDecided, NotifyBusy, NiResponse, HandlesNi, NiTypeOK
<1>2. CASE NotifyNoClient
  <2>1. niQueue' \in Seq(NiMsgs) /\ Head(niQueue).req \in NiRequests
    BY <1>2, NiQueueTail, NiMessageParts DEF NotifyNoClient
  <2>2. /\ told' \in [NiRequests -> Responses \cup {Unset}]
        /\ ended' \in [NiRequests -> Nat]
    <3>1. Informs(Head(niQueue).req, "accept") \/ (ended' = ended /\ told' = told)
      BY <1>2 DEF NotifyNoClient
    <3>2. "accept" \in Responses
      BY DEF Responses, Answers
    <3>3. CASE Informs(Head(niQueue).req, "accept")
      BY <2>1, <3>2, <3>3, EndTypes
    <3>4. CASE ended' = ended /\ told' = told
      BY <3>4 DEF NiTypeOK
    <3> QED  BY <3>1, <3>3, <3>4
  <2>3. setting' \in Seq(Settings)
    <3>1. "session" \in NiSessions /\ "ignore" \in Responses
      BY DEF NiSessions, Responses
    <3>2. rawRequest["session"] # NoRequest => <<Setting("session", "ignore")>> \in Seq(Settings)
      BY <3>1, SettingType
    <3> QED  BY <1>2, <3>2, EmptySeq DEF NotifyNoClient
  <2>4. dropped' \subseteq NiRequests
    BY <1>2, <2>1 DEF NotifyNoClient, NiTypeOK
  <2> QED  BY <1>2, <2>1, <2>2, <2>3, <2>4 DEF NotifyNoClient, HandlesNi, NiTypeOK
<1>3. CASE NotifyOpens
  <2>1. niQueue' \in Seq(NiMsgs) /\ Head(niQueue).req \in NiRequests
    BY <1>3, NiQueueTail, NiMessageParts DEF NotifyOpens
  <2>2. SessionFor(Head(niQueue).note) \in NiSessions
    BY DEF SessionFor, NiSessions
  <2> QED  BY <1>3, <2>1, <2>2 DEF NotifyOpens, HandlesNi, NiTypeOK, Threads
<1>4. CASE UserResponse
  <2>1. niQueue' \in Seq(NiMsgs) /\ Head(niQueue).resp \in Answers
    BY <1>4, NiQueueTail, NiMessageParts DEF UserResponse
  <2>2. setting' \in Seq(Settings)
    <3> DEFINE answer == Head(niQueue).resp
               ignored == IF answer = "accept" /\ rawRequest["session"] # NoRequest
                          THEN <<Setting("session", "ignore")>> ELSE <<>>
    <3>1. NiSessions = {"session", "sessionEs"} /\ "ignore" \in Responses /\ answer \in Responses
      BY <2>1 DEF NiSessions, Responses
    <3>2. ignored \in Seq(Settings)
      BY <3>1, SettingType, EmptySeq
    <3>3. Answerable("sessionEs", Head(niQueue).id) =>
            Append(ignored, Setting("sessionEs", answer)) \in Seq(Settings)
      BY <3>1, <3>2, SettingType, AppendProperties DEF Answerable
    <3>4. Answerable("session", Head(niQueue).id) =>
            <<Setting("session", answer)>> \in Seq(Settings)
      BY <3>1, SettingType DEF Answerable
    <3> HIDE DEF ignored
    <3> QED  BY <1>4, <3>3, <3>4, EmptySeq DEF UserResponse, ignored
  <2> QED  BY <1>4, <2>1, <2>2 DEF UserResponse, HandlesNi, NiTypeOK
<1>5. CASE SetsResponse
  <2>1. Head(setting) \in Settings /\ setting' \in Seq(Settings)
    BY <1>5, HeadTailProperties DEF SetsResponse, NiTypeOK
  <2> QED  BY <1>5, <2>1 DEF SetsResponse, NiTypeOK, Settings
<1> QED  BY <1>1, <1>2, <1>3, <1>4, <1>5 DEF NiAdapter

\* ... and of the threads.
LEMMA NiThreadTypes ==
  ASSUME NiTypes, NEW n \in NiRequests, NiThread(n)
  PROVE  NiTypes'
<1> USE DEF NiTypes, FlagsHaveResponses, sessionVars, threadVars, historyVars
<1>0. thread[n] \in Threads /\ thread[n].s \in NiSessions
  BY DEF NiTypeOK, Threads
<1>1. ASSUME NEW r \in Responses, ThreadTakes(n, r)
      PROVE  NiTypes'
  <2>1. /\ thread' \in [NiRequests -> Threads]
        /\ taken' \in [NiRequests -> Taken \cup {NoTake}]
        /\ rawRequest' \in [NiSessions -> NiRequests \cup {NoRequest}]
    BY <1>0, <1>1 DEF ThreadTakes, NiTypeOK, Threads, Taken
  <2>2. ended' \in [NiRequests -> Nat] /\ told' = told
    <3>1. \/ ended' = ended /\ told' = told
          \/ rawRequest[thread[n].s] \in NiRequests /\ Frees(rawRequest[thread[n].s])
      BY <1>0, <1>1 DEF ThreadTakes, NiTypeOK
    <3> QED  BY <1>1, <3>1, EndTypes DEF NiTypeOK, Frees
  <2> QED  BY <1>0, <1>1, <2>1, <2>2 DEF ThreadTakes, NiTypeOK
<1>2. CASE ThreadHasResponse(n)
  BY <1>0, <1>1, <1>2 DEF ThreadHasResponse
<1>3. CASE ThreadTimesOut(n)
  BY <1>1, <1>3 DEF ThreadTimesOut, Responses
<1>4. CASE ThreadEnds(n)
  <2>1. niQueue' \in Seq(NiMsgs)
    <3>1. CASE taken[n] = NoTake
      BY <1>4, <3>1 DEF ThreadEnds, NiTypeOK
    <3>2. CASE taken[n] # NoTake
      <4>1. taken[n].req \in NiRequests /\ taken[n].resp \in Responses
        BY <3>2 DEF NiTypeOK, Taken
      <4> QED  BY <1>4, <3>2, <4>1, NiQueueAppend, NiMessageTypes DEF ThreadEnds
    <3> QED  BY <3>1, <3>2
  <2> QED  BY <1>0, <1>4, <2>1 DEF ThreadEnds, NiTypeOK, Threads
<1> QED  BY <1>2, <1>3, <1>4 DEF NiThread

\* Every variable keeps its type, and no session's flag is up without a response.
THEOREM NiTypeCorrect == NiSpec => []NiTypes
<1>1. NiInit => NiTypes
  <2>1. << >> \in Seq(NiMsgs) /\ << >> \in Seq(Settings)
    BY EmptySeq
  <2>2. [at |-> "none", s |-> "session"] \in Threads
    BY DEF Threads, NiSessions
  <2>3. NiInit => NiTypeOK
    <3> SUFFICES ASSUME NiInit PROVE NiTypeOK
      OBVIOUS
    <3>1. niConfig \in Configurations /\ niQueue \in Seq(NiMsgs) /\ setting \in Seq(Settings)
      BY <2>1, NiAssumption DEF NiInit, NiAssumption
    <3>2. thread \in [NiRequests -> Threads] /\ taken \in [NiRequests -> Taken \cup {NoTake}]
      BY <2>2 DEF NiInit
    <3>3. /\ niClient \in BOOLEAN /\ late \in BOOLEAN /\ reqIDCounter \in Nat
          /\ respRecvd \in [NiSessions -> BOOLEAN]
          /\ rawRequest \in [NiSessions -> NiRequests \cup {NoRequest}]
          /\ reqID \in [NiSessions -> Nat]
          /\ resp \in [NiSessions -> Responses \cup {Unset}]
      BY DEF NiInit
    <3>4. /\ prompt \in [NiRequests -> Nat] /\ ended \in [NiRequests -> Nat]
          /\ said \in [NiRequests -> Answers \cup {Unset}]
          /\ told \in [NiRequests -> Responses \cup {Unset}] /\ dropped \subseteq NiRequests
      BY DEF NiInit
    <3> QED  BY <3>1, <3>2, <3>3, <3>4 DEF NiTypeOK
  <2> QED  BY <2>3 DEF NiInit, NiTypes, FlagsHaveResponses
<1>2. NiTypes /\ [NiNext]_niVars => NiTypes'
  <2> SUFFICES ASSUME NiTypes, [NiNext]_niVars
               PROVE  NiTypes'
    OBVIOUS
  <2>1. CASE \/ \E n \in NiRequests : ModemRequests(n) \/ UserAnswers(n)
             \/ ClientChanges
    BY <2>1, EnvironmentTypes, NiAssumption
  <2>2. CASE NiAdapter
    BY <2>2, NiAdapterTypes
  <2>3. CASE \E n \in NiRequests : NiThread(n)
    BY <2>3, NiThreadTypes
  <2>4. CASE UNCHANGED niVars
    BY <2>4 DEF niVars, sessionVars, threadVars, historyVars, NiTypes, NiTypeOK, FlagsHaveResponses
  <2> QED  BY <2>1, <2>2, <2>3, <2>4 DEF NiNext
<1> QED  BY <1>1, <1>2, PTL DEF NiSpec

-----------------------------------------------------------------------------
(* The data of a request *)

\* Where it may be: in a message, a session or its thread's hands.
NiQueued(n)    == Holding(n) # {}
Once(n)      == \A i, j \in Holding(n) : i = j
Asked(n)     == \E i \in DOMAIN niQueue : niQueue[i].k = "notify" /\ niQueue[i].req = n
InSession(n) == \E s \in NiSessions : rawRequest[s] = n
InHands(n)   == taken[n] # NoTake

\* Each of them excludes the others and the end, a request whose thread was
\* started is somewhere or has ended, and one that was dropped is nowhere.
InOnePlace(n) ==
  /\ Once(n)
  /\ NiQueued(n) => ~ InSession(n) /\ ~ InHands(n) /\ ended[n] = 0
  /\ InSession(n) => ~ InHands(n) /\ ended[n] = 0
  /\ InHands(n) => ended[n] = 0
  /\ ended[n] \in {0, 1}
  /\ thread[n].at # "none" => NiQueued(n) \/ InSession(n) \/ InHands(n) \/ ended[n] = 1
  /\ n \in dropped => ~ NiQueued(n) /\ ~ InSession(n) /\ ~ InHands(n) /\ ended[n] = 0

WaitsOn(n, s) == thread[n].at = "waiting" /\ thread[n].s = s

\* The thread is started when the request leaves the queue for a session,
\* waits for it there, and takes none but its own.
ThreadFollows(n) ==
  /\ Asked(n) => thread[n].at = "none"
  /\ \A s \in NiSessions : WaitsOn(n, s) <=> rawRequest[s] = n
  /\ InHands(n) => taken[n].req = n /\ thread[n].at = "finishing"

DataInv == \A n \in NiRequests : InOnePlace(n) /\ ThreadFollows(n)

\* A message that is taken is the only one of its request, and of no other.
LEMMA TakenQueue ==
  ASSUME NiTypeOK, NEW k, HandlesNi(k), NEW n \in NiRequests, Once(n)
  PROVE  /\ Once(n)' /\ (Asked(n)' => Asked(n)) /\ (NiQueued(n)' => NiQueued(n))
         /\ k = "userResponse" \/ Head(niQueue).req # n => (NiQueued(n) => NiQueued(n)')
         /\ k # "userResponse" /\ Head(niQueue).req = n => NiQueued(n) /\ ~ NiQueued(n)'
         /\ k = "notify" /\ Head(niQueue).req = n => Asked(n)
<1>1. /\ Len(niQueue) \in Nat \ {0} /\ DOMAIN niQueue = 1 .. Len(niQueue)
      /\ DOMAIN niQueue' = 1 .. (Len(niQueue) - 1)
      /\ \A i \in DOMAIN niQueue' : niQueue'[i] = niQueue[i + 1]
      /\ Head(niQueue) = niQueue[1] /\ Head(niQueue).k = k
  BY NiQueueTail
<1>2. \A i \in Holding(n)' : i + 1 \in Holding(n) /\ i \in Nat \ {0}
  BY <1>1 DEF Holding
<1>3. \A i \in Holding(n) : i # 1 => i - 1 \in Holding(n)'
  BY <1>1 DEF Holding
<1>4. 1 \in Holding(n) <=> k # "userResponse" /\ Head(niQueue).req = n
  BY <1>1 DEF Holding
<1>5. Holding(n) \subseteq Nat
  BY <1>1 DEF Holding
<1>6. Once(n)'
  <2>1. \A i, j \in Holding(n)' : i + 1 = j + 1
    BY <1>2 DEF Once
  <2> QED  BY <1>2, <2>1 DEF Once
<1>7. Asked(n)' => Asked(n)
  BY <1>1 DEF Asked
<1>8. k # "userResponse" /\ Head(niQueue).req = n => NiQueued(n) /\ ~ NiQueued(n)'
  BY <1>2, <1>4 DEF Once, NiQueued
<1> QED  BY <1>1, <1>2, <1>3, <1>4, <1>6, <1>7, <1>8 DEF NiQueued, Asked

\* A message that is posted is in the queue.
LEMMA PostedQueue ==
  ASSUME NiTypeOK, NEW m \in NiMsgs, niQueue' = Append(niQueue, m), NEW n \in NiRequests
  PROVE  /\ m.k = "userResponse" \/ m.req # n =>
              /\ Once(n) => Once(n)'
              /\ NiQueued(n)' <=> NiQueued(n)
              /\ Asked(n)' <=> Asked(n)
         /\ m.k # "userResponse" /\ m.req = n =>
              /\ ~ NiQueued(n) => Once(n)'
              /\ NiQueued(n)'
              /\ ~ NiQueued(n) => (Asked(n)' <=> m.k = "notify")
<1>1. /\ Len(niQueue) \in Nat /\ DOMAIN niQueue = 1 .. Len(niQueue)
      /\ DOMAIN niQueue' = 1 .. (Len(niQueue) + 1)
      /\ \A i \in DOMAIN niQueue : niQueue'[i] = niQueue[i]
      /\ niQueue'[Len(niQueue) + 1] = m
  BY NiQueueAppend
<1>2. \A i : i \in Holding(n)' <=> (i \in Holding(n)
                \/ (i = Len(niQueue) + 1 /\ m.k # "userResponse" /\ m.req = n))
  BY <1>1 DEF Holding
<1>3. Asked(n)' <=> Asked(n) \/ (m.k = "notify" /\ m.req = n)
  BY <1>1 DEF Asked
<1>4. Asked(n) => NiQueued(n)
  BY DEF Asked, NiQueued, Holding
<1>5. CASE m.k = "userResponse" \/ m.req # n
  <2>1. \A i : i \in Holding(n)' <=> i \in Holding(n)
    BY <1>2, <1>5
  <2>2. m.k # "notify" \/ m.req # n
    BY <1>5
  <2> QED  BY <1>3, <1>5, <2>1, <2>2 DEF Once, NiQueued
<1>6. CASE m.k # "userResponse" /\ m.req = n
  <2>1. \A i : i \in Holding(n)' <=> i \in Holding(n) \/ i = Len(niQueue) + 1
    BY <1>2, <1>6
  <2>2. NiQueued(n)'
    BY <2>1 DEF NiQueued
  <2>3. ~ NiQueued(n) => Once(n)'
    BY <2>1 DEF NiQueued, Once
  <2> QED  BY <1>3, <1>4, <1>6, <2>2, <2>3
<1> QED  BY <1>5, <1>6

\* A step that leaves the request's messages, session, thread and end alone.
LEMMA Elsewhere ==
  ASSUME NEW n \in NiRequests, InOnePlace(n), ThreadFollows(n),
         Once(n)', Asked(n)' => Asked(n), NiQueued(n)' <=> NiQueued(n),
         \A s \in NiSessions : rawRequest'[s] = n <=> rawRequest[s] = n,
         taken'[n] = taken[n], thread'[n] = thread[n], ended'[n] = ended[n],
         n \in dropped' <=> n \in dropped
  PROVE  InOnePlace(n)' /\ ThreadFollows(n)'
BY DEF InOnePlace, ThreadFollows, WaitsOn, InSession, InHands

\* A request that is given back or freed out of the queue.
LEMMA EndedOutOfQueue ==
  ASSUME NiTypeOK, DataInv, NEW k \in {"notify", "niResponse"}, HandlesNi(k),
         ended' = [ended EXCEPT ![Head(niQueue).req] = @ + 1],
         UNCHANGED <<rawRequest, taken, thread, dropped>>
  PROVE  DataInv'
<1> SUFFICES ASSUME NEW n \in NiRequests
             PROVE  InOnePlace(n)' /\ ThreadFollows(n)'
  BY DEF DataInv
<1>0. InOnePlace(n) /\ ThreadFollows(n) /\ Once(n)
  BY DEF DataInv, InOnePlace
<1>1. Head(niQueue).req \in NiRequests
  BY NiQueueTail, NiMessageParts
<1>2. CASE Head(niQueue).req = n
  <2>1. Once(n)' /\ (Asked(n)' => Asked(n)) /\ NiQueued(n) /\ ~ NiQueued(n)'
    BY <1>0, <1>2, TakenQueue
  <2>2. ended[n] = 0 /\ ended'[n] = 1 /\ ~ InSession(n) /\ ~ InHands(n)
    BY <1>0, <1>2, <2>1 DEF InOnePlace, NiTypeOK
  <2> QED  BY <1>0, <2>1, <2>2 DEF InOnePlace, ThreadFollows, WaitsOn, InSession, InHands
<1>3. CASE Head(niQueue).req # n
  <2>1. Once(n)' /\ (Asked(n)' => Asked(n)) /\ (NiQueued(n)' <=> NiQueued(n))
    BY <1>0, <1>3, TakenQueue
  <2>2. ended'[n] = ended[n]
    BY <1>1, <1>3 DEF NiTypeOK
  <2> QED  BY <1>0, <2>1, <2>2, Elsewhere
<1> QED  BY <1>2, <1>3

\* A request that leaves the queue and is dropped.
LEMMA DroppedOutOfQueue ==
  ASSUME NiTypeOK, DataInv, HandlesNi("notify"),
         dropped' = dropped \cup {Head(niQueue).req},
         UNCHANGED <<rawRequest, taken, thread, ended>>
  PROVE  DataInv'
<1> SUFFICES ASSUME NEW n \in NiRequests
             PROVE  InOnePlace(n)' /\ ThreadFollows(n)'
  BY DEF DataInv
<1>0. InOnePlace(n) /\ ThreadFollows(n) /\ Once(n)
  BY DEF DataInv, InOnePlace
<1>1. CASE Head(niQueue).req = n
  <2>1. Once(n)' /\ (Asked(n)' => Asked(n)) /\ Asked(n) /\ NiQueued(n) /\ ~ NiQueued(n)'
    BY <1>0, <1>1, TakenQueue
  <2>2. ended[n] = 0 /\ ~ InSession(n) /\ ~ InHands(n) /\ thread[n].at = "none"
    BY <1>0, <2>1 DEF InOnePlace, ThreadFollows
  <2> QED  BY <1>0, <2>1, <2>2 DEF InOnePlace, ThreadFollows, WaitsOn, InSession, InHands
<1>2. CASE Head(niQueue).req # n
  <2>1. Once(n)' /\ (Asked(n)' => Asked(n)) /\ (NiQueued(n)' <=> NiQueued(n))
    BY <1>0, <1>2, TakenQueue
  <2>2. n \in dropped' <=> n \in dropped
    BY <1>2
  <2> QED  BY <1>0, <2>1, <2>2, Elsewhere
<1> QED  BY <1>1, <1>2

\* The adapter's steps leave each request's data in one place, or in none ...
LEMMA AdapterOwns ==
  ASSUME NiTypes, DataInv, NiAdapter
  PROVE  DataInv'
<1> USE DEF sessionVars, threadVars, historyVars
<1>0. NiTypeOK
  BY DEF NiTypes
<1>1. CASE NotifyDecided \/ NotifyBusy \/ NiResponse
  BY <1>0, <1>1, EndedOutOfQueue DEF NotifyDecided, NotifyBusy, NiResponse, Informs, Frees
<1>2. CASE NotifyNoClient
  <2>1. CASE Head(niQueue).note.type = "es"
    BY <1>0, <1>2, <2>1, EndedOutOfQueue DEF NotifyNoClient, Informs
  <2>2. CASE Head(niQueue).note.type # "es"
    BY <1>0, <1>2, <2>2, DroppedOutOfQueue DEF NotifyNoClient
  <2> QED  BY <2>1, <2>2
<1>3. CASE NotifyOpens
  <2> DEFINE m == Head(niQueue).req
             t == SessionFor(Head(niQueue).note)
  <2>1. m \in NiRequests /\ t \in NiSessions /\ HandlesNi("notify")
    BY <1>0, <1>3, NiQueueTail, NiMessageParts DEF NotifyOpens, SessionFor, NiSessions
  <2>2. /\ rawRequest' = [rawRequest EXCEPT ![t] = m] /\ rawRequest[t] = NoRequest
        /\ thread' = [thread EXCEPT ![m] = [at |-> "waiting", s |-> t]]
        /\ taken' = taken /\ ended' = ended /\ dropped' = dropped
    BY <1>3 DEF NotifyOpens, Busy, SessionFor
  <2> HIDE DEF m, t
  <2> SUFFICES ASSUME NEW n \in NiRequests
               PROVE  InOnePlace(n)' /\ ThreadFollows(n)'
    BY DEF DataInv
  <2>3. InOnePlace(n) /\ ThreadFollows(n) /\ Once(n)
    BY DEF DataInv, InOnePlace
  <2>4. CASE n = m
    <3>1. Once(n)' /\ NiQueued(n) /\ ~ NiQueued(n)' /\ Asked(n)
      BY <1>0, <2>1, <2>3, <2>4, TakenQueue DEF m
    <3>2. /\ thread[n].at = "none" /\ ~ InSession(n) /\ ~ InHands(n) /\ ended[n] = 0
          /\ n \notin dropped
      BY <2>3, <3>1 DEF InOnePlace, ThreadFollows
    <3>3. /\ thread'[n] = [at |-> "waiting", s |-> t]
          /\ \A s \in NiSessions : rawRequest'[s] = n <=> s = t
      BY <1>0, <2>1, <2>2, <2>4, <3>2 DEF NiTypeOK, InSession
    <3>4. ~ Asked(n)'
      BY <3>1 DEF Asked, NiQueued, Holding
    <3> QED  BY <2>1, <2>2, <3>1, <3>2, <3>3, <3>4
                DEF InOnePlace, ThreadFollows, WaitsOn, InSession, InHands
  <2>5. CASE n # m
    <3>1. Once(n)' /\ (Asked(n)' => Asked(n)) /\ (NiQueued(n)' <=> NiQueued(n))
      BY <1>0, <2>1, <2>3, <2>5, TakenQueue DEF m
    <3>2. /\ thread'[n] = thread[n]
          /\ \A s \in NiSessions : rawRequest'[s] = n <=> rawRequest[s] = n
      BY <1>0, <2>1, <2>2, <2>5 DEF NiTypeOK, NiRequests, NoRequest
    <3> QED  BY <2>2, <2>3, <3>1, <3>2, Elsewhere
  <2> QED  BY <2>4, <2>5
<1>4. CASE UserResponse
  <2> SUFFICES ASSUME NEW n \in NiRequests
               PROVE  InOnePlace(n)' /\ ThreadFollows(n)'
    BY DEF DataInv
  <2>1. InOnePlace(n) /\ ThreadFollows(n) /\ Once(n)
    BY DEF DataInv, InOnePlace
  <2>2. Once(n)' /\ (Asked(n)' => Asked(n)) /\ (NiQueued(n)' <=> NiQueued(n))
    BY <1>0, <1>4, <2>1, TakenQueue DEF UserResponse
  <2> QED  BY <1>4, <2>1, <2>2, Elsewhere DEF UserResponse
<1>5. CASE SetsResponse
  BY <1>5 DEF SetsResponse, DataInv, InOnePlace, ThreadFollows, WaitsOn, InSession, InHands, Once,
              NiQueued, Asked, Holding
<1> QED  BY <1>1, <1>2, <1>3, <1>4, <1>5 DEF NiAdapter

\* ... so do those of the modem, the client and the user ...
LEMMA EnvironmentOwns ==
  ASSUME NiAssumption, NiTypes, DataInv,
         \/ \E n \in NiRequests : ModemRequests(n) \/ UserAnswers(n)
         \/ ClientChanges
  PROVE  DataInv'
<1> USE DEF sessionVars, threadVars, historyVars
<1>0. NiTypeOK
  BY DEF NiTypes
<1>1. ASSUME NEW m \in NiRequests, ModemRequests(m), NEW n \in NiRequests
      PROVE  InOnePlace(n)' /\ ThreadFollows(n)'
  <2>1. InOnePlace(n) /\ ThreadFollows(n) /\ Once(n)
    BY DEF DataInv, InOnePlace
  <2>2. PICK note \in Notifications :
          /\ niQueue' = Append(niQueue, [k |-> "notify", req |-> m, note |-> note])
          /\ [k |-> "notify", req |-> m, note |-> note] \in NiMsgs
    BY <1>1, NiMessageTypes DEF ModemRequests, NiAssumption
  <2>3. UNCHANGED <<rawRequest, taken, thread, ended, dropped>>
    BY <1>1 DEF ModemRequests
  <2>4. CASE n = m
    <3>1. ~ NiQueued(n) /\ thread[n].at = "none" /\ ended[n] = 0 /\ n \notin dropped
      BY <1>0, <1>1, <2>4 DEF ModemRequests, Sent, NiQueued, NiTypeOK
    <3>2. Once(n)' /\ NiQueued(n)'
      BY <1>0, <2>2, <2>4, <3>1, PostedQueue
    <3>3. ~ InSession(n) /\ ~ InHands(n)
      BY <2>1, <3>1 DEF ThreadFollows, WaitsOn, InSession
    <3> QED  BY <2>1, <2>3, <3>1, <3>2, <3>3
                DEF InOnePlace, ThreadFollows, WaitsOn, InSession, InHands
  <2>5. CASE n # m
    <3>1. Once(n)' /\ (NiQueued(n)' <=> NiQueued(n)) /\ (Asked(n)' <=> Asked(n))
      BY <1>0, <2>1, <2>2, <2>5, PostedQueue
    <3> QED  BY <2>1, <2>3, <3>1, Elsewhere
  <2> QED  BY <2>4, <2>5
<1>2. ASSUME NEW m \in NiRequests, UserAnswers(m), NEW n \in NiRequests
      PROVE  InOnePlace(n)' /\ ThreadFollows(n)'
  <2>1. InOnePlace(n) /\ ThreadFollows(n) /\ Once(n)
    BY DEF DataInv, InOnePlace
  <2>2. PICK answer \in Answers :
          /\ niQueue' = Append(niQueue, [k |-> "userResponse", id |-> prompt[m], resp |-> answer])
          /\ [k |-> "userResponse", id |-> prompt[m], resp |-> answer] \in NiMsgs
    BY <1>0, <1>2, NiMessageTypes DEF UserAnswers, NiTypeOK
  <2>3. Once(n)' /\ (NiQueued(n)' <=> NiQueued(n)) /\ (Asked(n)' <=> Asked(n))
    BY <1>0, <2>1, <2>2, PostedQueue
  <2> QED  BY <1>2, <2>1, <2>3, Elsewhere DEF UserAnswers
<1>3. CASE ClientChanges
  BY <1>3 DEF ClientChanges, DataInv, InOnePlace, ThreadFollows, WaitsOn, InSession, InHands, Once,
              NiQueued, Asked, Holding
<1> QED  BY <1>1, <1>2, <1>3 DEF DataInv

\* ... and of the threads.  The session a thread waits on holds its own request.
LEMMA ThreadTakesOwn ==
  ASSUME NiTypeOK, DataInv, NEW m \in NiRequests, thread[m].at = "waiting"
  PROVE  /\ thread[m].s \in NiSessions /\ rawRequest[thread[m].s] = m
         /\ \A s \in NiSessions : rawRequest[s] = m => s = thread[m].s
         /\ ~ NiQueued(m) /\ ~ InHands(m) /\ ended[m] = 0 /\ m \notin dropped
<1>1. thread[m] \in Threads
  BY DEF NiTypeOK
<1>2. thread[m].s \in NiSessions
  BY <1>1 DEF Threads
<1>3. \A s \in NiSessions : thread[m].s = s <=> rawRequest[s] = m
  BY DEF DataInv, ThreadFollows, WaitsOn
<1>4. rawRequest[thread[m].s] = m /\ \A s \in NiSessions : rawRequest[s] = m => s = thread[m].s
  BY <1>2, <1>3
<1> QED  BY <1>2, <1>4 DEF DataInv, InOnePlace, InSession

LEMMA ThreadOwns ==
  ASSUME NiTypes, DataInv, NEW m \in NiRequests, NiThread(m)
  PROVE  DataInv'
<1> USE DEF sessionVars, threadVars, historyVars
<1>0. NiTypeOK
  BY DEF NiTypes
<1> SUFFICES ASSUME NEW n \in NiRequests
             PROVE  InOnePlace(n)' /\ ThreadFollows(n)'
  BY DEF DataInv
<1>1. InOnePlace(n) /\ ThreadFollows(n) /\ Once(n)
  BY DEF DataInv, InOnePlace
<1>2. ASSUME NEW r, ThreadTakes(m, r)
      PROVE  InOnePlace(n)' /\ ThreadFollows(n)'
  <2> DEFINE t == thread[m].s
  <2>1. /\ t \in NiSessions /\ rawRequest[t] = m
        /\ \A s \in NiSessions : rawRequest[s] = m => s = t
        /\ ~ NiQueued(m) /\ ~ InHands(m) /\ ended[m] = 0 /\ m \notin dropped
    BY <1>0, <1>2, ThreadTakesOwn DEF ThreadTakes
  <2>2. m # NoRequest
    BY DEF NiRequests, NoRequest
  <2>3. /\ niQueue' = niQueue /\ dropped' = dropped
        /\ thread' = [thread EXCEPT ![m].at = "finishing"]
        /\ rawRequest' = [rawRequest EXCEPT ![t] = NoRequest]
        /\ r # "ignore" => taken' = [taken EXCEPT ![m] = [req |-> m, resp |-> r]] /\ ended' = ended
        /\ r = "ignore" => taken' = taken /\ ended' = [ended EXCEPT ![m] = @ + 1]
    BY <1>2, <2>1, <2>2 DEF ThreadTakes, Frees
  <2> HIDE DEF t
  <2>4. Once(n)' /\ (Asked(n)' <=> Asked(n)) /\ (NiQueued(n)' <=> NiQueued(n))
    BY <1>1, <2>3 DEF Once, Asked, NiQueued, Holding
  <2>5. CASE n = m
    <3>1. thread'[n].at = "finishing" /\ \A s \in NiSessions : rawRequest'[s] # n
      BY <1>0, <2>1, <2>2, <2>3, <2>5 DEF NiTypeOK, Threads
    <3>2. ~ Asked(n)
      BY <2>1, <2>5 DEF Asked, NiQueued, Holding
    <3>4. CASE r = "ignore"
      <4>1. ended'[n] = 1 /\ taken'[n] = taken[n] /\ taken[n] = NoTake
        BY <1>0, <2>1, <2>3, <2>5, <3>4 DEF NiTypeOK, InHands
      <4> QED  BY <2>1, <2>3, <2>4, <2>5, <3>1, <3>2, <4>1
                  DEF InOnePlace, ThreadFollows, WaitsOn, InSession, InHands
    <3>5. CASE r # "ignore"
      <4>1. ended'[n] = 0 /\ taken'[n] = [req |-> n, resp |-> r]
        BY <1>0, <2>1, <2>3, <2>5, <3>5 DEF NiTypeOK
      <4>2. taken'[n] # NoTake /\ taken'[n].req = n
        BY <2>2, <2>5, <4>1 DEF NoTake
      <4> QED  BY <2>1, <2>3, <2>4, <2>5, <3>1, <3>2, <4>1, <4>2
                  DEF InOnePlace, ThreadFollows, WaitsOn, InSession, InHands
    <3> QED  BY <3>4, <3>5
  <2>6. CASE n # m
    <3>1. thread'[n] = thread[n]
      BY <1>0, <2>3, <2>6 DEF NiTypeOK
    <3>2. taken'[n] = taken[n] /\ ended'[n] = ended[n] /\ dropped' = dropped
      BY <1>0, <2>3, <2>6 DEF NiTypeOK
    <3>3. \A s \in NiSessions : rawRequest'[s] = n <=> rawRequest[s] = n
      <4>1. n # NoRequest
        BY DEF NiRequests, NoRequest
      <4> QED  BY <1>0, <2>1, <2>3, <2>6, <4>1 DEF NiTypeOK
    <3> QED  BY <1>1, <2>4, <3>1, <3>2, <3>3, Elsewhere
  <2> QED  BY <2>5, <2>6
<1>3. CASE ThreadEnds(m)
  <2>1. /\ rawRequest' = rawRequest /\ ended' = ended /\ dropped' = dropped
        /\ thread[m].at = "finishing"
        /\ thread' = [thread EXCEPT ![m].at = "done"] /\ taken' = [taken EXCEPT ![m] = NoTake]
    BY <1>3 DEF ThreadEnds
  <2>2. \A s \in NiSessions : rawRequest[s] # m
    BY <2>1 DEF DataInv, ThreadFollows, WaitsOn
  <2>3. CASE taken[m] = NoTake
    <3>1. niQueue' = niQueue /\ taken'[n] = taken[n]
      BY <1>0, <1>3, <2>1, <2>3 DEF ThreadEnds, NiTypeOK
    <3>2. Once(n)' /\ (Asked(n)' <=> Asked(n)) /\ (NiQueued(n)' <=> NiQueued(n))
      BY <1>1, <3>1 DEF Once, Asked, NiQueued, Holding
    <3>3. CASE n # m
      <4>1. thread'[n] = thread[n]
        BY <1>0, <2>1, <3>3 DEF NiTypeOK
      <4> QED  BY <1>1, <2>1, <3>1, <3>2, <4>1, Elsewhere
    <3>4. CASE n = m
      <4>1. thread'[n].at = "done" /\ thread[n].at = "finishing"
        BY <1>0, <2>1, <3>4 DEF NiTypeOK, Threads
      <4> QED  BY <1>1, <2>1, <2>2, <2>3, <3>1, <3>2, <3>4, <4>1
                  DEF InOnePlace, ThreadFollows, WaitsOn, InSession, InHands
    <3> QED  BY <3>3, <3>4
  <2>4. CASE taken[m] # NoTake
    <3>1. taken[m].req = m /\ ~ NiQueued(m) /\ ended[m] = 0 /\ m \notin dropped
      BY <2>4 DEF DataInv, ThreadFollows, InOnePlace, InHands
    <3>2. taken[m] \in Taken
      BY <1>0, <2>4 DEF NiTypeOK
    <3>3. PICK r \in Responses :
            /\ niQueue' = Append(niQueue, [k |-> "niResponse", req |-> m, resp |-> r])
            /\ [k |-> "niResponse", req |-> m, resp |-> r] \in NiMsgs
      BY <1>3, <2>4, <3>1, <3>2, NiMessageTypes DEF ThreadEnds, Taken
    <3>4. CASE n # m
      <4>1. Once(n)' /\ (NiQueued(n)' <=> NiQueued(n)) /\ (Asked(n)' <=> Asked(n))
        BY <1>0, <1>1, <3>3, <3>4, PostedQueue
      <4>2. thread'[n] = thread[n] /\ taken'[n] = taken[n]
        BY <1>0, <2>1, <3>4 DEF NiTypeOK
      <4> QED  BY <1>1, <2>1, <4>1, <4>2, Elsewhere
    <3>5. CASE n = m
      <4>1. Once(n)' /\ NiQueued(n)' /\ ~ Asked(n)'
        BY <1>0, <3>1, <3>3, <3>5, PostedQueue
      <4>2. thread'[n].at = "done" /\ taken'[n] = NoTake
        BY <1>0, <2>1, <3>5 DEF NiTypeOK, Threads
      <4> QED  BY <2>1, <2>2, <3>1, <3>5, <4>1, <4>2
                  DEF InOnePlace, ThreadFollows, WaitsOn, InSession, InHands
    <3> QED  BY <3>4, <3>5
  <2> QED  BY <2>3, <2>4
<1> QED  BY <1>2, <1>3 DEF NiThread, ThreadHasResponse, ThreadTimesOut

\* The inductive invariant.
LEMMA DataInvHolds == NiSpec => []DataInv
<1>1. NiInit => DataInv
  <2> SUFFICES ASSUME NiInit, NEW n \in NiRequests
               PROVE  InOnePlace(n) /\ ThreadFollows(n)
    BY DEF DataInv
  <2>1. /\ DOMAIN niQueue = {} /\ taken[n] = NoTake /\ ended[n] = 0 /\ dropped = {}
        /\ thread[n] = [at |-> "none", s |-> "session"]
        /\ \A s \in NiSessions : rawRequest[s] = NoRequest
    BY DEF NiInit
  <2>2. n # NoRequest
    BY DEF NiRequests, NoRequest
  <2>3. Holding(n) = {} /\ ~ Asked(n) /\ thread[n].at = "none"
    BY <2>1 DEF Holding, Asked
  <2> QED  BY <2>1, <2>2, <2>3
              DEF InOnePlace, ThreadFollows, WaitsOn, InSession, InHands, Once, NiQueued
<1>2. NiTypes /\ DataInv /\ [NiNext]_niVars => DataInv'
  <2> SUFFICES ASSUME NiTypes, DataInv, [NiNext]_niVars
               PROVE  DataInv'
    OBVIOUS
  <2>1. CASE \/ \E n \in NiRequests : ModemRequests(n) \/ UserAnswers(n)
             \/ ClientChanges
    BY <2>1, EnvironmentOwns, NiAssumption
  <2>2. CASE NiAdapter
    BY <2>2, AdapterOwns
  <2>3. CASE \E n \in NiRequests : NiThread(n)
    BY <2>3, ThreadOwns
  <2>4. CASE UNCHANGED niVars
    BY <2>4 DEF niVars, sessionVars, threadVars, historyVars, DataInv, InOnePlace, ThreadFollows,
                WaitsOn, InSession, InHands, Once, NiQueued, Asked, Holding
  <2> QED  BY <2>1, <2>2, <2>3, <2>4 DEF NiNext
<1> QED  BY <1>1, <1>2, NiTypeCorrect, PTL DEF NiSpec

\* Places counted: a set with no two members has one or none.
LEMMA AtMostOne ==
  ASSUME NEW S, \A x, y \in S : x = y
  PROVE  /\ S = {} => Cardinality(S) = 0
         /\ S # {} => Cardinality(S) = 1
<1>1. S = {} => Cardinality(S) = 0
  BY FS_EmptySet
<1>2. ASSUME NEW x \in S
      PROVE  Cardinality(S) = 1
  <2>1. S = {x}
    BY <1>2
  <2> QED  BY <2>1, FS_Singleton
<1> QED  BY <1>1, <1>2

\* The data of a request is in one place until it is given back or freed, once,
\* and the one thread that waits on a session was started for its request.
\* (requestNiNotifyEvent, niThreadProc and gnssNiResponseCommand hand it over
\* without a common lock.)  A request that requestNiNotify dropped for want of a
\* client with the NI callback is in no place: its data leaks.
THEOREM NiDataIsOwned == NiSpec => []NiDataOwned
<1>1. NiTypes /\ DataInv => NiDataOwned
  <2> SUFFICES ASSUME NiTypeOK, DataInv, NEW n \in NiRequests
               PROVE  /\ Copies(n) + ended[n] = IF Sent(n) /\ n \notin dropped THEN 1 ELSE 0
                      /\ \A s \in NiSessions :
                           thread[n] = [at |-> "waiting", s |-> s] <=> rawRequest[s] = n
    BY DEF NiTypes, NiDataOwned
  <2>1. InOnePlace(n) /\ ThreadFollows(n)
    BY DEF DataInv
  <2> DEFINE sessions == {s \in NiSessions : rawRequest[s] = n}
             hands    == {m \in NiRequests : taken[m].req = n}
  <2>2. \A s, t \in sessions : s = t
    BY <2>1 DEF ThreadFollows, WaitsOn
  <2>3. \A m \in hands : m = n /\ InHands(n)
    <3> SUFFICES ASSUME NEW m \in NiRequests, taken[m].req = n
                 PROVE  m = n /\ InHands(n)
      OBVIOUS
    <3>1. taken[m] # NoTake
      BY DEF NoTake, NoRequest, NiRequests
    <3> QED  BY <3>1 DEF DataInv, ThreadFollows, InHands
  <2>4. InHands(n) => n \in hands
    BY <2>1 DEF ThreadFollows
  <2>5. /\ Cardinality(Holding(n)) = IF NiQueued(n) THEN 1 ELSE 0
        /\ Cardinality(sessions) = IF InSession(n) THEN 1 ELSE 0
        /\ Cardinality(hands) = IF InHands(n) THEN 1 ELSE 0
    <3>1. /\ sessions = {} <=> ~ InSession(n)
          /\ hands = {} <=> ~ InHands(n)
      BY <2>3, <2>4 DEF InSession
    <3>2. Cardinality(Holding(n)) = IF NiQueued(n) THEN 1 ELSE 0
      BY <2>1, AtMostOne DEF NiQueued, InOnePlace, Once
    <3>3. Cardinality(sessions) = IF InSession(n) THEN 1 ELSE 0
      BY <2>2, <3>1, AtMostOne
    <3>4. Cardinality(hands) = IF InHands(n) THEN 1 ELSE 0
      BY <2>3, <3>1, AtMostOne
    <3> QED  BY <3>2, <3>3, <3>4
  <2> HIDE DEF sessions, hands
  <2>6. Sent(n) /\ n \notin dropped <=> NiQueued(n) \/ InSession(n) \/ InHands(n) \/ ended[n] = 1
    <3>1. InSession(n) \/ InHands(n) => thread[n].at # "none"
      BY <2>1 DEF ThreadFollows, WaitsOn, InSession
    <3>2. ended[n] > 0 <=> ended[n] = 1
      BY <2>1 DEF InOnePlace
    <3>3. NiQueued(n) <=> Holding(n) # {}
      BY DEF NiQueued
    <3>4. Sent(n) <=> thread[n].at # "none" \/ ended[n] = 1 \/ NiQueued(n) \/ n \in dropped
      BY <3>2, <3>3 DEF Sent
    <3>5. CASE n \in dropped
      BY <2>1, <3>5 DEF InOnePlace
    <3>6. CASE n \notin dropped
      BY <2>1, <3>1, <3>4, <3>6 DEF InOnePlace
    <3> QED  BY <3>5, <3>6
  <2>7. Copies(n) = Cardinality(Holding(n)) + Cardinality(sessions) + Cardinality(hands)
    BY DEF Copies, sessions, hands
  <2>8. Copies(n) + ended[n] = IF Sent(n) /\ n \notin dropped THEN 1 ELSE 0
    BY <2>1, <2>5, <2>6, <2>7 DEF InOnePlace
  <2>9. \A s \in NiSessions : thread[n] = [at |-> "waiting", s |-> s] <=> WaitsOn(n, s)
    <3>1. thread[n] \in Threads
      BY DEF NiTypeOK
    <3> QED  BY <3>1 DEF Threads, WaitsOn
  <2> QED  BY <2>1, <2>8, <2>9 DEF ThreadFollows
<1> QED  BY <1>1, NiTypeCorrect, DataInvHolds, PTL

-----------------------------------------------------------------------------
(* The answer to a request *)

\* A response passes on what the user said of request n, if it answers it.
Says(n, r) == r \in Answers => said[n] = r

\* No two prompts have the same id, a request is shown when its thread starts,
\* and the id of an open session is that of its request, unless a thread that
\* ended late has cleared it.
PromptsOwn ==
  /\ \A n \in NiRequests : prompt[n] <= reqIDCounter /\ (prompt[n] # 0 => thread[n].at # "none")
  /\ \A m, n \in NiRequests : prompt[m] # 0 /\ prompt[m] = prompt[n] => m = n
  /\ \A s \in NiSessions : rawRequest[s] # NoRequest => reqID[s] \in {0, prompt[rawRequest[s]]}

\* A message carries what the user said, of the prompt or of the request.
MessageTrue(m) ==
  /\ m.k = "userResponse" =>
       \E n \in NiRequests : prompt[n] # 0 /\ prompt[n] = m.id /\ said[n] = m.resp
  /\ m.k = "niResponse" /\ ~ late => Says(m.req, m.resp)
QueueTrue == \A i \in DOMAIN niQueue : MessageTrue(niQueue[i])

\* So do a response about to be set, one that is set, and one in a thread's
\* hands.  The flag of a closed session is down.
SettingsTrue == \A i \in DOMAIN setting : Says(setting[i].req, setting[i].resp)
FlagsTrue ==
  ~ late => \A s \in NiSessions :
              respRecvd[s] => rawRequest[s] # NoRequest /\ Says(rawRequest[s], resp[s])
HandsTrue == ~ late => \A n \in NiRequests : InHands(n) => Says(n, taken[n].resp)

\* What the modem was told ends a request, and is what the user said of it.
EndsTrue == \A n \in NiRequests : /\ told[n] # Unset => ended[n] # 0
                                  /\ ~ late /\ prompt[n] # 0 => Says(n, told[n])

AnswerInv == PromptsOwn /\ QueueTrue /\ SettingsTrue /\ FlagsTrue /\ HandsTrue /\ EndsTrue

\* What was asked and answered stays so, and a late response stays noticed.
HistoryStays ==
  /\ \A n \in NiRequests : /\ prompt[n] # 0 => prompt'[n] = prompt[n]
                           /\ said[n] # Unset => said'[n] = said[n]
  /\ late => late'

LEMMA HistoryKept ==
  ASSUME NiTypes, DataInv, PromptsOwn, [NiNext]_niVars
  PROVE  HistoryStays
<1> USE DEF sessionVars, threadVars, historyVars
<1>0. NiTypeOK
  BY DEF NiTypes
<1>1. ASSUME NEW m \in NiRequests, UserAnswers(m)
      PROVE  HistoryStays
  <2>1. PICK answer : said' = [said EXCEPT ![m] = answer]
    BY <1>1 DEF UserAnswers
  <2>2. \A n \in NiRequests : said[n] # Unset => said'[n] = said[n]
    BY <1>0, <1>1, <2>1 DEF UserAnswers, NiTypeOK
  <2> QED  BY <1>1, <2>2 DEF UserAnswers, HistoryStays
<1>2. CASE NotifyOpens
  <2> DEFINE m == Head(niQueue).req
  <2>1. m \in NiRequests /\ Asked(m)
    <3>1. m \in NiRequests /\ HandlesNi("notify")
      BY <1>0, <1>2, NiQueueTail, NiMessageParts DEF NotifyOpens
    <3>2. Once(m)
      BY <3>1 DEF DataInv, InOnePlace
    <3> QED  BY <1>0, <3>1, <3>2, TakenQueue
  <2>2. prompt' = [prompt EXCEPT ![m] = reqIDCounter'] /\ said' = said /\ late' = late
    BY <1>2 DEF NotifyOpens
  <2> HIDE DEF m
  <2>3. prompt[m] = 0
    BY <2>1 DEF DataInv, ThreadFollows, PromptsOwn
  <2> QED  BY <1>0, <2>1, <2>2, <2>3 DEF HistoryStays, NiTypeOK
<1>3. CASE UNCHANGED <<prompt, said>> /\ (late => late')
  BY <1>3 DEF HistoryStays
<1>4. ASSUME NEW m \in NiRequests, ModemRequests(m) \/ NiThread(m)
      PROVE  HistoryStays
  BY <1>3, <1>4 DEF ModemRequests, NiThread, ThreadHasResponse, ThreadTimesOut, ThreadTakes,
                    ThreadEnds, Frees
<1>5. CASE ClientChanges \/ UNCHANGED niVars
  BY <1>3, <1>5 DEF ClientChanges, niVars
<1>6. CASE NotifyDecided \/ NotifyNoClient \/ NotifyBusy \/ UserResponse \/ SetsResponse
           \/ NiResponse
  BY <1>3, <1>6 DEF NotifyDecided, NotifyNoClient, NotifyBusy, UserResponse, SetsResponse,
                    NiResponse
<1> QED  BY <1>1, <1>2, <1>4, <1>5, <1>6 DEF NiNext, NiAdapter

\* So what passes on the user's response goes on to do so.
LEMMA SaysKept ==
  ASSUME NiTypeOK, HistoryStays, NEW n \in NiRequests, NEW r, Says(n, r)
  PROVE  r \in Answers => said'[n] = r
BY DEF HistoryStays, Says, Answers, Unset

\* The prompts.
LEMMA PromptsKept ==
  ASSUME NiTypes, DataInv, PromptsOwn, [NiNext]_niVars
  PROVE  PromptsOwn'
<1> USE DEF sessionVars, threadVars, historyVars
<1>0. NiTypeOK
  BY DEF NiTypes
<1>1. CASE NotifyOpens
  <2> DEFINE m == Head(niQueue).req
             t == SessionFor(Head(niQueue).note)
  <2>1. m \in NiRequests /\ t \in NiSessions
    BY <1>0, <1>1, NiQueueTail, NiMessageParts DEF NotifyOpens, SessionFor, NiSessions
  <2>2. /\ rawRequest' = [rawRequest EXCEPT ![t] = m]
        /\ reqIDCounter' = reqIDCounter + 1
        /\ reqID' = [reqID EXCEPT ![t] = reqIDCounter']
        /\ thread' = [thread EXCEPT ![m] = [at |-> "waiting", s |-> t]]
        /\ prompt' = [prompt EXCEPT ![m] = reqIDCounter']
    BY <1>1 DEF NotifyOpens
  <2>3. HistoryStays
    BY HistoryKept
  <2> HIDE DEF m, t
  <2>4. reqIDCounter \in Nat /\ prompt'[m] = reqIDCounter + 1 /\ prompt'[m] # 0
    BY <1>0, <2>1, <2>2 DEF NiTypeOK
  <2>5. \A n \in NiRequests : n # m => prompt'[n] = prompt[n] /\ thread'[n] = thread[n]
    BY <1>0, <2>2 DEF NiTypeOK
  <2>6. \A n \in NiRequests : prompt[n] \in Nat /\ prompt[n] <= reqIDCounter
    BY <1>0 DEF NiTypeOK, PromptsOwn
  <2>7. \A n \in NiRequests : prompt'[n] <= reqIDCounter'
    BY <2>2, <2>4, <2>5, <2>6
  <2>8. \A n \in NiRequests : prompt'[n] # 0 => thread'[n].at # "none"
    <3>1. thread'[m].at = "waiting"
      BY <1>0, <2>1, <2>2 DEF NiTypeOK
    <3> QED  BY <2>5, <3>1 DEF PromptsOwn
  <2>9. \A i, j \in NiRequests : prompt'[i] # 0 /\ prompt'[i] = prompt'[j] => i = j
    <3>1. \A n \in NiRequests : n # m => prompt'[n] # prompt'[m]
      BY <2>4, <2>5, <2>6
    <3> QED  BY <2>5, <3>1 DEF PromptsOwn
  <2>10. \A s \in NiSessions :
           rawRequest'[s] # NoRequest => reqID'[s] \in {0, prompt'[rawRequest'[s]]}
    <3> SUFFICES ASSUME NEW s \in NiSessions, rawRequest'[s] # NoRequest
                 PROVE  reqID'[s] \in {0, prompt'[rawRequest'[s]]}
      OBVIOUS
    <3>1. CASE s = t
      BY <1>0, <2>1, <2>2, <2>4, <3>1 DEF NiTypeOK
    <3>2. CASE s # t
      <4>1. rawRequest'[s] = rawRequest[s] /\ reqID'[s] = reqID[s] /\ rawRequest[s] \in NiRequests
        BY <1>0, <2>1, <2>2, <3>2 DEF NiTypeOK
      <4>2. reqID[s] \in {0, prompt[rawRequest[s]]}
        BY <4>1 DEF PromptsOwn
      <4>3. reqID[s] # 0 => prompt'[rawRequest[s]] = prompt[rawRequest[s]]
        BY <2>3, <4>1, <4>2 DEF HistoryStays
      <4> QED  BY <4>1, <4>2, <4>3
    <3> QED  BY <3>1, <3>2
  <2> QED  BY <2>7, <2>8, <2>9, <2>10 DEF PromptsOwn
<1>2. ASSUME NEW m \in NiRequests, NiThread(m)
      PROVE  PromptsOwn'
  <2> DEFINE t == thread[m].s
  <2>1. t \in NiSessions
    BY <1>0 DEF NiTypeOK, Threads
  <2>2. UNCHANGED <<prompt, reqIDCounter>>
    BY <1>2 DEF NiThread, ThreadHasResponse, ThreadTimesOut, ThreadTakes, ThreadEnds
  <2>3. \E at \in {"finishing", "done"} : thread' = [thread EXCEPT ![m].at = at]
    BY <1>2 DEF NiThread, ThreadHasResponse, ThreadTimesOut, ThreadTakes, ThreadEnds
  <2>4. \/ rawRequest' = [rawRequest EXCEPT ![t] = NoRequest] /\ reqID' = reqID
        \/ rawRequest' = rawRequest /\ reqID' = [reqID EXCEPT ![t] = 0]
    BY <1>2 DEF NiThread, ThreadHasResponse, ThreadTimesOut, ThreadTakes, ThreadEnds
  <2> HIDE DEF t
  <2>5. \A n \in NiRequests : thread'[n].at = "none" => thread[n].at = "none"
    BY <1>0, <2>3 DEF NiTypeOK, Threads
  <2>6. \A s \in NiSessions :
          rawRequest'[s] # NoRequest => reqID'[s] \in {0, prompt[rawRequest'[s]]}
    BY <1>0, <2>1, <2>4 DEF NiTypeOK, PromptsOwn
  <2> QED  BY <2>2, <2>5, <2>6 DEF PromptsOwn
<1>3. CASE UNCHANGED <<rawRequest, reqID, reqIDCounter, thread, prompt>>
  BY <1>3 DEF PromptsOwn
<1>4. ASSUME NEW m \in NiRequests, ModemRequests(m) \/ UserAnswers(m)
      PROVE  PromptsOwn'
  BY <1>3, <1>4 DEF ModemRequests, UserAnswers
<1>5. CASE ClientChanges \/ UNCHANGED niVars
  BY <1>3, <1>5 DEF ClientChanges, niVars
<1>6. CASE NotifyDecided \/ NotifyNoClient \/ NotifyBusy \/ UserResponse \/ SetsResponse
           \/ NiResponse
  BY <1>3, <1>6 DEF NotifyDecided, NotifyNoClient, NotifyBusy, UserResponse, SetsResponse,
                    NiResponse
<1> QED  BY <1>1, <1>2, <1>4, <1>5, <1>6 DEF NiNext, NiAdapter

\* The messages: those that stay are as true as they were.
LEMMA MessagesStay ==
  ASSUME NiTypeOK, QueueTrue, HistoryStays, NEW j, NEW i \in DOMAIN niQueue,
         niQueue'[j] = niQueue[i]
  PROVE  MessageTrue(niQueue[j])'
<1> DEFINE m == niQueue[i]
<1>1. m \in NiMsgs /\ MessageTrue(m)
  BY DEF NiTypeOK, QueueTrue
<1> HIDE DEF m
<1>2. m.k = "userResponse" =>
        \E n \in NiRequests : prompt'[n] # 0 /\ prompt'[n] = m.id /\ said'[n] = m.resp
  <2> SUFFICES ASSUME m.k = "userResponse"
               PROVE  \E n \in NiRequests : prompt'[n] # 0 /\ prompt'[n] = m.id /\ said'[n] = m.resp
    OBVIOUS
  <2>1. PICK n \in NiRequests : prompt[n] # 0 /\ prompt[n] = m.id /\ said[n] = m.resp
    BY <1>1 DEF MessageTrue
  <2>2. m.resp # Unset
    BY <1>1, NiMessageParts DEF Answers, Unset
  <2>3. prompt'[n] = prompt[n] /\ said'[n] = said[n]
    BY <2>1, <2>2 DEF HistoryStays
  <2> QED  BY <2>1, <2>3
<1>3. m.k = "niResponse" /\ ~ late' => (m.resp \in Answers => said'[m.req] = m.resp)
  <2> SUFFICES ASSUME m.k = "niResponse", ~ late'
               PROVE  m.resp \in Answers => said'[m.req] = m.resp
    OBVIOUS
  <2>1. m.req \in NiRequests
    BY <1>1, NiMessageParts
  <2>2. Says(m.req, m.resp)
    BY <1>1 DEF MessageTrue, HistoryStays
  <2> QED  BY <2>1, <2>2 DEF HistoryStays, Says, Answers, Unset
<1> QED  BY <1>2, <1>3 DEF MessageTrue, Says, m

\* The user and the threads post what was said ...
LEMMA QueueKept ==
  ASSUME NiAssumption, NiTypes, DataInv, QueueTrue, HandsTrue, HistoryStays, [NiNext]_niVars
  PROVE  QueueTrue'
<1> USE DEF sessionVars, threadVars, historyVars
<1>0. NiTypeOK
  BY DEF NiTypes
<1>1. ASSUME NEW m \in NiMsgs, niQueue' = Append(niQueue, m),
             /\ m.k = "userResponse" =>
                  \E n \in NiRequests : prompt'[n] # 0 /\ prompt'[n] = m.id /\ said'[n] = m.resp
             /\ m.k = "niResponse" /\ ~ late' => (m.resp \in Answers => said'[m.req] = m.resp)
      PROVE  QueueTrue'
  <2> SUFFICES ASSUME NEW j \in DOMAIN niQueue'
               PROVE  MessageTrue(niQueue[j])'
    BY DEF QueueTrue
  <2>1. /\ Len(niQueue) \in Nat /\ DOMAIN niQueue = 1 .. Len(niQueue)
        /\ DOMAIN niQueue' = 1 .. (Len(niQueue) + 1)
        /\ \A i \in DOMAIN niQueue : niQueue'[i] = niQueue[i]
        /\ niQueue'[Len(niQueue) + 1] = m
    BY <1>0, <1>1, NiQueueAppend
  <2>2. CASE j \in DOMAIN niQueue
    BY <1>0, <2>1, <2>2, MessagesStay
  <2>3. CASE j \notin DOMAIN niQueue
    <3>1. niQueue'[j] = m
      BY <2>1, <2>3
    <3> QED  BY <1>1, <3>1 DEF MessageTrue, Says
  <2> QED  BY <2>2, <2>3
<1>2. ASSUME NEW k, HandlesNi(k)
      PROVE  QueueTrue'
  <2> SUFFICES ASSUME NEW j \in DOMAIN niQueue'
               PROVE  MessageTrue(niQueue[j])'
    BY DEF QueueTrue
  <2>1. niQueue'[j] = niQueue[j + 1] /\ j + 1 \in DOMAIN niQueue
    BY <1>0, <1>2, NiQueueTail
  <2> QED  BY <1>0, <2>1, MessagesStay
<1>3. CASE niQueue' = niQueue
  BY <1>0, <1>3, MessagesStay DEF QueueTrue
<1>4. ASSUME NEW m \in NiRequests, ModemRequests(m)
      PROVE  QueueTrue'
  BY <1>1, <1>4, NiMessageTypes DEF ModemRequests, NiAssumption
<1>5. ASSUME NEW m \in NiRequests, UserAnswers(m)
      PROVE  QueueTrue'
  <2>1. PICK answer \in Answers :
          /\ said' = [said EXCEPT ![m] = answer]
          /\ niQueue' = Append(niQueue, [k |-> "userResponse", id |-> prompt[m], resp |-> answer])
    BY <1>5 DEF UserAnswers
  <2>2. said'[m] = answer /\ prompt'[m] = prompt[m] /\ prompt[m] # 0 /\ prompt[m] \in Nat
    BY <1>0, <1>5, <2>1 DEF UserAnswers, NiTypeOK
  <2>3. [k |-> "userResponse", id |-> prompt[m], resp |-> answer] \in NiMsgs
    BY <2>2, NiMessageTypes
  <2> QED  BY <1>1, <2>1, <2>2, <2>3
<1>6. ASSUME NEW m \in NiRequests, ThreadTakes(m, resp[thread[m].s]) \/ ThreadTakes(m, "noResponse")
      PROVE  QueueTrue'
  BY <1>3, <1>6 DEF ThreadTakes
<1>7. ASSUME NEW m \in NiRequests, ThreadEnds(m), taken[m] # NoTake
      PROVE  QueueTrue'
  <2> DEFINE r == taken[m].resp
  <2>1. taken[m].req = m /\ taken[m] \in Taken
    BY <1>0, <1>7 DEF DataInv, ThreadFollows, InHands, NiTypeOK
  <2>2. r \in Responses /\ niQueue' = Append(niQueue, [k |-> "niResponse", req |-> m, resp |-> r])
    BY <1>7, <2>1 DEF ThreadEnds, Taken
  <2>3. ~ late' => Says(m, r)
    BY <1>7 DEF HandsTrue, InHands, HistoryStays
  <2> HIDE DEF r
  <2>4. [k |-> "niResponse", req |-> m, resp |-> r] \in NiMsgs
    BY <2>2, NiMessageTypes
  <2>5. ~ late' => (r \in Answers => said'[m] = r)
    BY <1>0, <2>3, SaysKept
  <2> QED  BY <1>1, <2>2, <2>4, <2>5
<1>8. ASSUME NEW m \in NiRequests, ThreadEnds(m), taken[m] = NoTake
      PROVE  QueueTrue'
  BY <1>3, <1>8 DEF ThreadEnds
<1>9. CASE ClientChanges \/ SetsResponse \/ UNCHANGED niVars
  BY <1>3, <1>9 DEF ClientChanges, SetsResponse, niVars
<1>10. CASE NotifyDecided \/ NotifyNoClient \/ NotifyBusy \/ NotifyOpens \/ UserResponse
            \/ NiResponse
  BY <1>2, <1>10 DEF NotifyDecided, NotifyNoClient, NotifyBusy, NotifyOpens, UserResponse,
                     NiResponse
<1> QED  BY <1>4, <1>5, <1>6, <1>7, <1>8, <1>9, <1>10
            DEF NiNext, NiAdapter, NiThread, ThreadHasResponse, ThreadTimesOut

\* What a second response joins.
LEMMA SecondAppended ==
  ASSUME NEW a, NEW b, NEW i \in DOMAIN Append(<<a>>, b)
  PROVE  Append(<<a>>, b)[i] \in {a, b}
<1>1. <<a>> \in Seq({a, b}) /\ b \in {a, b}
  OBVIOUS
<1>2. Append(<<a>>, b) \in Seq({a, b})
  BY <1>1, AppendProperties
<1> QED  BY <1>2

\* ... the adapter finds the session by the id of the user's prompt ...
LEMMA SettingsKept ==
  ASSUME NiTypes, PromptsOwn, QueueTrue, SettingsTrue, HistoryStays, [NiNext]_niVars
  PROVE  SettingsTrue'
<1> USE DEF sessionVars, threadVars, historyVars
<1>0. NiTypeOK
  BY DEF NiTypes
<1>1. ASSUME NEW i \in DOMAIN setting
      PROVE  setting[i].resp \in Answers => said'[setting[i].req] = setting[i].resp
  <2>1. setting[i] \in Settings /\ Says(setting[i].req, setting[i].resp)
    BY <1>0 DEF NiTypeOK, SettingsTrue
  <2>2. setting[i].req \in NiRequests
    BY <2>1 DEF Settings
  <2> QED  BY <1>0, <2>1, <2>2, SaysKept
<1>2. CASE setting' = setting
  BY <1>1, <1>2 DEF SettingsTrue, Says
<1>3. CASE SetsResponse
  <2>1. setting \in Seq(Settings) /\ setting # << >> /\ setting' = Tail(setting)
    BY <1>0, <1>3 DEF SetsResponse, NiTypeOK
  <2>2. \A i \in DOMAIN setting' : setting'[i] = setting[i + 1] /\ i + 1 \in DOMAIN setting
    BY <2>1, HeadTailProperties, EmptySeq, LenProperties
  <2> QED  BY <1>1, <2>2 DEF SettingsTrue, Says
<1>4. CASE NotifyNoClient
  <2>1. \A i \in DOMAIN setting' : setting'[i].resp = "ignore"
    BY <1>4 DEF NotifyNoClient, Setting
  <2> QED  BY <2>1 DEF SettingsTrue, Says, Answers
<1>5. CASE UserResponse
  <2> DEFINE id == Head(niQueue).id
             answer == Head(niQueue).resp
  <2>1. Head(niQueue) \in NiMsgs /\ Head(niQueue).k = "userResponse" /\ Head(niQueue) = niQueue[1]
        /\ 1 \in DOMAIN niQueue
    BY <1>0, <1>5, NiQueueTail DEF UserResponse
  <2>2. PICK n \in NiRequests : prompt[n] # 0 /\ prompt[n] = id /\ said[n] = answer
    BY <2>1 DEF QueueTrue, MessageTrue
  <2>3. said' = said
    BY <1>5 DEF UserResponse
  <2>4. \A s \in NiSessions : Answerable(s, id) => said[rawRequest[s]] = answer
    <3> SUFFICES ASSUME NEW s \in NiSessions, Answerable(s, id)
                 PROVE  said[rawRequest[s]] = answer
      OBVIOUS
    <3>1. rawRequest[s] \in NiRequests /\ prompt[rawRequest[s]] = id
      BY <1>0, <2>2 DEF Answerable, PromptsOwn, NiTypeOK
    <3> QED  BY <2>2, <3>1 DEF PromptsOwn
  <2>5. \A i \in DOMAIN setting' :
          \/ setting'[i].resp = "ignore"
          \/ \E s \in NiSessions : Answerable(s, id) /\ setting'[i] = Setting(s, answer)
    <3> DEFINE ignored == IF answer = "accept" /\ rawRequest["session"] # NoRequest
                          THEN <<Setting("session", "ignore")>> ELSE <<>>
    <3>1. "session" \in NiSessions /\ "sessionEs" \in NiSessions
      BY DEF NiSessions
    <3>2. \/ setting' = << >>
          \/ Answerable("sessionEs", id) /\ setting' = Append(ignored, Setting("sessionEs", answer))
          \/ Answerable("session", id) /\ setting' = <<Setting("session", answer)>>
      BY <1>5 DEF UserResponse
    <3>3. \/ ignored = << >>
          \/ ignored = <<Setting("session", "ignore")>>
      OBVIOUS
    <3> HIDE DEF ignored, id, answer
    <3>4. CASE setting' = << >>
      BY <3>4
    <3>5. CASE Answerable("session", id) /\ setting' = <<Setting("session", answer)>>
      BY <3>1, <3>5
    <3>6. CASE /\ Answerable("sessionEs", id)
               /\ setting' = Append(ignored, Setting("sessionEs", answer))
      <4>1. CASE ignored = << >>
        BY <3>1, <3>6, <4>1
      <4>2. CASE ignored = <<Setting("session", "ignore")>>
        <5>1. \A i \in DOMAIN setting' :
                setting'[i] \in {Setting("session", "ignore"), Setting("sessionEs", answer)}
          BY <3>6, <4>2, SecondAppended
        <5>2. Setting("session", "ignore").resp = "ignore"
          BY DEF Setting
        <5> QED  BY <3>1, <3>6, <5>1, <5>2
      <4> QED  BY <3>3, <4>1, <4>2
    <3> QED  BY <3>2, <3>4, <3>5, <3>6
  <2> HIDE DEF id, answer
  <2>6. ASSUME NEW i \in DOMAIN setting', setting'[i].resp \in Answers
        PROVE  said'[setting'[i].req] = setting'[i].resp
    <3>1. PICK s \in NiSessions : Answerable(s, id) /\ setting'[i] = Setting(s, answer)
      BY <2>5, <2>6 DEF Answers
    <3> QED  BY <2>3, <2>4, <3>1 DEF Setting
  <2> QED  BY <2>6 DEF SettingsTrue, Says
<1>6. ASSUME NEW m \in NiRequests, ModemRequests(m) \/ UserAnswers(m) \/ NiThread(m)
      PROVE  SettingsTrue'
  BY <1>2, <1>6 DEF ModemRequests, UserAnswers, NiThread, ThreadHasResponse, ThreadTimesOut,
                    ThreadTakes, ThreadEnds
<1>7. CASE ClientChanges \/ UNCHANGED niVars
  BY <1>2, <1>7 DEF ClientChanges, niVars
<1>8. CASE NotifyDecided \/ NotifyBusy \/ NotifyOpens \/ NiResponse
  BY <1>2, <1>8 DEF NotifyDecided, NotifyBusy, NotifyOpens, NiResponse
<1> QED  BY <1>3, <1>4, <1>5, <1>6, <1>7, <1>8 DEF NiNext, NiAdapter

\* ... sets it in the open session, if it is in time ...
LEMMA FlagsKept ==
  ASSUME NiTypes, DataInv, SettingsTrue, FlagsTrue, HistoryStays, [NiNext]_niVars
  PROVE  FlagsTrue'
<1> USE DEF sessionVars, threadVars, historyVars
<1>0. NiTypeOK
  BY DEF NiTypes
<1> SUFFICES ASSUME ~ late', NEW s \in NiSessions, respRecvd'[s]
             PROVE  rawRequest'[s] # NoRequest
                    /\ (resp'[s] \in Answers => said'[rawRequest'[s]] = resp'[s])
  BY DEF FlagsTrue, Says
<1>a. ~ late
  BY DEF HistoryStays
<1>1. CASE rawRequest'[s] = rawRequest[s] /\ resp'[s] = resp[s] /\ respRecvd[s]
  <2>1. rawRequest[s] # NoRequest /\ Says(rawRequest[s], resp[s])
    BY <1>a, <1>1 DEF FlagsTrue
  <2>2. rawRequest[s] \in NiRequests
    BY <1>0, <2>1 DEF NiTypeOK
  <2>3. resp[s] \in Answers => said'[rawRequest[s]] = resp[s]
    BY <1>0, <2>1, <2>2, SaysKept
  <2> QED  BY <1>1, <2>1, <2>3
<1>2. CASE SetsResponse
  <2> DEFINE set == Head(setting)
  <2>1. set \in Settings /\ set = setting[1] /\ 1 \in DOMAIN setting
    <3>1. setting \in Seq(Settings) /\ setting # << >>
      BY <1>0, <1>2 DEF SetsResponse, NiTypeOK
    <3> QED  BY <3>1, HeadTailProperties, EmptySeq, LenProperties
  <2>2. Says(set.req, set.resp)
    BY <2>1 DEF SettingsTrue
  <2>3. /\ resp' = [resp EXCEPT ![set.s] = set.resp]
        /\ respRecvd' = [respRecvd EXCEPT ![set.s] = TRUE]
        /\ rawRequest' = rawRequest /\ said' = said /\ rawRequest[set.s] = set.req
    BY <1>2 DEF SetsResponse
  <2>4. set.s \in NiSessions /\ set.req \in NiRequests /\ set.req # NoRequest
    BY <2>1 DEF Settings, NiRequests, NoRequest
  <2> HIDE DEF set
  <2>5. CASE s = set.s
    BY <1>0, <2>2, <2>3, <2>4, <2>5 DEF Says, NiTypeOK
  <2>6. CASE s # set.s
    BY <1>0, <1>1, <2>3, <2>4, <2>6 DEF NiTypeOK
  <2> QED  BY <2>5, <2>6
<1>3. CASE NotifyOpens
  <2> DEFINE t == SessionFor(Head(niQueue).note)
  <2>1. /\ t \in NiSessions /\ rawRequest[t] = NoRequest
        /\ rawRequest' = [rawRequest EXCEPT ![t] = Head(niQueue).req]
        /\ resp' = resp /\ respRecvd' = respRecvd
    BY <1>3 DEF NotifyOpens, Busy, SessionFor, NiSessions
  <2> HIDE DEF t
  <2>2. s # t
    BY <1>a, <2>1 DEF FlagsTrue
  <2> QED  BY <1>0, <1>1, <2>1, <2>2 DEF NiTypeOK
<1>4. ASSUME NEW m \in NiRequests, NEW r, ThreadTakes(m, r)
      PROVE  rawRequest'[s] # NoRequest
             /\ (resp'[s] \in Answers => said'[rawRequest'[s]] = resp'[s])
  <2> DEFINE t == thread[m].s
  <2>1. /\ resp' = [resp EXCEPT ![t] = r] /\ respRecvd' = [respRecvd EXCEPT ![t] = FALSE]
        /\ rawRequest' = [rawRequest EXCEPT ![t] = NoRequest]
    BY <1>4 DEF ThreadTakes
  <2> HIDE DEF t
  <2>2. s # t
    BY <1>0, <2>1 DEF NiTypeOK
  <2> QED  BY <1>0, <1>1, <2>1, <2>2 DEF NiTypeOK
<1>5. CASE UNCHANGED <<rawRequest, resp, respRecvd>>
  BY <1>1, <1>5
<1>6. ASSUME NEW m \in NiRequests, ModemRequests(m) \/ UserAnswers(m) \/ ThreadEnds(m)
      PROVE  UNCHANGED <<rawRequest, resp, respRecvd>>
  BY <1>6 DEF ModemRequests, UserAnswers, ThreadEnds
<1>7. ClientChanges \/ UNCHANGED niVars => UNCHANGED <<rawRequest, resp, respRecvd>>
  BY DEF ClientChanges, niVars
<1>8. NotifyDecided \/ NotifyNoClient \/ NotifyBusy \/ UserResponse \/ NiResponse
        => UNCHANGED <<rawRequest, resp, respRecvd>>
  BY DEF NotifyDecided, NotifyNoClient, NotifyBusy, UserResponse, NiResponse
<1> QED  BY <1>2, <1>3, <1>4, <1>5, <1>6, <1>7, <1>8
            DEF NiNext, NiAdapter, NiThread, ThreadHasResponse, ThreadTimesOut

\* ... the thread takes it with its request ...
LEMMA HandsKept ==
  ASSUME NiTypes, DataInv, FlagsTrue, HandsTrue, HistoryStays, [NiNext]_niVars
  PROVE  HandsTrue'
<1> USE DEF sessionVars, threadVars, historyVars
<1>0. NiTypeOK
  BY DEF NiTypes
<1> SUFFICES ASSUME ~ late', NEW n \in NiRequests, taken'[n] # NoTake
             PROVE  taken'[n].resp \in Answers => said'[n] = taken'[n].resp
  BY DEF HandsTrue, InHands, Says
<1>a. ~ late
  BY DEF HistoryStays
<1>1. CASE taken'[n] = taken[n]
  <2>1. Says(n, taken[n].resp)
    BY <1>a, <1>1 DEF HandsTrue, InHands
  <2>2. taken[n].resp \in Answers => said'[n] = taken[n].resp
    BY <1>0, <2>1, SaysKept
  <2> QED  BY <1>1, <2>2
<1>2. ASSUME NEW m \in NiRequests, NEW r, ThreadTakes(m, r),
             r = "noResponse" \/ (respRecvd[thread[m].s] /\ r = resp[thread[m].s])
      PROVE  taken'[n].resp \in Answers => said'[n] = taken'[n].resp
  <2> DEFINE t == thread[m].s
  <2>1. t \in NiSessions /\ rawRequest[t] = m /\ taken[m] = NoTake
    BY <1>0, <1>2, ThreadTakesOwn DEF ThreadTakes, InHands
  <2>2. said' = said
    BY <1>2 DEF ThreadTakes
  <2>3. taken' = taken \/ taken' = [taken EXCEPT ![m] = [req |-> m, resp |-> r]]
    BY <1>2, <2>1 DEF ThreadTakes
  <2>4. r \in Answers => said[m] = r
    <3>1. CASE r = "noResponse"
      BY <3>1 DEF Answers
    <3>2. CASE respRecvd[t] /\ r = resp[t]
      BY <1>a, <2>1, <3>2 DEF FlagsTrue, Says
    <3> QED  BY <1>2, <3>1, <3>2
  <2>5. CASE n = m /\ taken' = [taken EXCEPT ![m] = [req |-> m, resp |-> r]]
    <3>1. taken'[n] = [req |-> m, resp |-> r]
      BY <1>0, <2>5 DEF NiTypeOK
    <3> QED  BY <2>2, <2>4, <2>5, <3>1
  <2>6. CASE n # m \/ taken' = taken
    BY <1>0, <1>1, <2>3, <2>6 DEF NiTypeOK
  <2> QED  BY <2>3, <2>5, <2>6
<1>3. ASSUME NEW m \in NiRequests, ThreadEnds(m)
      PROVE  taken'[n] = taken[n]
  BY <1>0, <1>3 DEF ThreadEnds, NiTypeOK
<1>4. ASSUME NEW m \in NiRequests, ModemRequests(m) \/ UserAnswers(m)
      PROVE  taken' = taken
  BY <1>4 DEF ModemRequests, UserAnswers
<1>5. ClientChanges \/ UNCHANGED niVars => taken' = taken
  BY DEF ClientChanges, niVars
<1>6. NiAdapter => taken' = taken
  BY DEF NiAdapter, NotifyDecided, NotifyNoClient, NotifyBusy, NotifyOpens, UserResponse,
         SetsResponse, NiResponse
<1> QED  BY <1>1, <1>2, <1>3, <1>4, <1>5, <1>6
            DEF NiNext, NiThread, ThreadHasResponse, ThreadTimesOut

\* ... and the modem hears it, and nothing else, of a request that was shown.
LEMMA EndsKept ==
  ASSUME NiTypes, DataInv, PromptsOwn, QueueTrue, EndsTrue, HistoryStays, [NiNext]_niVars
  PROVE  EndsTrue'
<1> USE DEF sessionVars, threadVars, historyVars
<1>0. NiTypeOK
  BY DEF NiTypes
<1> SUFFICES ASSUME NEW n \in NiRequests
             PROVE  /\ told'[n] # Unset => ended'[n] # 0
                    /\ ~ late' /\ prompt'[n] # 0 /\ told'[n] \in Answers => said'[n] = told'[n]
  BY DEF EndsTrue, Says
<1>1. CASE told'[n] = told[n] /\ (ended[n] # 0 => ended'[n] # 0) /\ prompt'[n] = prompt[n]
  <2>1. told[n] # Unset => ended[n] # 0
    BY DEF EndsTrue
  <2>2. ~ late' /\ prompt[n] # 0 => Says(n, told[n])
    BY DEF EndsTrue, HistoryStays
  <2>3. ~ late' /\ prompt[n] # 0 => (told[n] \in Answers => said'[n] = told[n])
    BY <1>0, <2>2, SaysKept
  <2> QED  BY <1>1, <2>1, <2>3
<1>2. ASSUME NEW m \in NiRequests, ended' = [ended EXCEPT ![m] = @ + 1], prompt' = prompt,
             told' = told \/ (n # m /\ \E r : told' = [told EXCEPT ![m] = r])
      PROVE  told'[n] = told[n] /\ (ended[n] # 0 => ended'[n] # 0) /\ prompt'[n] = prompt[n]
  <2>1. told'[n] = told[n]
    BY <1>0, <1>2 DEF NiTypeOK
  <2>2. ended[n] # 0 => ended'[n] # 0
    <3>1. ended[n] \in Nat /\ (ended'[n] = ended[n] \/ ended'[n] = ended[n] + 1)
      BY <1>0, <1>2 DEF NiTypeOK
    <3> QED  BY <3>1
  <2> QED  BY <1>2, <2>1, <2>2
<1>3. ASSUME NEW r, Informs(n, r), prompt' = prompt, said' = said,
             ~ late' /\ prompt[n] # 0 => Says(n, r)
      PROVE  /\ told'[n] # Unset => ended'[n] # 0
             /\ ~ late' /\ prompt'[n] # 0 /\ told'[n] \in Answers => said'[n] = told'[n]
  <2>1. told'[n] = r /\ ended'[n] = ended[n] + 1 /\ ended[n] \in Nat
    BY <1>0, <1>3 DEF Informs, NiTypeOK
  <2> QED  BY <1>3, <2>1 DEF Says
<1>4. ASSUME NEW k \in {"notify", "niResponse"}, HandlesNi(k), prompt' = prompt, said' = said,
             NEW r, Informs(Head(niQueue).req, r) \/ Frees(Head(niQueue).req),
             k = "niResponse" => r = Head(niQueue).resp
      PROVE  /\ told'[n] # Unset => ended'[n] # 0
             /\ ~ late' /\ prompt'[n] # 0 /\ told'[n] \in Answers => said'[n] = told'[n]
  <2> DEFINE m == Head(niQueue).req
  <2>1. m \in NiRequests /\ Head(niQueue).k = k /\ Head(niQueue) = niQueue[1]
        /\ 1 \in DOMAIN niQueue
    BY <1>0, <1>4, NiQueueTail, NiMessageParts
  <2>2. ended' = [ended EXCEPT ![m] = @ + 1]
    BY <1>4 DEF Informs, Frees
  <2>3. CASE Frees(m) \/ n # m
    <3>1. told' = told \/ (n # m /\ \E q : told' = [told EXCEPT ![m] = q])
      BY <1>4, <2>3 DEF Informs, Frees
    <3> QED  BY <1>1, <1>2, <1>4, <2>1, <2>2, <3>1
  <2>4. CASE Informs(m, r) /\ n = m
    <3>1. CASE k = "notify"
      <4>1. Asked(n)
        BY <2>1, <2>4, <3>1 DEF Asked
      <4>2. prompt[n] = 0
        BY <4>1 DEF DataInv, ThreadFollows, PromptsOwn
      <4> QED  BY <1>3, <1>4, <2>4, <4>2
    <3>2. CASE k = "niResponse"
      <4>1. MessageTrue(niQueue[1])
        BY <2>1 DEF QueueTrue
      <4>2. ~ late' => Says(n, r)
        BY <1>4, <2>1, <2>4, <3>2, <4>1 DEF MessageTrue, HistoryStays
      <4> QED  BY <1>3, <1>4, <2>4, <4>2
    <3> QED  BY <1>4, <3>1, <3>2
  <2> QED  BY <1>4, <2>3, <2>4
<1>5. CASE NotifyDecided \/ NotifyBusy
  BY <1>4, <1>5 DEF NotifyDecided, NotifyBusy
<1>6. CASE NotifyNoClient
  <2>1. CASE Head(niQueue).note.type = "es"
    BY <1>4, <1>6, <2>1 DEF NotifyNoClient
  <2>2. CASE Head(niQueue).note.type # "es"
    BY <1>1, <1>6, <2>2 DEF NotifyNoClient
  <2> QED  BY <2>1, <2>2
<1>7. CASE NiResponse
  BY <1>4, <1>7 DEF NiResponse
<1>8. CASE NotifyOpens
  <2> DEFINE m == Head(niQueue).req
  <2>1. m \in NiRequests /\ Head(niQueue).k = "notify" /\ Head(niQueue) = niQueue[1]
        /\ 1 \in DOMAIN niQueue
    BY <1>0, <1>8, NiQueueTail, NiMessageParts DEF NotifyOpens
  <2>2. told' = told /\ ended' = ended /\ \E id : prompt' = [prompt EXCEPT ![m] = id]
    BY <1>8 DEF NotifyOpens
  <2>3. CASE n = m
    <3>1. NiQueued(n)
      BY <2>1, <2>3 DEF NiQueued, Holding
    <3>2. told[n] = Unset
      BY <3>1 DEF DataInv, InOnePlace, EndsTrue
    <3> QED  BY <2>2, <3>2 DEF Answers, Unset
  <2>4. CASE n # m
    BY <1>0, <1>1, <2>2, <2>4 DEF NiTypeOK
  <2> QED  BY <2>3, <2>4
<1>9. ASSUME NEW m \in NiRequests, NEW r, ThreadTakes(m, r)
      PROVE  /\ told'[n] # Unset => ended'[n] # 0
             /\ ~ late' /\ prompt'[n] # 0 /\ told'[n] \in Answers => said'[n] = told'[n]
  <2>1. told' = told /\ prompt' = prompt
    BY <1>9 DEF ThreadTakes, Frees
  <2>2. ended' = ended \/ ended' = [ended EXCEPT ![m] = @ + 1]
    <3>1. rawRequest[thread[m].s] = m
      BY <1>0, <1>9, ThreadTakesOwn DEF ThreadTakes
    <3> QED  BY <1>9, <3>1 DEF ThreadTakes, Frees
  <2> QED  BY <1>1, <1>2, <2>1, <2>2
<1>10. CASE UNCHANGED <<told, ended, prompt>>
  BY <1>1, <1>10
<1>11. ASSUME NEW m \in NiRequests, ModemRequests(m) \/ UserAnswers(m) \/ ThreadEnds(m)
       PROVE  UNCHANGED <<told, ended, prompt>>
  BY <1>11 DEF ModemRequests, UserAnswers, ThreadEnds
<1>12. ClientChanges \/ UserResponse \/ SetsResponse \/ UNCHANGED niVars
         => UNCHANGED <<told, ended, prompt>>
  BY DEF ClientChanges, UserResponse, SetsResponse, niVars
<1> QED  BY <1>5, <1>6, <1>7, <1>8, <1>9, <1>10, <1>11, <1>12
            DEF NiNext, NiAdapter, NiThread, ThreadHasResponse, ThreadTimesOut

\* The inductive invariant.
LEMMA AnswerInvHolds == NiSpec => []AnswerInv
<1>1. NiInit => AnswerInv
  <2> SUFFICES ASSUME NiInit
               PROVE  AnswerInv
    OBVIOUS
  <2>1. /\ DOMAIN niQueue = {} /\ DOMAIN setting = {} /\ reqIDCounter = 0
        /\ \A n \in NiRequests : prompt[n] = 0 /\ told[n] = Unset /\ taken[n] = NoTake
        /\ \A s \in NiSessions : rawRequest[s] = NoRequest /\ ~ respRecvd[s]
    BY DEF NiInit
  <2> QED  BY <2>1 DEF AnswerInv, PromptsOwn, QueueTrue, SettingsTrue, FlagsTrue, HandsTrue,
                       EndsTrue, InHands
<1>2. NiTypes /\ DataInv /\ AnswerInv /\ [NiNext]_niVars => AnswerInv'
  BY HistoryKept, PromptsKept, QueueKept, SettingsKept, FlagsKept, HandsKept, EndsKept,
     NiAssumption DEF AnswerInv
<1> QED  BY <1>1, <1>2, NiTypeCorrect, DataInvHolds, PTL DEF NiSpec

\* Of a request the user was asked about the modem hears no "accept" and no
\* "deny" but the user's own, unless a response was set in a session that had
\* just ended (gnssNiResponseCommand against niThreadProc).
THEOREM AnswerIsOfUser == NiSpec => []AnswerIsUsers
<1>1. AnswerInv => AnswerIsUsers
  BY DEF AnswerInv, EndsTrue, Says, AnswerIsUsers
<1> QED  BY <1>1, AnswerInvHolds, PTL

=============================================================================
