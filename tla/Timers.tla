------------------------------- MODULE Timers -------------------------------
(***************************************************************************)
(* The timer service of gps/utils/LocTimer.cpp: one container of software  *)
(* timers (LocTimerContainer), served by two threads.                      *)
(*                                                                         *)
(* LocTimer::start makes a LocTimerDelegate and posts its push on the      *)
(* queue of the MsgTask thread, which keeps the heap and sets the timer    *)
(* file descriptor (fd) to the earliest time.  The poll thread waits for   *)
(* the fd, disarms it and posts an expiry; MsgTask then pops what is due   *)
(* and calls the clients back.  stop only cuts the delegate from its       *)
(* client; MsgTask removes and deletes it later.                           *)
(*                                                                         *)
(* Time is relative: a delegate knows how many ticks it has left.  A       *)
(* handler of MsgTask is one step, but for an expiry, which calls clients  *)
(* and is one step per lock it takes.  Left out: the container for alarms  *)
(* (its own fd, same code), failures of system calls, and the C wrapper's  *)
(* deletion of the timer it has served.                                    *)
(*                                                                         *)
(* The heap is a parameter, of which the service only needs what           *)
(* HeapAssumption says; LocHeap is the one of the code.                    *)
(***************************************************************************)
EXTENDS Integers, Sequences, FiniteSetsExt

CONSTANTS
  LocTimers,      \* LocTimer objects
  NoTimer,        \* null mClient
  MaxDelegates,   \* bound: LocTimerDelegate objects alive at a time
  MaxDelay,       \* longest time a timer is started with, in ticks
  MaxLate,        \* bound: ticks the service's threads may be late
  Heaps,          \* what mTree may be, a delegate in it once
  NoHeap,         \* the empty one; any other has its top as data
  Members(_),     \* the delegates of a heap
  InOrder(_, _),  \* has a heap the shape these ranks call for
  HeapPush(_, _, _), HeapPop(_, _), HeapRemove(_, _, _)   \* what becomes of it

Delegates  == 1 .. MaxDelegates
NoDelegate == 0
Off == MaxDelay + 1    \* the fd when it is disarmed
Times == - (MaxLate + 1) .. MaxDelay
Ranks == [Delegates -> Times \cup {Off}]

ASSUME TimersAssumption ==
  /\ NoTimer \notin LocTimers
  /\ MaxDelegates \in Nat \ {0}
  /\ MaxDelay \in Nat \ {0}
  /\ MaxLate \in Nat

\* A heap that is in order stays so, and gains or loses the one delegate.
Becomes(tree, members, rank) ==
  tree \in Heaps /\ Members(tree) = members /\ InOrder(tree, rank)

SameOrder(S, rank, other) ==
  \A d, e \in S : rank[d] < rank[e] <=> other[d] < other[e]

\* What LocTimerContainer relies on: the top of the heap has the least time left,
\* push, pop and remove do what they say, and only the order of the times matters.
ASSUME HeapAssumption ==
  /\ \A rank \in Ranks : Becomes(NoHeap, {}, rank)
  /\ \A tree \in Heaps : Members(tree) \subseteq Delegates
  /\ \A tree \in Heaps \ {NoHeap} : tree.data \in Members(tree)
  /\ \A tree \in Heaps, rank \in Ranks : InOrder(tree, rank) =>
       /\ tree # NoHeap =>
            /\ \A d \in Members(tree) : rank[tree.data] <= rank[d]
            /\ Becomes(HeapPop(tree, rank), Members(tree) \ {tree.data}, rank)
       /\ \A d \in Delegates \ Members(tree) :
            /\ Becomes(HeapPush(tree, d, rank), Members(tree) \cup {d}, rank)
            /\ HeapRemove(tree, d, rank) = tree
       /\ \A d \in Members(tree) : Becomes(HeapRemove(tree, d, rank), Members(tree) \ {d}, rank)
       /\ \A other \in Ranks : SameOrder(Members(tree), rank, other) => InOrder(tree, other)

VARIABLES
  timer,      \* mTimer of each LocTimer
  delegate,   \* the LocTimerDelegates: their client, and time left to mFutureTime
  heap,       \* mTree
  fd,         \* time left until mDevFd can be read, or Off
  polled,     \* is mDevFd in the epoll set
  polling,    \* where the poll thread is
  msgs,       \* queue of the MsgTask
  expiring    \* where MsgTask is in MsgTimerExpire::proc

serviceVars == <<heap, fd, polled, polling, msgs, expiring>>
timerVars   == <<timer, delegate, serviceVars>>

Freed     == [client |-> NoTimer, left |-> Off, live |-> FALSE]
TimerMsgs == [k : {"push", "remove"}, d : Delegates] \cup [k : {"expire"}, d : {NoDelegate}]
Expire    == [k |-> "expire", d |-> NoDelegate]
NotExpiring == [at |-> "no", d |-> NoDelegate, client |-> NoTimer]

Live == {d \in Delegates : delegate[d].live}
Left == [d \in Delegates |-> delegate[d].left]

\* LocTimerDelegate::ranks: a smaller time ranks higher.
Outranks(d, e) == Left[d] < Left[e]

\* getSoonestTimer.
Soonest(tree) == IF tree = NoHeap THEN NoDelegate ELSE tree.data

TimersTypeOK ==
  /\ timer \in [LocTimers -> Delegates \cup {NoDelegate}]
  /\ delegate \in [Delegates -> [client : LocTimers \cup {NoTimer}, left : Times \cup {Off},
                                 live : BOOLEAN]]
  /\ Members(heap) \subseteq Live
  /\ fd \in Times \cup {Off}
  /\ polled \in BOOLEAN
  /\ polling \in {"wait", "woken", "disarmed"}
  /\ msgs \in Seq(TimerMsgs)
  /\ expiring \in [at : {"no", "loop", "popped", "calling"}, d : Delegates \cup {NoDelegate},
                   client : LocTimers \cup {NoTimer}]

TimersInit ==
  /\ timer = [t \in LocTimers |-> NoDelegate]
  /\ delegate = [d \in Delegates |-> Freed]
  /\ heap = NoHeap
  /\ fd = Off
  /\ polled = FALSE
  /\ polling = "wait"
  /\ msgs = <<>>
  /\ expiring = NotExpiring

-----------------------------------------------------------------------------
(* LocTimer::start and stop, each under the lock of the timer *)

CanStart(t) == timer[t] # NoDelegate \/ Live # Delegates

\* A timer that runs is not started again.
StartTimer(t, delay) ==
  IF timer[t] # NoDelegate
  THEN UNCHANGED <<timer, delegate, msgs>>
  ELSE LET d == Min(Delegates \ Live)
       IN /\ timer' = [timer EXCEPT ![t] = d]
          /\ delegate' = [delegate EXCEPT ![d] = [client |-> t, left |-> delay, live |-> TRUE]]
          /\ msgs' = Append(msgs, [k |-> "push", d |-> d])

\* Mutant: mTimer is not set to null.
StopTimer_keepsTimer(t) ==
  LET d == timer[t]
  IN IF d = NoDelegate
     THEN UNCHANGED <<timer, delegate, msgs>>
     ELSE /\ delegate' = [delegate EXCEPT ![d].client = NoTimer]
          /\ msgs' = Append(msgs, [k |-> "remove", d |-> d])
          /\ UNCHANGED timer

\* destroyLocked: the delegate forgets its client, and its removal is posted.
StopTimer(t) ==
  LET d == timer[t]
  IN IF d = NoDelegate
     THEN UNCHANGED <<timer, delegate, msgs>>
     ELSE /\ timer' = [timer EXCEPT ![t] = NoDelegate]
          /\ delegate' = [delegate EXCEPT ![d].client = NoTimer]
          /\ msgs' = Append(msgs, [k |-> "remove", d |-> d])

-----------------------------------------------------------------------------
(* MsgTask *)

\* updateSoonestTime: the fd follows the top of the tree.
UpdateSoonestTime(tree, priorTop) ==
  LET top == Soonest(tree)
  IN IF top # priorTop /\ top = NoDelegate
     THEN polled' = FALSE /\ fd' = Off
     ELSE IF top # priorTop /\ (priorTop = NoDelegate \/ Outranks(top, priorTop))
     THEN polled' = TRUE /\ fd' = Left[top]
     ELSE UNCHANGED <<polled, fd>>

Takes(k) ==
  /\ expiring.at = "no"
  /\ msgs # <<>> /\ Head(msgs).k = k
  /\ msgs' = Tail(msgs)

MsgTimerPush ==
  /\ Takes("push")
  /\ heap' = HeapPush(heap, Head(msgs).d, Left)
  /\ UpdateSoonestTime(heap', Soonest(heap))
  /\ UNCHANGED <<timer, delegate, polling, expiring>>

\* The fd is looked at again only when what was removed was the top (or both
\* are null); delegates are deleted here and nowhere else.
MsgTimerRemove ==
  /\ Takes("remove")
  /\ LET d == Head(msgs).d
         removed == IF d \in Members(heap) /\ HeapRemove(heap, d, Left) # heap THEN d ELSE NoDelegate
     IN /\ heap' = HeapRemove(heap, d, Left)
        /\ IF Soonest(heap) = removed
           THEN UpdateSoonestTime(heap', NoDelegate)
           ELSE UNCHANGED <<polled, fd>>
        /\ delegate' = [delegate EXCEPT ![d] = Freed]
  /\ UNCHANGED <<timer, polling, expiring>>

\* Pops the top; LocTimerDelegate::expire reads its client without the lock.
PopsSoonest ==
  /\ heap' = HeapPop(heap, Left)
  /\ expiring' = LET d == Soonest(heap)
                     client == delegate[d].client
                 IN [at |-> IF client = NoTimer THEN "loop" ELSE "popped", d |-> d, client |-> client]
  /\ UNCHANGED <<timer, delegate, fd, polled, polling>>

\* MsgTimerExpire: the first pop does not look at the clock.
MsgTimerExpire ==
  /\ Takes("expire")
  /\ heap # NoHeap
  /\ PopsSoonest

MsgTimerExpireEmpty ==
  /\ Takes("expire")
  /\ heap = NoHeap
  /\ UpdateSoonestTime(heap, NoDelegate)
  /\ UNCHANGED <<timer, delegate, heap, polling, expiring>>

Due(tree) == tree # NoHeap /\ Left[Soonest(tree)] <= 0

\* popIfOutRanks: what else is due.
PopsNext ==
  /\ expiring.at = "loop"
  /\ Due(heap)
  /\ PopsSoonest
  /\ UNCHANGED msgs

\* Mutant: the fd stays disarmed.
EndsExpiry_noUpdate ==
  /\ expiring.at = "loop"
  /\ ~ Due(heap)
  /\ expiring' = NotExpiring
  /\ UNCHANGED <<timer, delegate, heap, fd, polled, polling, msgs>>

EndsExpiry ==
  /\ expiring.at = "loop"
  /\ ~ Due(heap)
  /\ expiring' = NotExpiring
  /\ UpdateSoonestTime(heap, NoDelegate)
  /\ UNCHANGED <<timer, delegate, heap, polling, msgs>>

\* Mutant: the callback is made only when nothing had to be stopped.
StopsClient_mute ==
  /\ expiring.at = "popped"
  /\ expiring' = [expiring EXCEPT !.at = IF timer[expiring.client] = NoDelegate THEN "calling"
                                         ELSE "loop"]
  /\ StopTimer(expiring.client)
  /\ UNCHANGED <<heap, fd, polled, polling>>

\* client->stop(): whatever timer the client runs by now.
StopsClient ==
  /\ expiring.at = "popped"
  /\ expiring' = [expiring EXCEPT !.at = IF timer[expiring.client] = NoDelegate THEN "loop"
                                         ELSE "calling"]
  /\ StopTimer(expiring.client)
  /\ UNCHANGED <<heap, fd, polled, polling>>

\* client->timeOutCallback(), which the module of the client gives a meaning.
CallsBack(t) ==
  /\ expiring.at = "calling" /\ expiring.client = t
  /\ expiring' = [expiring EXCEPT !.at = "loop"]
  /\ UNCHANGED <<timer, delegate, heap, fd, polled, polling, msgs>>

MsgTask ==
  MsgTimerPush \/ MsgTimerRemove \/ MsgTimerExpire \/ MsgTimerExpireEmpty
  \/ PopsNext \/ EndsExpiry \/ StopsClient

-----------------------------------------------------------------------------
(* The poll thread, and time *)

\* epoll_wait returns.
Wakes ==
  /\ polling = "wait"
  /\ polled /\ fd <= 0
  /\ polling' = "woken"
  /\ UNCHANGED <<timer, delegate, heap, fd, polled, msgs, expiring>>

\* LocTimerContainer::expire: disarms the fd ...
Disarms ==
  /\ polling = "woken"
  /\ polling' = "disarmed"
  /\ fd' = Off
  /\ UNCHANGED <<timer, delegate, heap, polled, msgs, expiring>>

\* removePoll and sendMsg; what MsgTask does between the two it may as well do
\* after them.
PostsExpire ==
  /\ polling = "disarmed"
  /\ polling' = "wait"
  /\ polled' = FALSE
  /\ msgs' = Append(msgs, Expire)
  /\ UNCHANGED <<timer, delegate, heap, fd, expiring>>

PollTask == Wakes \/ Disarms \/ PostsExpire

\* The clock goes on while nothing is more than MaxLate ticks late.
Tick ==
  /\ Live # {} \/ fd # Off
  /\ \A d \in Live : delegate[d].left >= - MaxLate
  /\ fd >= - MaxLate
  /\ delegate' = [d \in Delegates |-> IF d \in Live THEN [delegate[d] EXCEPT !.left = @ - 1]
                                      ELSE delegate[d]]
  /\ fd' = IF fd = Off THEN Off ELSE fd - 1
  /\ UNCHANGED <<timer, heap, polled, polling, msgs, expiring>>

-----------------------------------------------------------------------------
(* What holds of the service *)

Queued(k, d) == Cardinality({i \in DOMAIN msgs : msgs[i] = [k |-> k, d |-> d]})

\* Each delegate is run by the timer that made it or is about to be deleted,
\* once; while it runs it is in the heap, on its way there, or just popped.
\* Nothing names a deleted delegate.  (LocTimer.cpp: "all timers are deleted
\* here, and only here", while two threads stop timers and a third pops them.)
DelegatesAccounted ==
  /\ \A t \in LocTimers : timer[t] # NoDelegate => delegate[timer[t]].client = t
  /\ \A d \in Delegates :
       /\ Queued("remove", d) = IF d \in Live /\ delegate[d].client = NoTimer THEN 1 ELSE 0
       /\ d \notin Live => d \notin Members(heap) /\ Queued("push", d) = 0
       /\ delegate[d].client # NoTimer =>
            /\ timer[delegate[d].client] = d
            /\ \/ d \in Members(heap) /\ Queued("push", d) = 0
               \/ d \notin Members(heap) /\ Queued("push", d) = 1
               \/ d \notin Members(heap) /\ expiring.at = "popped" /\ expiring.d = d

\* Unless an expiry is on its way, the fd is polled and armed for no later a
\* time than that of any timer in the heap: no timer is forgotten, although the
\* poll thread disarms the fd while MsgTask arms it for other timers
\* (updateSoonestTime against LocTimerContainer::expire), and timers are pushed,
\* popped and removed in any order (LocHeap).
SoonestArmed ==
  heap # NoHeap /\ polling \in {"wait", "woken"} /\ expiring.at = "no" /\ Queued("expire", NoDelegate) = 0
    => polled /\ \A d \in Members(heap) : fd <= Left[d]

=============================================================================
