------------------------- MODULE InteractionHandler -------------------------
(***************************************************************************)
(* The interaction boost of the power HAL:                                 *)
(* power-libperfmgr/disp-power/InteractionHandler.cpp.                     *)
(*                                                                         *)
(* Binder threads ask for a boost with Acquire.  A thread of the handler   *)
(* (Routine) waits until the display is idle or the boost is over and then *)
(* releases the INTERACTION hint.  A request that comes while it waits     *)
(* aborts the wait through an event descriptor, so that it starts again.   *)
(* Acquire, Release and Exit hold mLock throughout and are single steps;   *)
(* Routine is one step per stretch between two blocking calls.             *)
(*                                                                         *)
(* Time passes in ticks (Tick).  Only differences of times matter, so      *)
(* there is no clock: age is the time since mLastTimespec, left the time   *)
(* poll still has to wait.                                                 *)
(***************************************************************************)
EXTENDS Integers

CONSTANTS
  Durations,      \* durations callers ask for
  Slack,          \* what Acquire adds to them (650)
  mWaitMs, mMinDurationMs, mMaxDurationMs,
  Calls           \* bound: how many boosts are asked for

ASSUME ConstantsAssumption ==
  /\ Durations \subseteq Int
  /\ Slack \in Int
  /\ mWaitMs \in Nat
  /\ mMinDurationMs \in Nat \ {0}
  /\ mMaxDurationMs \in Nat
  /\ mMinDurationMs <= mMaxDurationMs
  /\ Calls \in Nat

VARIABLES
  mState,
  mDurationMs,
  age,          \* time since mLastTimespec; beyond mMaxDurationMs it is all the same
  mEventFd,     \* counter of the event descriptor
  held,         \* is the INTERACTION hint on
  pc,           \* where Routine is
  timeout,      \* the second argument of WaitForIdle
  left,         \* time until poll gives up
  cut,          \* why WaitForIdle returned: neither its time was up nor was it aborted
  asked,        \* history: the length the last call of Acquire asked for
  calls         \* bound

handlerVars == <<mState, mDurationMs, age, mEventFd, held>>
routineVars == <<pc, timeout, left, cut>>
boundVars == <<asked, calls>>
vars == <<handlerVars, routineVars, boundVars>>

Old   == mMaxDurationMs + 1      \* any age that is no longer counted
Spans == 0 .. mMaxDurationMs

-----------------------------------------------------------------------------
(* Callers *)

\* InteractionHandler::Init, from the constructor of Power.  When it fails
\* nothing ever happens.
InitHandler ==
  /\ mState = "UNINITIALIZED" /\ pc = "none"
  /\ mEventFd' = 0
  /\ mState' = "IDLE"
  /\ pc' = "sleep"
  /\ UNCHANGED <<mDurationMs, age, held, timeout, left, cut, boundVars>>

FinalDuration(d) ==
  CASE d + Slack > mMaxDurationMs -> mMaxDurationMs
    [] d + Slack \in mMinDurationMs + 1 .. mMaxDurationMs -> d + Slack
    [] OTHER -> mMinDurationMs

\* Mutant: compares the age with the whole of the previous boost.
Covered_late(final) ==
  /\ mState # "IDLE"
  /\ final <= mDurationMs
  /\ age <= mDurationMs

\* the previous hint's duration covers this one
Covered(final) ==
  /\ mState # "IDLE"
  /\ final <= mDurationMs
  /\ age <= mDurationMs - final

\* Mutant: takes the hint for held.
Boost_unlocked(final) ==
  /\ mEventFd' = IF mState = "WAITING" THEN mEventFd + 1 ELSE mEventFd
  /\ mState' = "INTERACTION"
  /\ mDurationMs' = final
  /\ age' = 0
  /\ UNCHANGED held

\* Acquire beyond its early returns: abort the wait, or take the hint
Boost(final) ==
  /\ mEventFd' = IF mState = "WAITING" THEN mEventFd + 1 ELSE mEventFd
  /\ held' = IF mState = "IDLE" THEN TRUE ELSE held
  /\ mState' = "INTERACTION"
  /\ mDurationMs' = final
  /\ age' = 0

Acquire(d) ==
  /\ mState # "UNINITIALIZED"
  /\ calls > 0
  /\ calls' = calls - 1
  /\ asked' = FinalDuration(d)
  /\ IF Covered(FinalDuration(d)) THEN UNCHANGED handlerVars ELSE Boost(FinalDuration(d))
  /\ UNCHANGED routineVars

\* Exit up to the join of the thread.  The destructor calls it, after which
\* there are no callers.
Exit ==
  /\ mState # "UNINITIALIZED"
  /\ mEventFd' = mEventFd + 1
  /\ mState' = "UNINITIALIZED"
  /\ calls' = 0
  /\ UNCHANGED <<mDurationMs, age, held, asked, routineVars>>

-----------------------------------------------------------------------------
(* InteractionHandler::Routine *)

\* Mutant: forgets to mark the wait.
Wake_unmarked ==
  /\ pc = "sleep"
  /\ mState \notin {"IDLE", "UNINITIALIZED"}
  /\ pc' = "woken"
  /\ UNCHANGED <<handlerVars, timeout, left, cut, boundVars>>

\* Mutant: overlooks that Exit was called.
Wake_always ==
  /\ pc = "sleep"
  /\ mState # "IDLE"
  /\ mState' = "WAITING"
  /\ pc' = "woken"
  /\ UNCHANGED <<mDurationMs, age, mEventFd, held, timeout, left, cut, boundVars>>

Wake ==
  /\ pc = "sleep"
  /\ mState \notin {"IDLE", "UNINITIALIZED"}
  /\ mState' = "WAITING"
  /\ pc' = "woken"
  /\ UNCHANGED <<mDurationMs, age, mEventFd, held, timeout, left, cut, boundVars>>

Leave ==
  /\ pc = "sleep"
  /\ mState = "UNINITIALIZED"
  /\ pc' = "done"
  /\ UNCHANGED <<handlerVars, timeout, left, cut, boundVars>>

\* mDurationMs is read without the lock
CallWaitForIdle ==
  /\ pc = "woken"
  /\ timeout' = mDurationMs
  /\ left' = mWaitMs
  /\ cut' = FALSE
  /\ pc' = "settle"
  /\ UNCHANGED <<handlerVars, boundVars>>

\* the first poll, of the event descriptor alone ...
Settled ==
  /\ pc = "settle"
  /\ left = 0
  /\ pc' = "look"
  /\ UNCHANGED <<handlerVars, timeout, left, cut, boundVars>>

\* ... then the idle_state file, and unless it says idle ...
NotIdle ==
  /\ pc = "look"
  /\ left' = timeout
  /\ pc' = "watch"
  /\ UNCHANGED <<handlerVars, timeout, cut, boundVars>>

\* ... the second poll, of both.
TimedOut ==
  /\ pc = "watch"
  /\ left = 0
  /\ pc' = "release"
  /\ UNCHANGED <<handlerVars, timeout, left, cut, boundVars>>

Aborted ==
  /\ pc \in {"settle", "watch"}
  /\ mEventFd > 0
  /\ pc' = "release"
  /\ UNCHANGED <<handlerVars, timeout, left, cut, boundVars>>

\* the display is idle, or one of the calls fails
CutShort ==
  /\ pc \in {"settle", "look", "watch"}
  /\ cut' = TRUE
  /\ pc' = "release"
  /\ UNCHANGED <<handlerVars, timeout, left, boundVars>>

\* Mutant: leaves the abort pending.
Release_pending ==
  /\ pc = "release"
  /\ IF mState = "WAITING"
     THEN held' = FALSE /\ mState' = "IDLE"
     ELSE UNCHANGED <<held, mState>>
  /\ pc' = "sleep"
  /\ UNCHANGED <<mDurationMs, age, mEventFd, timeout, left, cut, boundVars>>

Release ==
  /\ pc = "release"
  /\ IF mState = "WAITING"
     THEN held' = FALSE /\ mState' = "IDLE" /\ UNCHANGED mEventFd
     ELSE mEventFd' = 0 /\ UNCHANGED <<held, mState>>
  /\ pc' = "sleep"
  /\ UNCHANGED <<mDurationMs, age, timeout, left, cut, boundVars>>

\* what Routine does whether or not the display ever is idle
Routine ==
  \/ Wake \/ Leave \/ CallWaitForIdle \/ Settled \/ NotIdle \/ TimedOut \/ Aborted \/ Release

-----------------------------------------------------------------------------
Tick ==
  /\ age' = IF age < Old THEN age + 1 ELSE age
  /\ left' = IF left > 0 THEN left - 1 ELSE left
  /\ UNCHANGED <<mState, mDurationMs, mEventFd, held, pc, timeout, cut, boundVars>>

\* mLastTimespec is not initialised
Init ==
  /\ mState = "UNINITIALIZED"
  /\ mDurationMs = 0
  /\ age \in 0 .. Old
  /\ mEventFd = 0
  /\ held = FALSE
  /\ pc = "none"
  /\ timeout = 0
  /\ left = 0
  /\ cut = FALSE
  /\ asked = 0
  /\ calls = Calls

Next ==
  \/ InitHandler \/ Exit \/ (\E d \in Durations : Acquire(d))
  \/ Routine \/ CutShort \/ Tick

\* The thread runs and time passes; callers and the display owe nothing.
Fairness == WF_vars(Routine) /\ WF_vars(Tick)

Spec == Init /\ [][Next]_vars /\ Fairness

-----------------------------------------------------------------------------
(* Properties *)

TypeOK ==
  /\ mState \in {"UNINITIALIZED", "IDLE", "INTERACTION", "WAITING"}
  /\ mDurationMs \in Spans
  /\ age \in 0 .. Old
  /\ mEventFd \in 0 .. 2
  /\ held \in BOOLEAN
  /\ pc \in {"none", "sleep", "woken", "settle", "look", "watch", "release", "done"}
  /\ timeout \in Spans
  /\ left \in Nat
  /\ cut \in BOOLEAN
  /\ asked \in Spans
  /\ calls \in 0 .. Calls

\* No abort is left over that would cut short the wait for a later boost: the
\* counter is zero whenever a wait counts, and whenever the next one is to come.
NoStaleAbort == mState \in {"IDLE", "WAITING"} => mEventFd = 0

\* The hint is on exactly while a boost is asked for or waited out.
HintMatchesState ==
  mState # "UNINITIALIZED" => (held <=> mState \in {"INTERACTION", "WAITING"})

\* Every request gets its length unless the display is seen idle (module
\* Boost): the early return of Acquire and the restart of the wait lose no part
\* of any.
Abstract ==
  INSTANCE Boost WITH
    Lengths  <- 1 .. mMaxDurationMs,
    Requests <- Calls,
    due      <- IF held /\ age < mDurationMs THEN mDurationMs - age ELSE 0,
    excused  <- pc = "release" /\ cut /\ mState = "WAITING",
    requests <- calls
BoostKept == Abstract!Spec

\* A boost ends, even if the display never is idle, unless Exit comes first
\* (which leaves the hint on).
BoostEnds == held ~> (~held \/ mState = "UNINITIALIZED")

\* The join in Exit returns.
ExitReturns == (mState = "UNINITIALIZED" /\ pc # "none") ~> pc = "done"
=============================================================================
