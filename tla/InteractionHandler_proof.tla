---------------------- MODULE InteractionHandler_proof ----------------------
(***************************************************************************)
(* Proofs about InteractionHandler, for all durations and bounds.  The     *)
(* inductive invariant adds to TypeOK, NoStaleAbort and HintMatchesState   *)
(* where Routine can be in each state (Places) and what the wait it is in  *)
(* still owes the running boost (Waits).                                   *)
(***************************************************************************)
EXTENDS InteractionHandler, TLAPS

Busy == {"woken", "settle", "look", "watch", "release"}

\* Where Routine is, by state, and how many aborts can be pending.
Places ==
  /\ mState = "IDLE" => pc = "sleep"
  /\ mState = "WAITING" => pc \in Busy
  /\ mState = "INTERACTION" => /\ pc \in Busy \cup {"sleep"}
                               /\ pc = "sleep" => mEventFd = 0
                               /\ mEventFd <= 1
  /\ pc \in {"settle", "look", "watch"} => ~cut
  /\ pc = "none" => mEventFd = 0 /\ ~held /\ mState = "UNINITIALIZED"

\* While a wait counts, the boost will not outlast it.
Waits ==
  mState = "WAITING" =>
    /\ pc \in {"settle", "look"} => timeout = mDurationMs
    /\ pc = "watch" => mDurationMs <= age + left
    /\ pc = "release" => cut \/ mDurationMs <= age

IInv == TypeOK /\ NoStaleAbort /\ HintMatchesState /\ Places /\ Waits

-----------------------------------------------------------------------------
(* The length of a boost *)

\* FinalDuration clamps whatever is asked for into the bounds.
LEMMA FinalInRange ==
  ASSUME NEW d \in Durations
  PROVE  /\ FinalDuration(d) \in Spans
         /\ FinalDuration(d) \in 1 .. mMaxDurationMs
BY ConstantsAssumption DEF FinalDuration, Spans

-----------------------------------------------------------------------------
(* The inductive invariant *)

LEMMA InitIInv == Init => IInv
<1> SUFFICES ASSUME Init
             PROVE  IInv
  OBVIOUS
<1>1. held \in BOOLEAN /\ cut \in BOOLEAN
  BY DEF Init
<1>2. TypeOK
  BY <1>1, ConstantsAssumption DEF Init, TypeOK, Spans, Old
<1>3. NoStaleAbort /\ HintMatchesState /\ Places /\ Waits
  BY DEF Init, NoStaleAbort, HintMatchesState, Places, Waits
<1>4. QED
  BY <1>2, <1>3 DEF IInv

\* The callers: a request that is covered, one that is not, and Exit.
LEMMA CallersKeepIInv ==
  ASSUME IInv, InitHandler \/ Exit \/ \E d \in Durations : Acquire(d)
  PROVE  IInv'
<1>1. CASE InitHandler
  BY <1>1, ConstantsAssumption
     DEF InitHandler, boundVars, IInv, TypeOK, NoStaleAbort, HintMatchesState, Places, Waits, Busy, Spans, Old
<1>2. CASE Exit
  BY <1>2, ConstantsAssumption
     DEF Exit, routineVars, IInv, TypeOK, NoStaleAbort, HintMatchesState, Places, Waits, Busy,
         Spans, Old
<1>3. ASSUME NEW d \in Durations, Acquire(d)
      PROVE  IInv'
  <2> DEFINE final == FinalDuration(d)
  <2>1. final \in Spans
    BY FinalInRange
  <2> HIDE DEF final
  <2>2. /\ mState # "UNINITIALIZED" /\ calls > 0
        /\ calls' = calls - 1
        /\ asked' = final
        /\ UNCHANGED routineVars
        /\ IF Covered(final) THEN UNCHANGED handlerVars ELSE Boost(final)
    BY <1>3 DEF Acquire, final
  <2>3. calls' \in 0 .. Calls /\ asked' \in Spans
    BY <2>1, <2>2, ConstantsAssumption DEF IInv, TypeOK
  <2>4. CASE Covered(final)
    BY <2>2, <2>3, <2>4
       DEF handlerVars, routineVars, IInv, TypeOK, NoStaleAbort, HintMatchesState, Places, Waits
  <2>5. CASE ~Covered(final)
    <3>1. Boost(final)
      BY <2>2, <2>5
    <3>2. TypeOK'
      <4>1. held' \in BOOLEAN /\ cut' \in BOOLEAN
        BY <2>2, <3>1 DEF Boost, routineVars, IInv, TypeOK
      <4>2. mEventFd' \in 0 .. 2
        BY <3>1 DEF Boost, IInv, TypeOK, NoStaleAbort
      <4>3. /\ mState' = "INTERACTION" /\ mDurationMs' \in Spans
            /\ age' \in 0 .. Old
        BY <2>1, <3>1, ConstantsAssumption DEF Boost, Old
      <4>4. QED
        BY <2>2, <2>3, <4>1, <4>2, <4>3 DEF routineVars, IInv, TypeOK
    <3>3. NoStaleAbort' /\ HintMatchesState' /\ Waits'
      BY <2>2, <3>1 DEF Boost, IInv, TypeOK, NoStaleAbort, HintMatchesState, Waits
    <3>4. Places'
      BY <2>2, <3>1 DEF Boost, routineVars, IInv, TypeOK, NoStaleAbort, Places, Busy
    <3>5. QED
      BY <3>2, <3>3, <3>4 DEF IInv
  <2>6. QED
    BY <2>4, <2>5
<1>4. QED
  BY <1>1, <1>2, <1>3

\* Routine and the clock.
LEMMA RoutineKeepsIInv ==
  ASSUME IInv, Routine \/ CutShort \/ Tick
  PROVE  IInv'
<1> USE ConstantsAssumption
        DEF IInv, TypeOK, NoStaleAbort, HintMatchesState, Places, Waits, Busy, Spans, Old,
            handlerVars, boundVars
<1>1. CASE Wake
  BY <1>1 DEF Wake
<1>2. CASE Leave
  BY <1>2 DEF Leave
<1>3. CASE CallWaitForIdle
  BY <1>3 DEF CallWaitForIdle
<1>4. CASE Settled
  BY <1>4 DEF Settled
<1>5. CASE NotIdle
  BY <1>5 DEF NotIdle
<1>6. CASE TimedOut
  BY <1>6 DEF TimedOut
<1>7. CASE Aborted
  BY <1>7 DEF Aborted
<1>8. CASE Release
  <2>1. held' \in BOOLEAN
    BY <1>8 DEF Release
  <2>2. mEventFd' \in 0 .. 2 /\ mState' \in {mState, "IDLE"}
    BY <1>8 DEF Release
  <2>3. TypeOK'
    BY <1>8, <2>1, <2>2 DEF Release
  <2>4. NoStaleAbort' /\ HintMatchesState' /\ Places' /\ Waits'
    BY <1>8 DEF Release
  <2>5. QED
    BY <2>3, <2>4
<1>9. CASE CutShort
  BY <1>9 DEF CutShort
<1>10. CASE Tick
  BY <1>10 DEF Tick
<1>11. QED
  BY <1>1, <1>2, <1>3, <1>4, <1>5, <1>6, <1>7, <1>8, <1>9, <1>10 DEF Routine

LEMMA NextKeepsIInv == IInv /\ [Next]_vars => IInv'
<1> SUFFICES ASSUME IInv, [Next]_vars
             PROVE  IInv'
  OBVIOUS
<1>1. CASE UNCHANGED vars
  BY <1>1 DEF vars, handlerVars, routineVars, boundVars, IInv, TypeOK, NoStaleAbort, HintMatchesState,
              Places, Waits
<1>2. CASE Next
  BY <1>2, CallersKeepIInv, RoutineKeepsIInv DEF Next
<1>3. QED
  BY <1>1, <1>2

LEMMA AlwaysIInv == Spec => []IInv
BY InitIInv, NextKeepsIInv, PTL DEF Spec

\* Types; in particular at most two aborts are ever pending, and a boost never
\* lasts longer than mMaxDurationMs.
THEOREM TypeCorrect == Spec => []TypeOK
<1>1. IInv => TypeOK
  BY DEF IInv
<1>2. QED
  BY AlwaysIInv, <1>1, PTL

\* No abort of an earlier wait is pending when a wait counts or is to come.
THEOREM AbortsAreCleared == Spec => []NoStaleAbort
<1>1. IInv => NoStaleAbort
  BY DEF IInv
<1>2. QED
  BY AlwaysIInv, <1>1, PTL

\* The hint is on exactly while a boost is asked for or waited out.
THEOREM HintFollowsState == Spec => []HintMatchesState
<1>1. IInv => HintMatchesState
  BY DEF IInv
<1>2. QED
  BY AlwaysIInv, <1>1, PTL

-----------------------------------------------------------------------------
(* The handler implements module Boost *)

Due     == IF held /\ age < mDurationMs THEN mDurationMs - age ELSE 0
Excused == pc = "release" /\ cut /\ mState = "WAITING"

Visible == <<held, Due, Excused, asked, calls>>

\* An Acquire asks, in the terms of Boost too: where it returns early, what is
\* asked for is due, and where it does not, more is asked for than is due.
LEMMA AcquireAsks ==
  ASSUME IInv, NEW d \in Durations, Acquire(d)
  PROVE  Abstract!Next
<1> DEFINE final == FinalDuration(d)
<1>1. final \in Spans /\ final \in 1 .. mMaxDurationMs
  BY FinalInRange
<1> HIDE DEF final
<1>2. /\ mState # "UNINITIALIZED"
      /\ calls > 0 /\ calls' = calls - 1 /\ asked' = final
      /\ UNCHANGED routineVars
      /\ IF Covered(final) THEN UNCHANGED handlerVars ELSE Boost(final)
  BY DEF Acquire, final
<1>3. CASE Covered(final)
  <2>1. held
    BY <1>2, <1>3 DEF Covered, IInv, TypeOK, HintMatchesState
  <2>2. age < mDurationMs /\ final <= mDurationMs - age
    BY <1>1, <1>3, ConstantsAssumption DEF Covered, IInv, TypeOK, Spans, Old
  <2>3. final <= Due
    BY <2>1, <2>2 DEF Due
  <2>4. UNCHANGED <<held, Due, Excused>>
    BY <1>2, <1>3 DEF handlerVars, routineVars, Due, Excused
  <2>5. Abstract!Ask(final)
    BY <1>2, <2>1, <2>3, <2>4 DEF Abstract!Ask, Due, Excused
  <2>6. QED
    BY <1>1, <2>5 DEF Abstract!Next
<1>4. CASE ~Covered(final)
  <2>1. Boost(final)
    BY <1>2, <1>4
  <2>2. held' = TRUE
    BY <1>2, <2>1 DEF Boost, IInv, TypeOK, HintMatchesState
  <2>3. Due' = final /\ Excused' = FALSE
    BY <1>1, <2>1, <2>2 DEF Boost, Due, Excused
  <2>4. ~(held /\ final <= Due)
    BY <1>1, <1>2, <1>4, ConstantsAssumption
       DEF Covered, Due, IInv, TypeOK, HintMatchesState, Spans, Old
  <2>5. Abstract!Ask(final)
    BY <1>2, <2>2, <2>3, <2>4 DEF Abstract!Ask, Due, Excused
  <2>6. QED
    BY <1>1, <2>5 DEF Abstract!Next
<1>5. QED
  BY <1>3, <1>4

\* The hint is given back only when nothing is due, or after CutShort.
LEMMA ReleaseEnds ==
  ASSUME IInv, Release
  PROVE  Abstract!Next \/ UNCHANGED Visible
<1>1. CASE mState = "WAITING"
  <2>1. held /\ (Due = 0 \/ Excused)
    BY <1>1, ConstantsAssumption
       DEF Release, Due, Excused, IInv, TypeOK, HintMatchesState, Waits, Spans, Old
  <2>2. held' = FALSE /\ Due' = 0 /\ Excused' = FALSE /\ UNCHANGED boundVars
    BY <1>1 DEF Release, Due, Excused
  <2>3. Abstract!End
    BY <2>1, <2>2 DEF Abstract!End, boundVars, Due, Excused
  <2>4. QED
    BY <2>3 DEF Abstract!Next
<1>2. CASE mState # "WAITING"
  BY <1>2 DEF Release, boundVars, Visible, Due, Excused
<1>3. QED
  BY <1>1, <1>2

\* A tick takes one off what is due.
LEMMA TickTicks ==
  ASSUME IInv, Tick
  PROVE  Abstract!Next \/ UNCHANGED Visible
<1>1. UNCHANGED <<held, Excused, asked, calls>>
  BY DEF Tick, boundVars, Excused
<1>2. CASE Due = 0
  <2>1. Due' = 0
    BY <1>2, ConstantsAssumption DEF Tick, Due, IInv, TypeOK, Spans, Old
  <2>2. QED
    BY <1>1, <1>2, <2>1 DEF Visible
<1>3. CASE Due # 0
  <2>1. Due > 0 /\ Due' = Due - 1
    BY <1>3, ConstantsAssumption DEF Tick, Due, IInv, TypeOK, Spans, Old
  <2>2. Abstract!Tick
    BY <1>1, <2>1 DEF Abstract!Tick, Due, Excused
  <2>3. QED
    BY <2>2 DEF Abstract!Next
<1>4. QED
  BY <1>2, <1>3

\* Exit leaves the hint, CutShort excuses, and the rest is not visible.
LEMMA OthersStutter ==
  ASSUME IInv,
         InitHandler \/ Exit \/ CutShort \/ Wake \/ Leave \/ CallWaitForIdle \/ Settled
         \/ NotIdle \/ TimedOut \/ Aborted
  PROVE  Abstract!Next \/ UNCHANGED Visible
<1>1. CASE Exit
  <2>1. UNCHANGED <<held, Due, asked>> /\ calls' = 0 /\ Excused' = FALSE
    BY <1>1 DEF Exit, routineVars, Due, Excused
  <2>2. Abstract!ShutDown
    BY <2>1 DEF Abstract!ShutDown, Due, Excused
  <2>3. QED
    BY <2>2 DEF Abstract!Next
<1>2. CASE CutShort
  <2>1. UNCHANGED <<held, Due, asked, calls>> /\ ~Excused
    BY <1>2 DEF CutShort, handlerVars, boundVars, Due, Excused
  <2>2. CASE mState = "WAITING"
    <3>1. held /\ Excused' = TRUE
      BY <1>2, <2>2 DEF CutShort, handlerVars, Excused, IInv, HintMatchesState
    <3>2. Abstract!SeeIdle
      BY <2>1, <3>1 DEF Abstract!SeeIdle, Due, Excused
    <3>3. QED
      BY <3>2 DEF Abstract!Next
  <2>3. CASE mState # "WAITING"
    BY <1>2, <2>1, <2>3 DEF CutShort, handlerVars, Visible, Excused
  <2>4. QED
    BY <2>2, <2>3
<1>3. CASE InitHandler \/ Wake \/ Leave \/ CallWaitForIdle \/ Settled \/ NotIdle
  BY <1>3 DEF InitHandler, Wake, Leave, CallWaitForIdle, Settled, NotIdle, handlerVars, boundVars,
                Visible, Due, Excused
<1>4. CASE TimedOut \/ Aborted
  <2>1. UNCHANGED <<held, Due, asked, calls>>
    BY <1>4 DEF TimedOut, Aborted, handlerVars, boundVars, Due
  <2>2. pc \in {"settle", "watch"} /\ cut' = cut
    BY <1>4 DEF TimedOut, Aborted
  <2>3. ~Excused /\ ~Excused'
    BY <2>2 DEF Excused, IInv, Places
  <2>4. QED
    BY <2>1, <2>3 DEF Visible, Excused
<1>5. QED
  BY <1>1, <1>2, <1>3, <1>4

\* A boost lasts as long as the longest request, whatever else happens.
THEOREM BoostIsKept == Spec => BoostKept
<1>1. Init => Abstract!Init
  BY DEF Init, Abstract!Init
<1>2. IInv /\ [Next]_vars => [Abstract!Next]_Visible
  <2> SUFFICES ASSUME IInv, [Next]_vars
               PROVE  Abstract!Next \/ UNCHANGED Visible
    OBVIOUS
  <2>1. CASE UNCHANGED vars
    BY <2>1 DEF vars, handlerVars, routineVars, boundVars, Visible, Due, Excused
  <2>2. CASE Next
    BY <2>2, AcquireAsks, ReleaseEnds, TickTicks, OthersStutter DEF Next, Routine
  <2>3. QED
    BY <2>1, <2>2
<1>3. IInv /\ [Next]_vars => [Abstract!Next]_(Abstract!vars)
  BY <1>2 DEF Abstract!vars, Visible, Due, Excused
<1>4. QED
  BY AlwaysIInv, <1>1, <1>3, PTL DEF Spec, BoostKept, Abstract!Spec
=============================================================================
