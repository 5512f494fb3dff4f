---------------------------- MODULE GpsLock_proof ----------------------------
(***************************************************************************)
(* For every number of calls, restarts and locks of SIM cards: the modem   *)
(* ends up with the lock that the adapter has decided on, and both agree   *)
(* with the switch of the settings.                                        *)
(***************************************************************************)
EXTENDS GpsLock, TLAPS

-----------------------------------------------------------------------------
(* Messages *)

LEMMA MsgTyped ==
  /\ \A k \in {"enable", "disable"}, id \in 1 .. MaxCalls : Switch(k, id) \in Switches
  /\ \A l \in Locks : SetGpsLock(l) \in Configs
  /\ \A on \in BOOLEAN : Nfw(on) \in LockMsgs
  /\ EngineIsUp \in LockMsgs /\ Switches \subseteq LockMsgs /\ Configs \subseteq LockMsgs
  BY DEF Switch, SetGpsLock, Nfw, EngineIsUp, LockMsgs, Switches, Configs

\* What a message carries, by its kind.
LEMMA ByKind ==
  ASSUME NEW m \in LockMsgs
  PROVE  /\ m.k \in {"enable", "disable"} <=> m \in Switches
         /\ m.k = "config" => m \in Configs
         /\ m.k = "nfw" => m.on \in BOOLEAN
         /\ m \in Switches => m = Switch(m.k, m.id) /\ m.id \in 1 .. MaxCalls
         /\ m \in Configs => m.lock \in Locks /\ m.k = "config"
  BY DEF LockMsgs, Switches, Configs, EngineIsUp, Switch

LEMMA LockBits ==
  ASSUME NEW l \in Locks
  PROVE  /\ l \ {"MO"} \in Locks /\ l \ {"NI"} \in Locks /\ {} \in Locks
         /\ l \cup {"MO"} \in Locks /\ l \cup {"NI"} \in Locks
         /\ l \ {"NI"} \in {{}, {"MO"}}
         /\ \A nfw \in BOOLEAN, on \in 0 .. MaxCalls : Promised(nfw, on, l) \in Locks
  BY DEF Locks, Bits, Promised

LEMMA SetTyped ==
  ASSUME NEW l \in Locks
  PROVE  Set(l) \in [op : {"set", "open"}, lock : Locks] /\ Open \in [op : {"set", "open"}, lock : Locks]
  BY LockBits DEF Set, Open

-----------------------------------------------------------------------------
(* Types *)

LEMMA LockTypedAtFirst == LockInit => LockTypeOK
  <1> SUFFICES ASSUME LockInit PROVE LockTypeOK
    OBVIOUS
  <1>1. lock \in Locks /\ lock \in BootLocks
    BY GpsLockAssumption DEF LockInit
  <1> DEFINE Api == [op : {"set", "open"}, lock : Locks]
  <1>2. locApiQ \in Seq(Api)
    <2>1. Open \in Api /\ locApiQ = <<Open>>
      BY <1>1, SetTyped DEF LockInit
    <2> HIDE DEF Api
    <2> QED BY <2>1
  <1>3. /\ requests \in Seq({"enable", "disable"}) /\ lockQ \in Seq(LockMsgs)
        /\ waiting \in Seq(Configs)
    <2>1. requests = <<>> /\ lockQ = <<>> /\ waiting = <<>>
      BY DEF LockInit
    <2> QED BY <2>1
  <1>4. config \in Locks \cup {NoLock} /\ xtraLock \in {{}, {"MO"}, Unknown}
    BY DEF LockInit
  <1>5. modemLock \in Locks /\ known \in BOOLEAN /\ supportNfw \in BOOLEAN /\ up \in BOOLEAN /\ enabled \in BOOLEAN
        /\ overtaken \in BOOLEAN
    BY DEF LockInit
  <1>6. session \in 0 .. MaxCalls /\ afw \in 0 .. MaxCalls /\ calls \in 0 .. MaxCalls /\ lockResets \in 0 .. LockResets
    BY GpsLockAssumption DEF LockInit
  <1> HIDE DEF Api
  <1> QED BY <1>1, <1>2, <1>3, <1>4, <1>5, <1>6 DEF LockTypeOK, Api

LEMMA LockTypeStep == LockTypeOK /\ [LockNext]_lockVars => LockTypeOK'
  <1> SUFFICES ASSUME LockTypeOK, [LockNext]_lockVars PROVE LockTypeOK'
    OBVIOUS
  <1> DEFINE Api == [op : {"set", "open"}, lock : Locks]
  <1>0. /\ lockQ \in Seq(LockMsgs) /\ locApiQ \in Seq(Api) /\ lock \in Locks
        /\ waiting \in Seq(Configs)
    BY DEF LockTypeOK
  <1>1. ASSUME NEW m \in LockMsgs, Post(m) PROVE lockQ' \in Seq(LockMsgs)
    BY <1>0, <1>1 DEF Post
  <1>2. ASSUME lockQ # <<>> PROVE Head(lockQ) \in LockMsgs /\ Tail(lockQ) \in Seq(LockMsgs)
    BY <1>0, <1>2
  <1>3. ASSUME NEW l \in Locks, Send(l)
        PROVE  locApiQ' \in Seq(Api) /\ up' = up /\ modemLock' = modemLock
    BY <1>0, <1>3, SetTyped DEF Send
  <1>4. CASE UNCHANGED lockVars
    BY <1>4 DEF LockTypeOK, lockVars, clientVars, decisionVars, modemVars
  <1>5. ASSUME Calls PROVE calls + 1 \in 1 .. MaxCalls
    BY <1>5, GpsLockAssumption DEF Calls, LockTypeOK
  <1>6. CASE LocAPIEnable
    <2>1. Switch("enable", calls + 1) \in LockMsgs
      BY <1>5, <1>6, MsgTyped DEF LocAPIEnable
    <2>2. lockQ' \in Seq(LockMsgs)
      BY <1>1, <1>6, <2>1 DEF LocAPIEnable
    <2>3. requests' \in Seq({"enable", "disable"})
      BY <1>6 DEF LocAPIEnable
    <2>4. /\ enabled' = TRUE /\ session' = calls + 1 /\ calls' = calls + 1
          /\ UNCHANGED <<config, waiting, known, decisionVars, modemVars, lockResets>>
      BY <1>6 DEF LocAPIEnable, Calls
    <2>5. calls + 1 \in 1 .. MaxCalls /\ calls + 1 \in 0 .. MaxCalls
      BY <1>5, <1>6 DEF LocAPIEnable
    <2>6. enabled' \in BOOLEAN /\ session' \in 0 .. MaxCalls /\ calls' \in 0 .. MaxCalls
      BY <2>4, <2>5
    <2>7. /\ config' = config /\ waiting' = waiting /\ known' = known /\ afw' = afw
          /\ supportNfw' = supportNfw /\ lock' = lock /\ xtraLock' = xtraLock
          /\ locApiQ' = locApiQ /\ up' = up /\ modemLock' = modemLock /\ lockResets' = lockResets
          /\ overtaken' = overtaken
      BY <2>4 DEF decisionVars, modemVars
    <2> QED BY <2>2, <2>3, <2>6, <2>7 DEF LockTypeOK
  <1>7. CASE LocAPIDisable
    <2>1. Switch("disable", session) \in LockMsgs
      BY <1>7, MsgTyped, GpsLockAssumption DEF LocAPIDisable, LockTypeOK
    <2>2. lockQ' \in Seq(LockMsgs)
      BY <1>1, <1>7, <2>1 DEF LocAPIDisable
    <2>3. requests' \in Seq({"enable", "disable"})
      BY <1>7 DEF LocAPIDisable, LockTypeOK
    <2>4. /\ enabled' = FALSE /\ session' = session /\ calls' = calls + 1
          /\ UNCHANGED <<config, waiting, known, decisionVars, modemVars, lockResets>>
      BY <1>7 DEF LocAPIDisable, Calls
    <2>5. calls' \in 0 .. MaxCalls
      BY <1>5, <1>7, <2>4 DEF LocAPIDisable
    <2> QED BY <2>2, <2>3, <2>4, <2>5 DEF LockTypeOK, decisionVars, modemVars
  <1>8. CASE LocAPIGnssUpdateConfig
    <2>1. PICK l \in (SimLocks \cup {NoLock}) \ {config} :
            /\ Calls /\ config' = l
            /\ IF l = NoLock THEN UNCHANGED lockQ ELSE Post(SetGpsLock(l))
            /\ UNCHANGED <<enabled, session, requests>>
      BY <1>8 DEF LocAPIGnssUpdateConfig
    <2>2. l # NoLock => SetGpsLock(l) \in LockMsgs
      BY GpsLockAssumption, MsgTyped
    <2>3. lockQ' \in Seq(LockMsgs)
      BY <1>0, <1>1, <2>1, <2>2
    <2>4. config' \in Locks \cup {NoLock}
      BY <2>1, GpsLockAssumption
    <2> QED BY <1>5, <2>1, <2>3, <2>4 DEF LockTypeOK, Calls, decisionVars, modemVars
  <1>9. CASE NfwControlCommand
    <2>1. PICK on \in BOOLEAN : Calls /\ Post(Nfw(on)) /\ UNCHANGED clientVars
      BY <1>9 DEF NfwControlCommand
    <2>2. lockQ' \in Seq(LockMsgs)
      BY <1>1, <2>1, MsgTyped
    <2> QED BY <1>5, <2>1, <2>2 DEF LockTypeOK, Calls, clientVars, decisionVars, modemVars
  <1>10. ASSUME NEW id, Respond(id)
         PROVE  requests' \in Seq({"enable", "disable"}) /\ UNCHANGED <<enabled, session, config>>
    BY <1>10 DEF Respond, LockTypeOK
  <1>11. CASE MsgEnableGnss
    <2> DEFINE l == IF supportNfw THEN lock \ {"MO"} ELSE {}
    <2>1. Head(lockQ).id \in 1 .. MaxCalls /\ lockQ' \in Seq(LockMsgs)
      BY <1>2, <1>11, ByKind DEF MsgEnableGnss, Receives, Received
    <2>2. l \in Locks /\ l \ {"NI"} \in {{}, {"MO"}}
      BY <1>0, LockBits
    <2>3. UNCHANGED <<waiting, known, calls, lockResets, supportNfw>>
      BY <1>11 DEF MsgEnableGnss, KeepsWaiting, decisionVars
    <2>4. /\ afw' \in 0 .. MaxCalls /\ lock' \in Locks /\ xtraLock' \in {{}, {"MO"}, Unknown}
          /\ locApiQ' \in Seq(Api) /\ up' = up /\ modemLock' = modemLock
      <3>1. CASE afw > 0
        BY <3>1, <1>11 DEF MsgEnableGnss, decisionVars, modemVars, LockTypeOK
      <3>2. CASE ~ afw > 0
        <4> HIDE DEF Api
        <4>1. afw' = Head(lockQ).id /\ lock' = (IF supportNfw THEN l ELSE lock) /\ Send(l) /\ Tell(l)
          BY <3>2, <1>11 DEF MsgEnableGnss
        <4> HIDE DEF l
        <4> QED BY <4>1, <1>0, <1>3, <2>1, <2>2 DEF Tell
      <3> QED BY <3>1, <3>2
    <2>5. Respond(Head(lockQ).id)
      BY <1>11 DEF MsgEnableGnss
    <2>6. overtaken' \in BOOLEAN
      BY <1>11 DEF MsgEnableGnss, decisionVars, LockTypeOK
    <2> QED BY <1>10, <2>1, <2>3, <2>4, <2>5, <2>6 DEF LockTypeOK
  <1>12. CASE MsgDisableGnss
    <2> DEFINE l == IF supportNfw THEN lock \cup {"MO"} ELSE lock
    <2>1. lockQ' \in Seq(LockMsgs)
      BY <1>2, <1>12 DEF MsgDisableGnss, Receives, Received
    <2>2. l \in Locks /\ l \ {"NI"} \in {{}, {"MO"}}
      BY <1>0, LockBits
    <2>3. UNCHANGED <<waiting, known, calls, lockResets, supportNfw>>
      BY <1>12 DEF MsgDisableGnss, KeepsWaiting, decisionVars
    <2>4. /\ afw' \in 0 .. MaxCalls /\ lock' \in Locks /\ xtraLock' \in {{}, {"MO"}, Unknown}
          /\ locApiQ' \in Seq(Api) /\ up' = up /\ modemLock' = modemLock
      <3>1. CASE afw # Head(lockQ).id
        BY <3>1, <1>12 DEF MsgDisableGnss, decisionVars, modemVars, LockTypeOK
      <3>2. CASE afw = Head(lockQ).id
        <4> HIDE DEF Api
        <4>1. afw' = 0 /\ lock' = l /\ Send(l) /\ Tell(l)
          BY <3>2, <1>12 DEF MsgDisableGnss
        <4> HIDE DEF l
        <4> QED BY <4>1, <1>3, <2>2, GpsLockAssumption DEF Tell
      <3> QED BY <3>1, <3>2
    <2>5. Respond(Head(lockQ).id)
      BY <1>12 DEF MsgDisableGnss
    <2>6. overtaken' \in BOOLEAN
      BY <1>12 DEF MsgDisableGnss, decisionVars, LockTypeOK
    <2> QED BY <1>10, <2>1, <2>3, <2>4, <2>5, <2>6 DEF LockTypeOK
  <1>13. CASE MsgGnssUpdateConfig
    <2> DEFINE l == Head(lockQ).lock \cup {"MO"}
    <2>1. l \in Locks /\ lockQ' \in Seq(LockMsgs)
      BY <1>2, <1>13, ByKind, LockBits DEF MsgGnssUpdateConfig, Receives, Received
    <2>2. /\ lock' = l /\ supportNfw' = FALSE
          /\ UNCHANGED <<clientVars, afw, xtraLock>>
          /\ UNCHANGED modemVars \/ Send({}) \/ Send(l)
      BY <1>13 DEF MsgGnssUpdateConfig
    <2>3. locApiQ' \in Seq(Api) /\ up' = up /\ modemLock' = modemLock
      <3> HIDE DEF Api, l
      <3> QED BY <1>0, <1>3, <2>1, <2>2, LockBits DEF modemVars
    <2>4. UNCHANGED <<waiting, known, calls, lockResets>>
      BY <1>13 DEF MsgGnssUpdateConfig, KeepsWaiting
    <2>5. overtaken' \in BOOLEAN
      BY <1>13 DEF MsgGnssUpdateConfig, LockTypeOK
    <2> QED BY <2>1, <2>2, <2>3, <2>4, <2>5 DEF LockTypeOK, clientVars
  <1>14. CASE KeepConfig
    <2>1. Head(lockQ) \in Configs /\ lockQ' \in Seq(LockMsgs)
      BY <1>2, <1>14, ByKind DEF KeepConfig, Receives, Received
    <2>2. waiting' \in Seq(Configs)
      BY <1>0, <1>14, <2>1 DEF KeepConfig
    <2> QED BY <1>14, <2>1, <2>2 DEF KeepConfig, LockTypeOK, clientVars, decisionVars, modemVars
  <1>15. CASE MsgControlNfwLocationAccess
    <2> DEFINE l == IF Head(lockQ).on THEN lock \ {"NI"} ELSE lock \cup {"NI"}
    <2>1. l \in Locks
      BY <1>0, LockBits
    <2>2. lockQ' \in Seq(LockMsgs)
      BY <1>2, <1>15 DEF MsgControlNfwLocationAccess, Receives, Received
    <2>3. lock' = l /\ Send(l)
      BY <1>15 DEF MsgControlNfwLocationAccess
    <2>4. locApiQ' \in Seq(Api) /\ up' = up /\ modemLock' = modemLock /\ lock' \in Locks
      <3> HIDE DEF Api, l
      <3> QED BY <1>3, <2>1, <2>3
    <2> QED
      BY <1>15, <2>2, <2>4
      DEF MsgControlNfwLocationAccess, KeepsWaiting, LockTypeOK, clientVars
  <1>16. CASE MsgHandleEngineUpEvent
    <2>1. Promised(supportNfw, afw, lock) \in Locks
      BY <1>0, LockBits DEF LockTypeOK
    <2>2. locApiQ' \in Seq(Api) /\ up' = up /\ modemLock' = modemLock
      <3> HIDE DEF Api
      <3> QED BY <1>3, <1>16, <2>1 DEF MsgHandleEngineUpEvent
    <2>3. waiting \in Seq(LockMsgs)
      BY <1>0, MsgTyped
    <2>4. lockQ' \in Seq(LockMsgs)
      BY <1>2, <1>16, <2>3 DEF MsgHandleEngineUpEvent, Receives
    <2>5. /\ known' = TRUE /\ waiting' = <<>> /\ overtaken' = FALSE
          /\ UNCHANGED <<clientVars, afw, supportNfw, lock, xtraLock, calls, lockResets>>
      BY <1>16 DEF MsgHandleEngineUpEvent
    <2>6. waiting' \in Seq(Configs) /\ known' \in BOOLEAN /\ overtaken' \in BOOLEAN
      <3>1. <<>> \in Seq(Configs)
        OBVIOUS
      <3> QED BY <2>5, <3>1
    <2>7. /\ enabled' = enabled /\ session' = session /\ requests' = requests
          /\ config' = config /\ afw' = afw /\ supportNfw' = supportNfw /\ lock' = lock
          /\ xtraLock' = xtraLock /\ calls' = calls /\ lockResets' = lockResets
      BY <2>5 DEF clientVars
    <2> HIDE DEF Api
    <2>8. modemLock' \in Locks /\ up' \in BOOLEAN
      BY <2>2 DEF LockTypeOK
    <2> QED BY <2>2, <2>4, <2>6, <2>7, <2>8 DEF LockTypeOK, Api
  <1>17. CASE SetGpsLockSync
    <2>1. locApiQ' \in Seq(Api) /\ Head(locApiQ) \in Api
      <3> HIDE DEF Api
      <3> QED BY <1>0, <1>17 DEF SetGpsLockSync
    <2>2. modemLock' \in Locks
      BY <1>17, <2>1 DEF SetGpsLockSync, LockTypeOK
    <2>3. UNCHANGED <<clientVars, lockQ, waiting, known, decisionVars, up, calls, lockResets>>
      BY <1>17 DEF SetGpsLockSync
    <2> QED BY <2>1, <2>2, <2>3 DEF LockTypeOK, clientVars, decisionVars
  <1>18. CASE OpenModem
    <2>1. locApiQ' \in Seq(Api)
      <3> HIDE DEF Api
      <3> QED BY <1>0, <1>18 DEF OpenModem
    <2>2. lockQ' \in Seq(LockMsgs)
      BY <1>1, <1>18, MsgTyped DEF OpenModem
    <2> QED BY <1>18, <2>1, <2>2 DEF OpenModem, LockTypeOK, clientVars, decisionVars
  <1>19. CASE HandleEngineDownEvent
    <2>0. Open \in Api
      BY <1>0, SetTyped
    <2>1. locApiQ' \in Seq(Api)
      <3> HIDE DEF Api
      <3> QED BY <1>0, <1>19, <2>0 DEF HandleEngineDownEvent
    <2>2. lockResets' \in 0 .. LockResets
      BY <1>19, GpsLockAssumption DEF HandleEngineDownEvent, LockTypeOK
    <2>3. up' = FALSE /\ UNCHANGED <<clientVars, lockQ, waiting, known, decisionVars, modemLock, calls>>
      BY <1>19 DEF HandleEngineDownEvent
    <2> QED BY <2>1, <2>2, <2>3 DEF LockTypeOK, clientVars, decisionVars
  <1> QED
    BY <1>4, <1>6, <1>7, <1>8, <1>9, <1>11, <1>12, <1>13, <1>14, <1>15, <1>16, <1>17, <1>18, <1>19
    DEF LockNext, LockClient, LockAdapter, LockLocApi

\* Every variable keeps its type (the declarations of GnssAdapter.h and
\* LocationAPIClientBase.h).
THEOREM LockTypeCorrect == LockSpec => []LockTypeOK
  BY LockTypedAtFirst, LockTypeStep, PTL DEF LockSpec

-----------------------------------------------------------------------------
(* The invariant of the lock *)

\* As long as the lock is a state its MO half is the switch; afterwards it is
\* what the modem has while location is off.
LockOfSwitch == IF supportNfw THEN "MO" \in lock <=> afw = 0 ELSE "MO" \in lock

XtraTold == xtraLock = Unknown \/ ("MO" \in xtraLock <=> afw = 0)

\* A modem without a connection is going to be opened.
Opens == \E i \in 1 .. Len(locApiQ) : locApiQ[i].op = "open"
DownReopens == up \/ Opens

\* The lock is in the modem, or the last call that waits sets it, or the modem
\* is going to be told after a restart.
Settled(l) ==
  IF locApiQ = <<>> THEN modemLock = l ELSE locApiQ[Len(locApiQ)] = Set(l)

Announced == \E i \in 1 .. Len(lockQ) : lockQ[i].k = "engineUp"

LockOnItsWay == overtaken \/ Announced \/ Opens \/ Settled(Promised(supportNfw, afw, lock))

LockInv ==
  /\ LockTypeOK
  /\ LockOfSwitch /\ XtraTold /\ DownReopens /\ LockOnItsWay

-----------------------------------------------------------------------------
(* Queues *)

LEMMA Tailed ==
  ASSUME NEW S, NEW q \in Seq(S), q # <<>>
  PROVE  /\ Tail(q) \in Seq(S) /\ Len(Tail(q)) = Len(q) - 1 /\ Len(q) \in Nat \ {0}
         /\ Head(q) = q[1] /\ Head(q) \in S
         /\ \A i \in 1 .. Len(q) - 1 : Tail(q)[i] = q[i + 1]
  OBVIOUS

LEMMA Appended ==
  ASSUME NEW S, NEW q \in Seq(S), NEW m \in S
  PROVE  /\ Append(q, m) \in Seq(S) /\ Len(Append(q, m)) = Len(q) + 1 /\ Len(q) \in Nat
         /\ \A i \in 1 .. Len(q) : Append(q, m)[i] = q[i]
         /\ Append(q, m)[Len(q) + 1] = m
  OBVIOUS

LEMMA Joined ==
  ASSUME NEW S, NEW q \in Seq(S), NEW r \in Seq(S)
  PROVE  /\ q \o r \in Seq(S) /\ Len(q \o r) = Len(q) + Len(r) /\ Len(q) \in Nat /\ Len(r) \in Nat
         /\ \A i \in 1 .. Len(q) : (q \o r)[i] = q[i]
         /\ \A i \in Len(q) + 1 .. Len(q) + Len(r) : (q \o r)[i] = r[i - Len(q)]
  OBVIOUS

\* Something of the queue that is not at its head is in its tail.
LEMMA KeptInTail ==
  ASSUME NEW S, NEW q \in Seq(S), q # <<>>, NEW i \in 1 .. Len(q), q[i] # q[1]
  PROVE  i - 1 \in 1 .. Len(Tail(q)) /\ Tail(q)[i - 1] = q[i]
  <1>1. i # 1 /\ i - 1 \in 1 .. Len(q) - 1
    OBVIOUS
  <1> QED BY <1>1, Tailed

-----------------------------------------------------------------------------
(* What the queues keep *)

Api == [op : {"set", "open"}, lock : Locks]

LEMMA Typed ==
  ASSUME LockTypeOK
  PROVE  /\ lockQ \in Seq(LockMsgs) /\ locApiQ \in Seq(Api) /\ waiting \in Seq(Configs)
         /\ waiting \in Seq(LockMsgs) /\ lock \in Locks /\ afw \in 0 .. MaxCalls
         /\ supportNfw \in BOOLEAN
         /\ \A l \in Locks : Set(l) \in Api /\ Set(l).op = "set" /\ Set(l).lock = l
         /\ Open \in Api /\ Open.op = "open" /\ EngineIsUp \in LockMsgs /\ EngineIsUp.k = "engineUp"
         /\ Promised(supportNfw, afw, lock) \in Locks
  <1>1. waiting \in Seq(LockMsgs)
    BY MsgTyped DEF LockTypeOK
  <1>2. \A l \in Locks : Set(l) \in Api /\ Set(l).op = "set" /\ Set(l).lock = l
    BY DEF Set, Api
  <1>3. Open \in Api /\ Open.op = "open"
    BY LockBits DEF Open, Api, Locks
  <1>4. EngineIsUp \in LockMsgs /\ EngineIsUp.k = "engineUp"
    BY MsgTyped DEF EngineIsUp
  <1>5. Promised(supportNfw, afw, lock) \in Locks
    BY LockBits DEF LockTypeOK
  <1> QED BY <1>1, <1>2, <1>3, <1>4, <1>5 DEF LockTypeOK, Api

\* A lock that is sent is on its way.
LEMMA Sent ==
  ASSUME LockTypeOK, NEW l \in Locks, Send(l)
  PROVE  /\ locApiQ' # <<>> /\ locApiQ'[Len(locApiQ')] = Set(l)
         /\ Opens => Opens'
         /\ up' = up /\ modemLock' = modemLock
  <1>1. Set(l) \in Api /\ locApiQ \in Seq(Api)
    BY Typed
  <1>2. locApiQ' = Append(locApiQ, Set(l)) /\ up' = up /\ modemLock' = modemLock
    BY DEF Send
  <1>3. /\ Len(locApiQ') = Len(locApiQ) + 1 /\ Len(locApiQ) \in Nat
        /\ \A i \in 1 .. Len(locApiQ) : locApiQ'[i] = locApiQ[i]
        /\ locApiQ'[Len(locApiQ) + 1] = Set(l)
    BY <1>1, <1>2, Appended
  <1>4. locApiQ' # <<>>
    BY <1>1, <1>2, <1>3
  <1>5. Opens => Opens'
    BY <1>3 DEF Opens
  <1> QED BY <1>2, <1>3, <1>4, <1>5

LEMMA Posted ==
  ASSUME LockTypeOK, NEW m \in LockMsgs, Post(m)
  PROVE  (Announced => Announced') /\ (m.k = "engineUp" => Announced')
  <1>1. lockQ \in Seq(LockMsgs) /\ lockQ' = Append(lockQ, m)
    BY Typed DEF Post
  <1>2. /\ Len(lockQ') = Len(lockQ) + 1 /\ Len(lockQ) \in Nat
        /\ \A i \in 1 .. Len(lockQ) : lockQ'[i] = lockQ[i]
        /\ lockQ'[Len(lockQ) + 1] = m
    BY <1>1, Appended
  <1> QED BY <1>2 DEF Announced

LEMMA TakenOut ==
  ASSUME LockTypeOK, lockQ # <<>>, lockQ' = Tail(lockQ), lockQ[1].k # "engineUp", Announced
  PROVE  Announced'
  <1>1. lockQ \in Seq(LockMsgs)
    BY Typed
  <1>2. /\ Len(lockQ') = Len(lockQ) - 1 /\ Len(lockQ) \in Nat \ {0}
        /\ \A i \in 1 .. Len(lockQ) - 1 : lockQ'[i] = lockQ[i + 1]
    BY <1>1, Tailed
  <1>3. PICK i \in 1 .. Len(lockQ) : lockQ[i].k = "engineUp"
    BY DEF Announced
  <1>4. i # 1 /\ i - 1 \in 1 .. Len(lockQ') /\ lockQ'[i - 1] = lockQ[i]
    BY <1>2, <1>3
  <1> QED BY <1>3, <1>4 DEF Announced

-----------------------------------------------------------------------------
(* Every step keeps the invariant *)

LEMMA LockInvInit == LockInit => LockInv
  <1> SUFFICES ASSUME LockInit PROVE LockInv
    OBVIOUS
  <1>1. LockTypeOK
    BY LockTypedAtFirst
  <1>2. "MO" \in lock /\ afw = 0 /\ supportNfw = TRUE /\ xtraLock = Unknown
    BY GpsLockAssumption DEF LockInit
  <1>3. Opens
    <2>1. locApiQ = <<Open>> /\ Open.op = "open"
      BY DEF LockInit, Open
    <2>2. Len(locApiQ) = 1 /\ locApiQ[1].op = "open"
      BY <2>1
    <2> QED BY <2>2 DEF Opens
  <1> QED BY <1>1, <1>2, <1>3 DEF LockInv, LockOfSwitch, XtraTold, DownReopens, LockOnItsWay

\* The calls of the framework only post.
LEMMA CallsKeep ==
  ASSUME LockInv, Calls, NEW m \in LockMsgs, Post(m), LockTypeOK'
  PROVE  LockInv'
  <1>1. UNCHANGED <<waiting, known, decisionVars, modemVars, lockResets>>
    BY DEF Calls
  <1>2. supportNfw' = supportNfw /\ lock' = lock /\ afw' = afw /\ xtraLock' = xtraLock
        /\ locApiQ' = locApiQ /\ up' = up /\ modemLock' = modemLock /\ overtaken' = overtaken
    BY <1>1 DEF decisionVars, modemVars
  <1>3. Announced => Announced'
    BY <1>2, Posted DEF LockInv
  <1>4. LockOfSwitch' /\ XtraTold' /\ DownReopens' /\ (Opens <=> Opens')
    BY <1>2 DEF LockInv, LockOfSwitch, XtraTold, DownReopens, Opens
  <1>5. Settled(Promised(supportNfw, afw, lock)) <=> Settled(Promised(supportNfw, afw, lock))'
    BY <1>2 DEF Settled, Promised
  <1> QED BY <1>2, <1>3, <1>4, <1>5 DEF LockInv, LockOnItsWay

\* A message of the adapter that sends the lock it decides on, or changes
\* nothing the modem has to know.
LEMMA DecisionKeeps ==
  ASSUME LockInv, LockTypeOK', lockQ # <<>>, lockQ[1].k # "engineUp", Received,
         LockOfSwitch', XtraTold',
         \/ /\ Promised(supportNfw', afw', lock') = Promised(supportNfw, afw, lock)
            /\ UNCHANGED <<modemVars, overtaken>>
         \/ Send(Promised(supportNfw', afw', lock'))
  PROVE  LockInv'
  <1>1. Announced => Announced'
    BY TakenOut DEF LockInv, Received
  <1>2. CASE /\ Promised(supportNfw', afw', lock') = Promised(supportNfw, afw, lock)
             /\ UNCHANGED <<modemVars, overtaken>>
    <2>1. locApiQ' = locApiQ /\ up' = up /\ modemLock' = modemLock /\ overtaken' = overtaken
      BY <1>2 DEF modemVars
    <2>2. DownReopens' /\ (Opens <=> Opens')
      BY <2>1 DEF LockInv, DownReopens, Opens
    <2>3. Settled(Promised(supportNfw, afw, lock)) => Settled(Promised(supportNfw, afw, lock))'
      BY <2>1, <1>2 DEF Settled
    <2> QED BY <1>1, <2>1, <2>2, <2>3 DEF LockInv, LockOnItsWay
  <1>3. CASE Send(Promised(supportNfw', afw', lock'))
    <2> DEFINE l == Promised(supportNfw', afw', lock')
    <2>1. l \in Locks
      BY LockBits DEF LockTypeOK
    <2>2. /\ locApiQ' # <<>> /\ locApiQ'[Len(locApiQ')] = Set(l)
          /\ (Opens => Opens') /\ up' = up
      <3> HIDE DEF l
      <3> QED BY <1>3, <2>1, Sent DEF LockInv, l
    <2>3. DownReopens' /\ Settled(Promised(supportNfw, afw, lock))'
      BY <2>2 DEF LockInv, DownReopens, Settled
    <2> QED BY <1>1, <2>3 DEF LockInv, LockOnItsWay
  <1> QED BY <1>2, <1>3

LEMMA LockInvStep ==
  ASSUME LockInv, [LockNext]_lockVars
  PROVE  LockInv'
  <1>0. LockTypeOK /\ LockTypeOK'
    BY LockTypeStep DEF LockInv
  <1>1. /\ lockQ \in Seq(LockMsgs) /\ locApiQ \in Seq(Api) /\ lock \in Locks
        /\ afw \in 0 .. MaxCalls /\ supportNfw \in BOOLEAN
    BY <1>0, Typed
  <1>2. ASSUME NEW k, Receives(k)
        PROVE  /\ lockQ # <<>> /\ Head(lockQ) = lockQ[1] /\ lockQ[1].k = k
               /\ lockQ[1] \in LockMsgs
    BY <1>1, <1>2, Tailed DEF Receives
  <1>3. CASE UNCHANGED lockVars
    <2>1. /\ supportNfw' = supportNfw /\ lock' = lock /\ afw' = afw /\ xtraLock' = xtraLock
          /\ locApiQ' = locApiQ /\ up' = up /\ modemLock' = modemLock /\ lockQ' = lockQ
          /\ overtaken' = overtaken
      BY <1>3 DEF lockVars, decisionVars, modemVars
    <2>2. LockOfSwitch' /\ XtraTold' /\ DownReopens'
      BY <2>1 DEF LockInv, LockOfSwitch, XtraTold, DownReopens, Opens
    <2>3. LockOnItsWay'
      BY <2>1 DEF LockInv, LockOnItsWay, Announced, Opens, Settled, Promised
    <2> QED BY <1>0, <2>2, <2>3 DEF LockInv
  <1>4. CASE LocAPIEnable
    <2>1. Switch("enable", calls + 1) \in LockMsgs
      BY <1>0, <1>4, MsgTyped, GpsLockAssumption DEF LocAPIEnable, Calls, LockTypeOK
    <2> QED BY <1>0, <1>4, <2>1, CallsKeep DEF LocAPIEnable
  <1>5. CASE LocAPIDisable
    <2>1. Switch("disable", session) \in LockMsgs
      BY <1>0, <1>5, MsgTyped, GpsLockAssumption DEF LocAPIDisable, LockTypeOK
    <2> QED BY <1>0, <1>5, <2>1, CallsKeep DEF LocAPIDisable
  <1>6. CASE LocAPIGnssUpdateConfig
    <2>1. PICK l \in (SimLocks \cup {NoLock}) \ {config} :
            Calls /\ IF l = NoLock THEN UNCHANGED lockQ ELSE Post(SetGpsLock(l))
      BY <1>6 DEF LocAPIGnssUpdateConfig
    <2>2. CASE l = NoLock
      <3>1. /\ supportNfw' = supportNfw /\ lock' = lock /\ afw' = afw /\ xtraLock' = xtraLock
            /\ locApiQ' = locApiQ /\ up' = up /\ modemLock' = modemLock /\ lockQ' = lockQ
            /\ overtaken' = overtaken
        BY <2>1, <2>2 DEF Calls, decisionVars, modemVars
      <3>2. LockOfSwitch' /\ XtraTold' /\ DownReopens'
        BY <3>1 DEF LockInv, LockOfSwitch, XtraTold, DownReopens, Opens
      <3>3. LockOnItsWay'
        BY <3>1 DEF LockInv, LockOnItsWay, Announced, Opens, Settled, Promised
      <3> QED BY <1>0, <3>2, <3>3 DEF LockInv
    <2>3. CASE l # NoLock
      <3>1. SetGpsLock(l) \in LockMsgs
        BY <2>3, GpsLockAssumption, MsgTyped
      <3> QED BY <1>0, <2>1, <2>3, <3>1, CallsKeep
    <2> QED BY <2>2, <2>3
  <1>7. CASE NfwControlCommand
    <2>1. PICK on \in BOOLEAN : Calls /\ Post(Nfw(on))
      BY <1>7 DEF NfwControlCommand
    <2> QED BY <1>0, <2>1, MsgTyped, CallsKeep
  <1>8. CASE MsgEnableGnss
    <2> DEFINE l == IF supportNfw THEN lock \ {"MO"} ELSE {}
    <2>1. Receives("enable") /\ Received /\ supportNfw' = supportNfw
      BY <1>8 DEF MsgEnableGnss, decisionVars
    <2>2. Head(lockQ).id \in 1 .. MaxCalls /\ lockQ # <<>> /\ lockQ[1].k = "enable"
      BY <1>2, <2>1, ByKind
    <2>3. CASE afw > 0
      <3>1. UNCHANGED decisionVars /\ UNCHANGED modemVars
        BY <1>8, <2>3 DEF MsgEnableGnss
      <3>2. LockOfSwitch' /\ XtraTold'
        BY <3>1 DEF LockInv, LockOfSwitch, XtraTold, decisionVars
      <3>3. Promised(supportNfw', afw', lock') = Promised(supportNfw, afw, lock) /\ overtaken' = overtaken
        BY <3>1 DEF decisionVars
      <3> QED BY <1>0, <2>1, <2>2, <3>1, <3>2, <3>3, DecisionKeeps
    <2>4. CASE ~ afw > 0
      <3>1. /\ afw' = Head(lockQ).id /\ lock' = (IF supportNfw THEN l ELSE lock)
            /\ Send(l) /\ Tell(l)
        BY <1>8, <2>4 DEF MsgEnableGnss
      <3>2. afw' # 0
        BY <2>2, <3>1
      <3>3. LockOfSwitch'
        BY <2>1, <3>1, <3>2 DEF LockInv, LockOfSwitch
      <3>4. XtraTold'
        BY <3>1, <3>2 DEF XtraTold, Tell
      <3>5. Promised(supportNfw', afw', lock') = l
        BY <2>1, <3>1, <3>2 DEF Promised
      <3>6. Send(Promised(supportNfw', afw', lock'))
        BY <3>1, <3>5
      <3> QED BY <1>0, <2>1, <2>2, <3>3, <3>4, <3>6, DecisionKeeps
    <2> QED BY <2>3, <2>4
  <1>9. CASE MsgDisableGnss
    <2> DEFINE l == IF supportNfw THEN lock \cup {"MO"} ELSE lock
    <2>1. Receives("disable") /\ Received /\ supportNfw' = supportNfw
      BY <1>9 DEF MsgDisableGnss, decisionVars
    <2>2. lockQ # <<>> /\ lockQ[1].k = "disable"
      BY <1>2, <2>1
    <2>3. CASE afw # Head(lockQ).id
      <3>1. UNCHANGED decisionVars /\ UNCHANGED modemVars
        BY <1>9, <2>3 DEF MsgDisableGnss
      <3>2. LockOfSwitch' /\ XtraTold'
        BY <3>1 DEF LockInv, LockOfSwitch, XtraTold, decisionVars
      <3>3. Promised(supportNfw', afw', lock') = Promised(supportNfw, afw, lock) /\ overtaken' = overtaken
        BY <3>1 DEF decisionVars
      <3> QED BY <1>0, <2>1, <2>2, <3>1, <3>2, <3>3, DecisionKeeps
    <2>4. CASE afw = Head(lockQ).id
      <3>1. afw' = 0 /\ lock' = l /\ Send(l) /\ Tell(l)
        BY <1>9, <2>4 DEF MsgDisableGnss
      <3>2. "MO" \in l
        BY DEF LockInv, LockOfSwitch
      <3>3. LockOfSwitch' /\ XtraTold'
        BY <3>1, <3>2 DEF LockOfSwitch, XtraTold, Tell
      <3>4. Promised(supportNfw', afw', lock') = l
        BY <3>1 DEF Promised
      <3>5. Send(Promised(supportNfw', afw', lock'))
        BY <3>1, <3>4
      <3> QED BY <1>0, <2>1, <2>2, <3>3, <3>5, DecisionKeeps
    <2> QED BY <2>3, <2>4
  <1>10. CASE MsgGnssUpdateConfig
    <2> DEFINE l == Head(lockQ).lock \cup {"MO"}
    <2>1. /\ Receives("config") /\ Received /\ lock' = l /\ supportNfw' = FALSE
          /\ afw' = afw /\ xtraLock' = xtraLock
          /\ IF afw # 0 /\ ~ supportNfw
               THEN UNCHANGED <<modemVars, overtaken>>
               ELSE Send(IF afw # 0 THEN {} ELSE l)
      BY <1>10 DEF MsgGnssUpdateConfig
    <2>2. lockQ # <<>> /\ lockQ[1].k = "config"
      BY <1>2, <2>1
    <2>3. LockOfSwitch' /\ XtraTold'
      BY <2>1 DEF LockInv, LockOfSwitch, XtraTold
    <2>4. CASE afw # 0 /\ ~ supportNfw
      <3>1. UNCHANGED <<modemVars, overtaken>>
        BY <2>1, <2>4
      <3>2. Promised(supportNfw', afw', lock') = Promised(supportNfw, afw, lock)
        BY <2>1, <2>4 DEF Promised
      <3> QED BY <1>0, <2>1, <2>2, <2>3, <3>1, <3>2, DecisionKeeps
    <2>5. CASE ~ (afw # 0 /\ ~ supportNfw)
      <3>1. Send(IF afw # 0 THEN {} ELSE l)
        BY <2>1, <2>5
      <3>2. Promised(supportNfw', afw', lock') = IF afw # 0 THEN {} ELSE l
        BY <2>1 DEF Promised
      <3>3. Send(Promised(supportNfw', afw', lock'))
        BY <3>1, <3>2
      <3> QED BY <1>0, <2>1, <2>2, <2>3, <3>3, DecisionKeeps
    <2> QED BY <2>4, <2>5
  <1>11. CASE KeepConfig
    <2>1. /\ Receives("config") /\ Received /\ UNCHANGED decisionVars /\ UNCHANGED modemVars
      BY <1>11 DEF KeepConfig
    <2>2. lockQ # <<>> /\ lockQ[1].k = "config"
      BY <1>2, <2>1
    <2>3. LockOfSwitch' /\ XtraTold' /\ Promised(supportNfw', afw', lock') = Promised(supportNfw, afw, lock)
      BY <2>1 DEF LockInv, LockOfSwitch, XtraTold, decisionVars
    <2> QED BY <1>0, <2>1, <2>2, <2>3, DecisionKeeps DEF decisionVars
  <1>12. CASE MsgControlNfwLocationAccess
    <2> DEFINE l == IF Head(lockQ).on THEN lock \ {"NI"} ELSE lock \cup {"NI"}
    <2>1. /\ Receives("nfw") /\ Received /\ lock' = l /\ Send(l)
          /\ afw' = afw /\ supportNfw' = supportNfw /\ xtraLock' = xtraLock
          /\ overtaken' = (~ supportNfw /\ afw # 0)
      BY <1>12 DEF MsgControlNfwLocationAccess
    <2>2. lockQ # <<>> /\ lockQ[1].k = "nfw"
      BY <1>2, <2>1
    <2>3. "MO" \in l <=> "MO" \in lock
      OBVIOUS
    <2>4. LockOfSwitch' /\ XtraTold'
      <3> HIDE DEF l
      <3> QED BY <2>1, <2>3 DEF LockInv, LockOfSwitch, XtraTold
    <2>5. CASE supportNfw \/ afw = 0
      <3>1. Promised(supportNfw', afw', lock') = l
        BY <2>1, <2>5 DEF Promised
      <3>2. Send(Promised(supportNfw', afw', lock'))
        BY <2>1, <3>1
      <3> QED BY <1>0, <2>1, <2>2, <2>4, <3>2, DecisionKeeps
    <2>6. CASE ~ supportNfw /\ afw # 0
      <3>1. LockOnItsWay'
        BY <2>1, <2>6 DEF LockOnItsWay
      <3>2. l \in Locks
        BY <1>0, <1>1, LockBits
      <3>3. (Opens => Opens') /\ up' = up
        <4> HIDE DEF l
        <4> QED BY <1>0, <2>1, <3>2, Sent
      <3>4. DownReopens'
        BY <3>3 DEF LockInv, DownReopens
      <3> QED BY <1>0, <2>4, <3>1, <3>4 DEF LockInv
    <2> QED BY <2>5, <2>6
  <1>13. CASE MsgHandleEngineUpEvent
    <2> DEFINE l == Promised(supportNfw, afw, lock)
    <2>1. /\ Receives("engineUp") /\ Send(l) /\ lockQ' = Tail(lockQ) \o waiting
          /\ UNCHANGED <<supportNfw, afw, lock, xtraLock>>
      BY <1>13 DEF MsgHandleEngineUpEvent
    <2>2. supportNfw' = supportNfw /\ afw' = afw /\ lock' = lock /\ xtraLock' = xtraLock
      BY <2>1
    <2>3. LockOfSwitch' /\ XtraTold'
      BY <2>2 DEF LockInv, LockOfSwitch, XtraTold
    <2>4. /\ locApiQ' # <<>> /\ locApiQ'[Len(locApiQ')] = Set(l)
          /\ (Opens => Opens') /\ up' = up
      <3>1. l \in Locks
        BY <1>0, Typed
      <3> HIDE DEF l
      <3> QED BY <1>0, <2>1, <3>1, Sent
    <2>5. DownReopens' /\ Settled(Promised(supportNfw, afw, lock))'
      BY <2>2, <2>4 DEF LockInv, DownReopens, Settled, Promised
    <2> QED BY <1>0, <2>3, <2>5 DEF LockInv, LockOnItsWay
  <1>14. ASSUME locApiQ # <<>>, locApiQ' = Tail(locApiQ)
         PROVE  /\ Len(locApiQ') = Len(locApiQ) - 1 /\ Len(locApiQ) \in Nat \ {0}
                /\ Head(locApiQ) = locApiQ[1]
                /\ \A i \in 1 .. Len(locApiQ) - 1 : locApiQ'[i] = locApiQ[i + 1]
                /\ locApiQ' = <<>> <=> Len(locApiQ) = 1
                /\ locApiQ[1].op = "set" => (Opens => Opens')
    <2>1. /\ Len(locApiQ') = Len(locApiQ) - 1 /\ Len(locApiQ) \in Nat \ {0}
          /\ Head(locApiQ) = locApiQ[1] /\ locApiQ' \in Seq(Api)
          /\ \A i \in 1 .. Len(locApiQ) - 1 : locApiQ'[i] = locApiQ[i + 1]
      BY <1>1, <1>14, Tailed
    <2>2. ASSUME locApiQ[1].op = "set", Opens PROVE Opens'
      <3>1. PICK i \in 1 .. Len(locApiQ) : locApiQ[i].op = "open"
        BY <2>2 DEF Opens
      <3>2. i - 1 \in 1 .. Len(locApiQ') /\ locApiQ'[i - 1].op = "open"
        BY <2>1, <2>2, <3>1
      <3> QED BY <3>2 DEF Opens
    <2> QED BY <2>1, <2>2
  <1>15. CASE SetGpsLockSync
    <2>1. /\ locApiQ # <<>> /\ Head(locApiQ).op = "set" /\ locApiQ' = Tail(locApiQ)
          /\ modemLock' = IF up THEN Head(locApiQ).lock ELSE modemLock
          /\ lockQ' = lockQ /\ UNCHANGED decisionVars /\ up' = up
      BY <1>15 DEF SetGpsLockSync
    <2>2. /\ supportNfw' = supportNfw /\ afw' = afw /\ lock' = lock /\ xtraLock' = xtraLock
          /\ overtaken' = overtaken
      BY <2>1 DEF decisionVars
    <2>3. Opens => Opens'
      BY <1>14, <2>1
    <2>4. LockOfSwitch' /\ XtraTold' /\ DownReopens' /\ (Announced => Announced')
      BY <2>1, <2>2, <2>3 DEF LockInv, LockOfSwitch, XtraTold, DownReopens, Announced
    <2>5. ASSUME ~ Opens, Settled(Promised(supportNfw, afw, lock))
          PROVE  Settled(Promised(supportNfw, afw, lock))'
      <3> DEFINE l == Promised(supportNfw, afw, lock)
      <3>0. l \in Locks /\ l' = l /\ Set(l).lock = l
        BY <1>0, <2>2, Typed DEF Promised
      <3>1. up
        BY <2>5 DEF LockInv, DownReopens
      <3>2. locApiQ[Len(locApiQ)] = Set(l)
        BY <2>1, <2>5 DEF Settled
      <3>3. CASE Len(locApiQ) = 1
        <4>1. locApiQ' = <<>> /\ modemLock' = locApiQ[1].lock
          BY <1>14, <2>1, <3>1, <3>3
        <4>2. modemLock' = l
          BY <3>0, <3>2, <3>3, <4>1
        <4> QED BY <3>0, <4>1, <4>2 DEF Settled
      <3>4. CASE Len(locApiQ) # 1
        <4>1. locApiQ' # <<>> /\ Len(locApiQ') \in 1 .. Len(locApiQ) - 1
          BY <1>14, <2>1, <3>4
        <4>2. locApiQ'[Len(locApiQ')] = Set(l)
          BY <1>14, <2>1, <3>2, <4>1
        <4> QED BY <3>0, <4>1, <4>2 DEF Settled, Set
      <3> QED BY <3>3, <3>4
    <2> QED BY <1>0, <2>2, <2>3, <2>4, <2>5 DEF LockInv, LockOnItsWay
  <1>16. CASE OpenModem
    <2>1. /\ locApiQ # <<>> /\ Head(locApiQ).op = "open" /\ locApiQ' = Tail(locApiQ)
          /\ up' = TRUE /\ Post(EngineIsUp) /\ UNCHANGED decisionVars
      BY <1>16 DEF OpenModem
    <2>2. /\ supportNfw' = supportNfw /\ afw' = afw /\ lock' = lock /\ xtraLock' = xtraLock
          /\ overtaken' = overtaken
      BY <2>1 DEF decisionVars
    <2>3. EngineIsUp \in LockMsgs /\ EngineIsUp.k = "engineUp"
      BY <1>0, Typed
    <2>4. Announced'
      BY <1>0, <2>1, <2>2, <2>3, Posted DEF LockInv
    <2> QED
      BY <1>0, <2>1, <2>2, <2>4
      DEF LockInv, LockOfSwitch, XtraTold, DownReopens, LockOnItsWay
  <1>17. CASE HandleEngineDownEvent
    <2>1. locApiQ' = Append(locApiQ, Open) /\ lockQ' = lockQ /\ UNCHANGED decisionVars
      BY <1>17 DEF HandleEngineDownEvent
    <2>2. /\ supportNfw' = supportNfw /\ afw' = afw /\ lock' = lock /\ xtraLock' = xtraLock
          /\ overtaken' = overtaken
      BY <2>1 DEF decisionVars
    <2>3. Open \in Api /\ Open.op = "open"
      BY <1>0, Typed
    <2>4. Len(locApiQ') = Len(locApiQ) + 1 /\ Len(locApiQ) \in Nat /\ locApiQ'[Len(locApiQ) + 1] = Open
      BY <1>1, <2>1, <2>3, Appended
    <2>5. Opens'
      BY <2>3, <2>4 DEF Opens
    <2> QED
      BY <1>0, <2>1, <2>2, <2>5
      DEF LockInv, LockOfSwitch, XtraTold, DownReopens, LockOnItsWay
  <1> QED
    BY <1>3, <1>4, <1>5, <1>6, <1>7, <1>8, <1>9, <1>10, <1>11, <1>12, <1>13, <1>15, <1>16, <1>17
    DEF LockNext, LockClient, LockAdapter, LockLocApi

LEMMA LockInvAtRest == LockInv => LockFollows
  <1> SUFFICES ASSUME LockInv, AtRest
               PROVE  /\ overtaken \/ modemLock = Promised(supportNfw, afw, lock)
                      /\ xtraLock = Unknown \/ ("MO" \in xtraLock <=> afw = 0)
    BY DEF LockFollows
  <1>1. lockQ = <<>> /\ locApiQ = <<>>
    BY DEF AtRest
  <1>2. ~ Announced /\ ~ Opens
    BY <1>1 DEF Announced, Opens
  <1> QED BY <1>1, <1>2 DEF LockInv, XtraTold, LockOnItsWay, Settled

\* When all queues are empty the modem has the lock that the switch, the SIM
\* card and the control of network access make together (enableCommand,
\* disableCommand, gnssUpdateConfigCommand, nfwControlCommand and setConfig),
\* or the one of a control of network access that a setGpsLock overtook.
THEOREM LockIsFollowed == LockSpec => []LockFollows
  <1>1. LockInit => LockInv
    BY LockInvInit
  <1>2. LockInv /\ [LockNext]_lockVars => LockInv'
    BY LockInvStep
  <1>3. LockInv => LockFollows
    BY LockInvAtRest
  <1> QED BY <1>1, <1>2, <1>3, PTL DEF LockSpec

-----------------------------------------------------------------------------
(* The invariant of the switch *)

In(q, m)   == \E i \in 1 .. Len(q) : q[i] = m
On(q, id)  == In(q, Switch("enable", id))
Off(q, id) == In(q, Switch("disable", id))

\* The commands of the switch are queued in the order of their sessions.
Precedes(m, n) == m.id < n.id \/ (m.id = n.id /\ m.k = "enable" /\ n.k = "disable")
Ordered ==
  \A i, j \in 1 .. Len(lockQ) :
    i < j /\ lockQ[i] \in Switches /\ lockQ[j] \in Switches => Precedes(lockQ[i], lockQ[j])

\* Those that wait are of the session that has location on or later ones.
Recent ==
  /\ session <= calls /\ afw <= session
  /\ \A id \in 1 .. MaxCalls : On(lockQ, id) \/ Off(lockQ, id) => afw <= id /\ id <= session

\* A switch that is on was heard, or will be, and nothing undoes it.
OnIsServed ==
  enabled => session > 0 /\ ~ Off(lockQ, session) /\ (afw = session \/ On(lockQ, session))

\* All that was or will be switched on is switched off, but for the session of
\* a switch that is on.
OnEnds ==
  /\ afw # 0 => Off(lockQ, afw) \/ (enabled /\ session = afw)
  /\ \A id \in 1 .. MaxCalls :
       On(lockQ, id) => id # afw /\ (Off(lockQ, id) \/ (enabled /\ id = session))

OffHasOn == \A id \in 1 .. MaxCalls : Off(lockQ, id) => id = afw \/ On(lockQ, id)

\* The requests of the session are its commands that wait.
Waiting(on, off) ==
  CASE on /\ off   -> <<"enable", "disable">>
    [] on /\ ~ off -> <<"enable">>
    [] ~ on /\ off -> <<"disable">>
    [] OTHER       -> <<>>
RequestsWait == requests = Waiting(On(lockQ, session), Off(lockQ, session))

SwitchInv ==
  /\ LockTypeOK
  /\ Ordered /\ Recent /\ OnIsServed /\ OnEnds /\ OffHasOn /\ RequestsWait

-----------------------------------------------------------------------------
LEMMA SwitchParts ==
  /\ \A k, id : Switch(k, id).k = k /\ Switch(k, id).id = id
  /\ \A m \in Switches : /\ m = Switch(m.k, m.id) /\ m.id \in 1 .. MaxCalls
                         /\ m.k \in {"enable", "disable"} /\ m \in LockMsgs
  BY DEF Switch, Switches, LockMsgs

LEMMA PostedSwitch ==
  ASSUME LockTypeOK, NEW m \in LockMsgs, Post(m)
  PROVE  /\ \A x : In(lockQ', x) <=> In(lockQ, x) \/ x = m
         /\ Ordered /\ m \notin Switches => Ordered'
         /\ Ordered /\ (\A x \in Switches : In(lockQ, x) => Precedes(x, m)) => Ordered'
  <1>1. lockQ \in Seq(LockMsgs) /\ lockQ' = Append(lockQ, m)
    BY Typed DEF Post
  <1>2. /\ Len(lockQ') = Len(lockQ) + 1 /\ Len(lockQ) \in Nat
        /\ \A i \in 1 .. Len(lockQ) : lockQ'[i] = lockQ[i]
        /\ lockQ'[Len(lockQ) + 1] = m
    BY <1>1, Appended
  <1>3. ASSUME NEW x PROVE In(lockQ', x) <=> In(lockQ, x) \/ x = m
    <2>1. ASSUME In(lockQ, x) PROVE In(lockQ', x)
      BY <1>2, <2>1 DEF In
    <2>2. ASSUME x = m PROVE In(lockQ', x)
      BY <1>2, <2>2 DEF In
    <2>3. ASSUME In(lockQ', x) PROVE In(lockQ, x) \/ x = m
      <3>1. PICK i \in 1 .. Len(lockQ') : lockQ'[i] = x
        BY <2>3 DEF In
      <3>2. i \in 1 .. Len(lockQ) \/ i = Len(lockQ) + 1
        BY <1>2
      <3> QED BY <1>2, <3>1, <3>2 DEF In
    <2> QED BY <2>1, <2>2, <2>3
  <1>4. ASSUME Ordered, m \notin Switches \/ \A x \in Switches : In(lockQ, x) => Precedes(x, m)
        PROVE  Ordered'
    <2> SUFFICES ASSUME NEW i \in 1 .. Len(lockQ'), NEW j \in 1 .. Len(lockQ'), i < j,
                        lockQ'[i] \in Switches, lockQ'[j] \in Switches
                 PROVE  Precedes(lockQ'[i], lockQ'[j])
      BY DEF Ordered, Switches, Precedes
    <2>1. i \in 1 .. Len(lockQ) /\ lockQ'[i] = lockQ[i]
      BY <1>2
    <2>2. CASE j = Len(lockQ) + 1
      BY <1>2, <1>4, <2>1, <2>2 DEF In
    <2>3. CASE j \in 1 .. Len(lockQ)
      <3>1. lockQ'[j] = lockQ[j]
        BY <1>2, <2>3
      <3> QED BY <1>4, <2>1, <2>3, <3>1 DEF Ordered
    <2> QED BY <1>2, <2>2, <2>3
  <1> QED BY <1>3, <1>4

LEMMA TakenSwitch ==
  ASSUME LockTypeOK, Ordered, lockQ # <<>>, lockQ' = Tail(lockQ)
  PROVE  /\ In(lockQ, lockQ[1])
         /\ \A x : x # lockQ[1] => (In(lockQ', x) <=> In(lockQ, x))
         /\ Ordered'
         /\ lockQ[1] \in Switches =>
              /\ ~ In(lockQ', lockQ[1])
              /\ \A x \in Switches : In(lockQ', x) => Precedes(lockQ[1], x)
  <1>1. lockQ \in Seq(LockMsgs)
    BY Typed
  <1>2. /\ Len(lockQ') = Len(lockQ) - 1 /\ Len(lockQ) \in Nat \ {0}
        /\ \A i \in 1 .. Len(lockQ) - 1 : lockQ'[i] = lockQ[i + 1]
    BY <1>1, Tailed
  <1>3. ASSUME NEW x, In(lockQ', x)
        PROVE  In(lockQ, x) /\ (x \in Switches /\ lockQ[1] \in Switches => Precedes(lockQ[1], x))
    <2>1. PICK i \in 1 .. Len(lockQ') : lockQ'[i] = x
      BY <1>3 DEF In
    <2>2. i + 1 \in 1 .. Len(lockQ) /\ lockQ[i + 1] = x /\ 1 < i + 1 /\ 1 \in 1 .. Len(lockQ)
      BY <1>2, <2>1
    <2> QED BY <2>2 DEF In, Ordered
  <1>4. ASSUME NEW x, x # lockQ[1], In(lockQ, x) PROVE In(lockQ', x)
    <2>1. PICK i \in 1 .. Len(lockQ) : lockQ[i] = x
      BY <1>4 DEF In
    <2>2. i - 1 \in 1 .. Len(lockQ') /\ lockQ'[i - 1] = x
      BY <1>2, <1>4, <2>1
    <2> QED BY <2>2 DEF In
  <1>5. Ordered'
    <2> SUFFICES ASSUME NEW i \in 1 .. Len(lockQ'), NEW j \in 1 .. Len(lockQ'), i < j,
                        lockQ'[i] \in Switches, lockQ'[j] \in Switches
                 PROVE  Precedes(lockQ'[i], lockQ'[j])
      BY DEF Ordered, Switches, Precedes
    <2>1. /\ i + 1 \in 1 .. Len(lockQ) /\ lockQ'[i] = lockQ[i + 1]
          /\ j + 1 \in 1 .. Len(lockQ) /\ lockQ'[j] = lockQ[j + 1] /\ i + 1 < j + 1
      BY <1>2
    <2> QED BY <2>1 DEF Ordered
  <1>6. ASSUME lockQ[1] \in Switches PROVE ~ Precedes(lockQ[1], lockQ[1])
    <2>1. lockQ[1].id \in 1 .. MaxCalls
      BY <1>6, SwitchParts
    <2> QED BY <2>1, GpsLockAssumption DEF Precedes
  <1>7. In(lockQ, lockQ[1])
    BY <1>2 DEF In
  <1>8. \A x : x # lockQ[1] => (In(lockQ', x) <=> In(lockQ, x))
    BY <1>3, <1>4
  <1>9. ASSUME lockQ[1] \in Switches
        PROVE  /\ ~ In(lockQ', lockQ[1])
               /\ \A x \in Switches : In(lockQ', x) => Precedes(lockQ[1], x)
    BY <1>3, <1>6, <1>9
  <1> QED BY <1>5, <1>7, <1>8, <1>9

\* What keeps the commands of the switch, and what the client and the adapter
\* know of it, keeps the invariant.
LEMMA SwitchKept ==
  ASSUME SwitchInv, LockTypeOK', Ordered',
         \A x : x.k \in {"enable", "disable"} => (In(lockQ', x) <=> In(lockQ, x)),
         enabled' = enabled, session' = session, requests' = requests, afw' = afw,
         calls' = calls \/ calls' = calls + 1
  PROVE  SwitchInv'
  <1>1. \A id : (On(lockQ', id) <=> On(lockQ, id)) /\ (Off(lockQ', id) <=> Off(lockQ, id))
    BY SwitchParts DEF On, Off
  <1>2. Recent'
    <2>1. calls \in Nat /\ session \in Nat /\ afw \in Nat
      BY GpsLockAssumption DEF SwitchInv, LockTypeOK
    <2>2. session' <= calls' /\ afw' <= session'
      BY <2>1 DEF SwitchInv, Recent
    <2> QED BY <1>1, <2>2 DEF SwitchInv, Recent
  <1>3. OnIsServed'
    BY <1>1 DEF SwitchInv, OnIsServed
  <1>4. OnEnds'
    BY <1>1 DEF SwitchInv, OnEnds
  <1>5. OffHasOn'
    BY <1>1 DEF SwitchInv, OffHasOn
  <1>6. RequestsWait'
    BY <1>1 DEF SwitchInv, RequestsWait, Waiting
  <1> QED BY <1>2, <1>3, <1>4, <1>5, <1>6 DEF SwitchInv

\* A command of the switch leaves the queue: those behind it are of later
\* sessions, or disable its own.
LEMMA EnableTaken ==
  ASSUME SwitchInv, Receives("enable"), Received, NEW id, id = lockQ[1].id
  PROVE  /\ id \in 1 .. MaxCalls /\ On(lockQ, id) /\ Ordered' /\ Head(lockQ).id = id
         /\ \A j : On(lockQ', j) <=> On(lockQ, j) /\ j # id
         /\ \A j : Off(lockQ', j) <=> Off(lockQ, j)
         /\ \A j \in 1 .. MaxCalls : On(lockQ, j) \/ Off(lockQ, j) => id <= j
  <1>1. lockQ # <<>> /\ lockQ' = Tail(lockQ) /\ lockQ \in Seq(LockMsgs) /\ Ordered /\ LockTypeOK
    BY Typed DEF SwitchInv, Receives, Received
  <1>2. Head(lockQ) = lockQ[1] /\ lockQ[1] \in LockMsgs /\ lockQ[1].k = "enable"
    BY <1>1, Tailed DEF Receives
  <1>3. lockQ[1] \in Switches /\ lockQ[1] = Switch("enable", id) /\ id \in 1 .. MaxCalls
    BY <1>2, ByKind
  <1>4. /\ In(lockQ, lockQ[1]) /\ Ordered'
        /\ \A x : x # lockQ[1] => (In(lockQ', x) <=> In(lockQ, x))
        /\ ~ In(lockQ', lockQ[1])
        /\ \A x \in Switches : In(lockQ', x) => Precedes(lockQ[1], x)
    BY <1>1, <1>3, TakenSwitch
  <1>5. ASSUME NEW j
        PROVE  (On(lockQ', j) <=> On(lockQ, j) /\ j # id) /\ (Off(lockQ', j) <=> Off(lockQ, j))
    <2>1. /\ Switch("enable", j) = lockQ[1] <=> j = id
          /\ Switch("disable", j) # lockQ[1]
      BY <1>3, SwitchParts
    <2>2. \A x : x # lockQ[1] => (In(lockQ', x) <=> In(lockQ, x))
      BY <1>4 DEF In
    <2>3. In(lockQ', Switch("disable", j)) <=> In(lockQ, Switch("disable", j))
      BY <2>1, <2>2
    <2>4. j # id =>
            (In(lockQ', Switch("enable", j)) <=> In(lockQ, Switch("enable", j)))
      BY <2>1, <2>2
    <2>5. ~ In(lockQ', Switch("enable", id))
      BY <1>3, <1>4
    <2> QED BY <2>3, <2>4, <2>5 DEF In, On, Off, Switch
  <1>6. ASSUME NEW j \in 1 .. MaxCalls, On(lockQ, j) \/ Off(lockQ, j) PROVE id <= j
    <2>1. Switch("enable", j) \in Switches /\ Switch("disable", j) \in Switches
      BY MsgTyped
    <2>2. CASE j = id
      BY <2>2, <1>3, GpsLockAssumption
    <2>3. CASE j # id
      <3>1. \A x \in Switches : In(lockQ', x) => Precedes(lockQ[1], x)
        BY <1>4 DEF In
      <3>2. \/ In(lockQ', Switch("enable", j))
            \/ In(lockQ', Switch("disable", j))
        BY <1>5, <1>6, <2>3 DEF On, Off, In, Switch
      <3>3. Precedes(lockQ[1], Switch("enable", j)) \/ Precedes(lockQ[1], Switch("disable", j))
        BY <2>1, <3>1, <3>2
      <3> QED BY <3>3, <1>3, SwitchParts, GpsLockAssumption DEF Precedes
    <2> QED BY <2>2, <2>3
  <1>7. On(lockQ, id)
    BY <1>3, <1>4 DEF On
  <1> QED BY <1>2, <1>3, <1>4, <1>5, <1>6, <1>7

LEMMA DisableTaken ==
  ASSUME SwitchInv, Receives("disable"), Received, NEW id, id = lockQ[1].id
  PROVE  /\ id \in 1 .. MaxCalls /\ Off(lockQ, id) /\ Ordered' /\ Head(lockQ).id = id
         /\ \A j : On(lockQ', j) <=> On(lockQ, j)
         /\ \A j : Off(lockQ', j) <=> Off(lockQ, j) /\ j # id
         /\ \A j \in 1 .. MaxCalls : On(lockQ', j) \/ Off(lockQ', j) => id < j
  <1>1. lockQ # <<>> /\ lockQ' = Tail(lockQ) /\ lockQ \in Seq(LockMsgs) /\ Ordered /\ LockTypeOK
    BY Typed DEF SwitchInv, Receives, Received
  <1>2. Head(lockQ) = lockQ[1] /\ lockQ[1] \in LockMsgs /\ lockQ[1].k = "disable"
    BY <1>1, Tailed DEF Receives
  <1>3. lockQ[1] \in Switches /\ lockQ[1] = Switch("disable", id) /\ id \in 1 .. MaxCalls
    BY <1>2, ByKind
  <1>4. /\ In(lockQ, lockQ[1]) /\ Ordered'
        /\ \A x : x # lockQ[1] => (In(lockQ', x) <=> In(lockQ, x))
        /\ ~ In(lockQ', lockQ[1])
        /\ \A x \in Switches : In(lockQ', x) => Precedes(lockQ[1], x)
    BY <1>1, <1>3, TakenSwitch
  <1>5. ASSUME NEW j
        PROVE  (On(lockQ', j) <=> On(lockQ, j)) /\ (Off(lockQ', j) <=> Off(lockQ, j) /\ j # id)
    <2>1. /\ Switch("disable", j) = lockQ[1] <=> j = id
          /\ Switch("enable", j) # lockQ[1]
      BY <1>3, SwitchParts
    <2>2. \A x : x # lockQ[1] => (In(lockQ', x) <=> In(lockQ, x))
      BY <1>4 DEF In
    <2>3. In(lockQ', Switch("enable", j)) <=> In(lockQ, Switch("enable", j))
      BY <2>1, <2>2
    <2>4. j # id =>
            (In(lockQ', Switch("disable", j)) <=> In(lockQ, Switch("disable", j)))
      BY <2>1, <2>2
    <2>5. ~ In(lockQ', Switch("disable", id))
      BY <1>3, <1>4
    <2> QED BY <2>3, <2>4, <2>5 DEF In, On, Off, Switch
  <1>6. ASSUME NEW j \in 1 .. MaxCalls, On(lockQ', j) \/ Off(lockQ', j) PROVE id < j
    <2>1. Switch("enable", j) \in Switches /\ Switch("disable", j) \in Switches
      BY MsgTyped
    <2>2. \A x \in Switches : In(lockQ', x) => Precedes(lockQ[1], x)
      BY <1>4 DEF In
    <2>3. \/ In(lockQ', Switch("enable", j))
          \/ In(lockQ', Switch("disable", j))
      BY <1>6 DEF On, Off, In, Switch
    <2>4. Precedes(lockQ[1], Switch("enable", j)) \/ Precedes(lockQ[1], Switch("disable", j))
      BY <2>1, <2>2, <2>3
    <2> QED BY <2>4, <1>3, SwitchParts DEF Precedes
  <1>7. Off(lockQ, id)
    BY <1>3, <1>4 DEF Off
  <1> QED BY <1>2, <1>3, <1>4, <1>5, <1>6, <1>7

-----------------------------------------------------------------------------
(* Every step keeps the invariant of the switch *)

LEMMA SwitchInvInit == LockInit => SwitchInv
  <1> SUFFICES ASSUME LockInit PROVE SwitchInv
    OBVIOUS
  <1>1. LockTypeOK /\ Len(lockQ) = 0
    BY LockTypedAtFirst DEF LockInit
  <1>2. \A id : ~ On(lockQ, id) /\ ~ Off(lockQ, id)
    BY <1>1 DEF On, Off, In
  <1>3. enabled = FALSE /\ session = 0 /\ requests = <<>> /\ afw = 0 /\ calls = 0
    BY DEF LockInit
  <1>4. Ordered
    BY <1>1 DEF Ordered
  <1> QED
    BY <1>1, <1>2, <1>3, <1>4
    DEF SwitchInv, Recent, OnIsServed, OnEnds, OffHasOn, RequestsWait, Waiting

\* Messages other than the commands of the switch.
LEMMA OtherPosted ==
  ASSUME SwitchInv, LockTypeOK', NEW m \in LockMsgs, Post(m), m.k \notin {"enable", "disable"},
         UNCHANGED <<enabled, session, requests, afw>>, calls' = calls \/ calls' = calls + 1
  PROVE  SwitchInv'
  <1>1. m \notin Switches
    BY SwitchParts
  <1>2. Ordered' /\ \A x : x.k \in {"enable", "disable"} => (In(lockQ', x) <=> In(lockQ, x))
    BY <1>1, PostedSwitch DEF SwitchInv
  <1> QED BY <1>2, SwitchKept

LEMMA OtherTaken ==
  ASSUME SwitchInv, LockTypeOK', NEW k, k \notin {"enable", "disable"}, Receives(k), Received,
         UNCHANGED <<enabled, session, requests, afw, calls>>
  PROVE  SwitchInv'
  <1>1. lockQ # <<>> /\ lockQ' = Tail(lockQ) /\ lockQ \in Seq(LockMsgs)
    BY Typed DEF SwitchInv, Receives, Received
  <1>2. lockQ[1].k = k
    BY <1>1, Tailed DEF Receives
  <1>3. Ordered' /\ \A x : x.k \in {"enable", "disable"} => (In(lockQ', x) <=> In(lockQ, x))
    BY <1>1, <1>2, TakenSwitch DEF SwitchInv
  <1> QED BY <1>3, SwitchKept

\* Configurations that waited are posted again behind the queue.
LEMMA ConfigsJoined ==
  ASSUME SwitchInv, LockTypeOK', Receives("engineUp"), lockQ' = Tail(lockQ) \o waiting,
         UNCHANGED <<enabled, session, requests, afw, calls>>
  PROVE  SwitchInv'
  <1>1. /\ lockQ \in Seq(LockMsgs) /\ lockQ # <<>> /\ waiting \in Seq(LockMsgs)
        /\ waiting \in Seq(Configs)
    BY Typed DEF SwitchInv, Receives
  <1>2. /\ Tail(lockQ) \in Seq(LockMsgs) /\ Len(Tail(lockQ)) = Len(lockQ) - 1
        /\ Len(lockQ) \in Nat \ {0} /\ lockQ[1].k = "engineUp"
        /\ \A i \in 1 .. Len(lockQ) - 1 : Tail(lockQ)[i] = lockQ[i + 1]
    BY <1>1, Tailed DEF Receives
  <1>3. /\ Len(lockQ') = Len(lockQ) - 1 + Len(waiting) /\ Len(waiting) \in Nat
        /\ \A i \in 1 .. Len(lockQ) - 1 : lockQ'[i] = lockQ[i + 1]
        /\ \A i \in Len(lockQ) .. Len(lockQ') : lockQ'[i] = waiting[i - (Len(lockQ) - 1)]
    BY <1>1, <1>2, Joined
  <1>4. \A i \in 1 .. Len(waiting) : waiting[i].k = "config" /\ waiting[i] \notin Switches
    <2>1. \A m \in Configs : m.k = "config" /\ m \notin Switches
      BY SwitchParts DEF Configs
    <2> QED BY <1>1, <2>1
  <1>5. \A i \in Len(lockQ) .. Len(lockQ') : lockQ'[i].k = "config" /\ lockQ'[i] \notin Switches
    <2> TAKE i \in Len(lockQ) .. Len(lockQ')
    <2>1. i - (Len(lockQ) - 1) \in 1 .. Len(waiting)
      BY <1>2, <1>3
    <2> QED BY <1>3, <1>4, <2>1
  <1>6. Ordered'
    <2> SUFFICES ASSUME NEW i \in 1 .. Len(lockQ'), NEW j \in 1 .. Len(lockQ'), i < j,
                        lockQ'[i] \in Switches, lockQ'[j] \in Switches
                 PROVE  Precedes(lockQ'[i], lockQ'[j])
      BY DEF Ordered, Switches, Precedes
    <2>1. i \in 1 .. Len(lockQ) - 1 /\ j \in 1 .. Len(lockQ) - 1
      BY <1>2, <1>3, <1>5
    <2>2. /\ i + 1 \in 1 .. Len(lockQ) /\ lockQ'[i] = lockQ[i + 1]
          /\ j + 1 \in 1 .. Len(lockQ) /\ lockQ'[j] = lockQ[j + 1] /\ i + 1 < j + 1
      BY <1>2, <1>3, <2>1
    <2> QED BY <2>2 DEF SwitchInv, Ordered
  <1>7. ASSUME NEW x, x.k \in {"enable", "disable"} PROVE In(lockQ', x) <=> In(lockQ, x)
    <2>1. ASSUME NEW i \in 1 .. Len(lockQ'), lockQ'[i] = x PROVE In(lockQ, x)
      <3>1. i \in 1 .. Len(lockQ) - 1
        BY <1>2, <1>3, <1>5, <1>7, <2>1
      <3>2. i + 1 \in 1 .. Len(lockQ) /\ lockQ[i + 1] = x
        BY <1>2, <1>3, <2>1, <3>1
      <3> QED BY <3>2 DEF In
    <2>2. ASSUME NEW i \in 1 .. Len(lockQ), lockQ[i] = x PROVE In(lockQ', x)
      <3>1. i # 1 /\ i - 1 \in 1 .. Len(lockQ) - 1
        BY <1>2, <1>7, <2>2
      <3>2. i - 1 \in 1 .. Len(lockQ') /\ lockQ'[i - 1] = x
        BY <1>2, <1>3, <2>2, <3>1
      <3> QED BY <3>2 DEF In
    <2> QED BY <2>1, <2>2 DEF In
  <1> QED BY <1>6, <1>7, SwitchKept

LEMMA SwitchedOn ==
  ASSUME SwitchInv, LockTypeOK', LocAPIEnable
  PROVE  SwitchInv'
  <1> DEFINE id == calls + 1
  <1>1. /\ enabled = FALSE /\ enabled' = TRUE /\ session' = id /\ calls' = id /\ afw' = afw
        /\ requests' = <<"enable">> /\ Post(Switch("enable", id)) /\ calls < MaxCalls
    BY DEF LocAPIEnable, Calls, decisionVars, SwitchInv, LockTypeOK
  <1>2. /\ LockTypeOK /\ calls \in Nat /\ session \in 0 .. MaxCalls /\ afw \in 0 .. MaxCalls
        /\ id \in 1 .. MaxCalls /\ session < id /\ afw < id
    BY <1>1, GpsLockAssumption DEF SwitchInv, LockTypeOK, Recent
  <1> HIDE DEF id
  <1>3. Switch("enable", id) \in LockMsgs /\ Switch("enable", id) \in Switches
    BY <1>2, MsgTyped
  <1>4. \A x : In(lockQ', x) <=> In(lockQ, x) \/ x = Switch("enable", id)
    BY <1>1, <1>2, <1>3, PostedSwitch
  <1>5. ASSUME NEW j
        PROVE  (On(lockQ', j) <=> On(lockQ, j) \/ j = id) /\ (Off(lockQ', j) <=> Off(lockQ, j))
    <2>1. /\ Switch("enable", j) = Switch("enable", id) <=> j = id
          /\ Switch("disable", j) # Switch("enable", id)
      BY SwitchParts
    <2>2. \A x : In(lockQ', x) <=> In(lockQ, x) \/ x = Switch("enable", id)
      BY <1>4 DEF In
    <2>3. /\ In(lockQ', Switch("enable", j))
               <=> In(lockQ, Switch("enable", j)) \/ j = id
          /\ In(lockQ', Switch("disable", j))
               <=> In(lockQ, Switch("disable", j))
      BY <2>1, <2>2
    <2> QED BY <2>3 DEF In, On, Off, Switch
  <1>6. \A j \in 1 .. MaxCalls : On(lockQ, j) \/ Off(lockQ, j) => j < id
    BY <1>2 DEF SwitchInv, Recent
  <1>7. Ordered'
    <2>1. ASSUME NEW x \in Switches, In(lockQ, x) PROVE Precedes(x, Switch("enable", id))
      <3>1. x = Switch(x.k, x.id) /\ x.id \in 1 .. MaxCalls /\ x.k \in {"enable", "disable"}
        BY SwitchParts
      <3>2. On(lockQ, x.id) \/ Off(lockQ, x.id)
        BY <2>1, <3>1 DEF On, Off
      <3> QED BY <1>6, <3>1, <3>2, SwitchParts DEF Precedes
    <2> QED BY <1>1, <1>2, <1>3, <2>1, PostedSwitch DEF SwitchInv
  <1>8. Recent'
    <2>1. session' <= calls' /\ afw' <= session'
      BY <1>1, <1>2
    <2>2. \A j \in 1 .. MaxCalls : On(lockQ', j) \/ Off(lockQ', j) => afw <= j /\ j <= id
      BY <1>2, <1>5, <1>6 DEF SwitchInv, Recent
    <2> QED BY <1>1, <2>1, <2>2 DEF Recent
  <1>9. ~ Off(lockQ, id) /\ ~ On(lockQ, id)
    BY <1>2, <1>6
  <1>10. OnIsServed'
    <2>1. On(lockQ', id) /\ ~ Off(lockQ', id) /\ id > 0
      BY <1>2, <1>5, <1>9
    <2> QED BY <1>1, <2>1 DEF OnIsServed, On, Off, In, Switch
  <1>11. OnEnds'
    <2>1. afw # 0 => Off(lockQ, afw)
      BY <1>1 DEF SwitchInv, OnEnds
    <2>2. \A j \in 1 .. MaxCalls : On(lockQ', j) => j # afw /\ (Off(lockQ', j) \/ j = id)
      BY <1>1, <1>2, <1>5 DEF SwitchInv, OnEnds
    <2>3. afw # 0 => Off(lockQ', afw)
      BY <1>5, <2>1
    <2>4. afw' # 0 => Off(lockQ', afw')
      BY <1>1, <2>3 DEF Off, In, Switch
    <2> QED BY <1>1, <2>2, <2>3 DEF OnEnds, Off, In, Switch
  <1>12. OffHasOn'
    BY <1>1, <1>5 DEF SwitchInv, OffHasOn
  <1>13. RequestsWait'
    <2>1. On(lockQ', id) /\ ~ Off(lockQ', id)
      BY <1>5, <1>9
    <2> QED BY <1>1, <2>1 DEF RequestsWait, Waiting, On, Off, In, Switch
  <1> QED BY <1>7, <1>8, <1>10, <1>11, <1>12, <1>13 DEF SwitchInv

LEMMA SwitchedOff ==
  ASSUME SwitchInv, LockTypeOK', LocAPIDisable
  PROVE  SwitchInv'
  <1>1. /\ enabled = TRUE /\ enabled' = FALSE /\ session' = session /\ calls' = calls + 1
        /\ afw' = afw /\ requests' = Append(requests, "disable")
        /\ Post(Switch("disable", session)) /\ session > 0
    BY DEF LocAPIDisable, Calls, decisionVars, SwitchInv, LockTypeOK
  <1>2. /\ LockTypeOK /\ calls \in Nat /\ session \in 1 .. MaxCalls /\ afw \in 0 .. MaxCalls
    BY <1>1, GpsLockAssumption DEF SwitchInv, LockTypeOK
  <1>3. Switch("disable", session) \in LockMsgs /\ Switch("disable", session) \in Switches
    BY <1>2, MsgTyped
  <1>4. \A x : In(lockQ', x) <=> In(lockQ, x) \/ x = Switch("disable", session)
    BY <1>1, <1>2, <1>3, PostedSwitch
  <1>5. ASSUME NEW j
        PROVE  (On(lockQ', j) <=> On(lockQ, j)) /\ (Off(lockQ', j) <=> Off(lockQ, j) \/ j = session)
    BY <1>4, SwitchParts DEF On, Off
  <1>6. ~ Off(lockQ, session) /\ (afw = session \/ On(lockQ, session))
    BY <1>1 DEF SwitchInv, OnIsServed
  <1>7. Ordered'
    <2>1. ASSUME NEW x \in Switches, In(lockQ, x) PROVE Precedes(x, Switch("disable", session))
      <3>1. x = Switch(x.k, x.id) /\ x.id \in 1 .. MaxCalls /\ x.k \in {"enable", "disable"}
        BY SwitchParts
      <3>2. On(lockQ, x.id) \/ (Off(lockQ, x.id) /\ x.k = "disable")
        BY <2>1, <3>1 DEF On, Off
      <3>3. x.id <= session
        BY <3>1, <3>2 DEF SwitchInv, Recent
      <3>4. x.id = session => x.k = "enable"
        BY <1>6, <2>1, <3>1 DEF Off
      <3> QED BY <1>2, <3>1, <3>3, <3>4, SwitchParts DEF Precedes
    <2> QED BY <1>1, <1>2, <1>3, <2>1, PostedSwitch DEF SwitchInv
  <1>8. Recent'
    <2>1. session <= calls + 1 /\ afw <= session
      BY <1>2 DEF SwitchInv, Recent
    <2> QED BY <1>1, <1>2, <1>5, <2>1 DEF SwitchInv, Recent
  <1>9. OnIsServed' /\ OnEnds' /\ OffHasOn'
    BY <1>1, <1>5, <1>6 DEF SwitchInv, OnIsServed, OnEnds, OffHasOn
  <1>10. RequestsWait'
    <2>1. requests = IF On(lockQ, session) THEN <<"enable">> ELSE <<>>
      BY <1>6 DEF SwitchInv, RequestsWait, Waiting
    <2>2. requests' = IF On(lockQ, session) THEN <<"enable", "disable">> ELSE <<"disable">>
      BY <1>1, <2>1
    <2>3. Off(lockQ', session) /\ (On(lockQ', session) <=> On(lockQ, session))
      BY <1>5
    <2> QED BY <1>1, <2>2, <2>3 DEF RequestsWait, Waiting
  <1> QED BY <1>7, <1>8, <1>9, <1>10 DEF SwitchInv

\* MsgEnableGnss finds location off, so it is never answered ALREADY_STARTED.
LEMMA EnableHeard ==
  ASSUME SwitchInv, LockTypeOK', MsgEnableGnss
  PROVE  SwitchInv'
  <1> DEFINE h == lockQ[1].id
  <1>1. PICK id : id = h
    OBVIOUS
  <1> HIDE DEF h
  <1>2. /\ Receives("enable") /\ Received /\ Respond(Head(lockQ).id)
        /\ calls' = calls /\ (~ afw > 0 => afw' = Head(lockQ).id)
    BY DEF MsgEnableGnss, KeepsWaiting
  <1>3. /\ id \in 1 .. MaxCalls /\ On(lockQ, id) /\ Ordered' /\ Head(lockQ).id = id
        /\ \A j : On(lockQ', j) <=> On(lockQ, j) /\ j # id
        /\ \A j : Off(lockQ', j) <=> Off(lockQ, j)
        /\ \A j \in 1 .. MaxCalls : On(lockQ, j) \/ Off(lockQ, j) => id <= j
    BY <1>1, <1>2, EnableTaken DEF h
  <1>4. /\ enabled' = enabled /\ session' = session
        /\ requests' = IF id = session /\ requests # <<>> THEN Tail(requests) ELSE requests
    BY <1>2, <1>3 DEF Respond
  <1>5. /\ LockTypeOK /\ calls \in Nat /\ session \in 0 .. MaxCalls /\ afw \in 0 .. MaxCalls
        /\ id <= session
    BY <1>3, GpsLockAssumption DEF SwitchInv, LockTypeOK, Recent
  <1>6. afw = 0
    <2> SUFFICES ASSUME afw # 0 PROVE FALSE
      OBVIOUS
    <2>1. afw \in 1 .. MaxCalls /\ afw <= id /\ id # afw
      BY <1>3, <1>5 DEF SwitchInv, Recent, OnEnds
    <2>2. ~ Off(lockQ, afw)
      BY <1>3, <2>1, GpsLockAssumption
    <2>3. session = afw
      BY <2>2 DEF SwitchInv, OnEnds
    <2> QED BY <1>3, <1>5, <2>1, <2>3, GpsLockAssumption
  <1>7. afw' = id
    BY <1>2, <1>3, <1>6
  <1>8. Recent'
    BY <1>2, <1>3, <1>4, <1>5, <1>7 DEF SwitchInv, Recent
  <1>9. OnIsServed'
    <2>1. enabled => session > 0 /\ ~ Off(lockQ, session) /\ On(lockQ, session)
      BY <1>6 DEF SwitchInv, OnIsServed
    <2>2. enabled => session > 0 /\ ~ Off(lockQ', session) /\ (id = session \/ On(lockQ', session))
      BY <1>3, <2>1
    <2> QED BY <1>4, <1>7, <2>2 DEF OnIsServed
  <1>10. OnEnds' /\ OffHasOn'
    BY <1>3, <1>4, <1>6, <1>7, <1>5 DEF SwitchInv, OnEnds, OffHasOn
  <1>11. RequestsWait'
    <2>1. CASE id = session
      <3>1. requests = IF Off(lockQ, session) THEN <<"enable", "disable">> ELSE <<"enable">>
        BY <1>3, <2>1 DEF SwitchInv, RequestsWait, Waiting
      <3>2. requests' = IF Off(lockQ, session) THEN <<"disable">> ELSE <<>>
        BY <1>4, <2>1, <3>1
      <3>3. ~ On(lockQ', session) /\ (Off(lockQ', session) <=> Off(lockQ, session))
        BY <1>3, <2>1
      <3> QED BY <1>4, <3>2, <3>3 DEF RequestsWait, Waiting
    <2>2. CASE id # session
      <3>1. /\ On(lockQ', session) <=> On(lockQ, session)
            /\ Off(lockQ', session) <=> Off(lockQ, session)
        BY <1>3, <2>2
      <3> QED BY <1>4, <2>2, <3>1 DEF SwitchInv, RequestsWait, Waiting
    <2> QED BY <2>1, <2>2
  <1> QED BY <1>3, <1>8, <1>9, <1>10, <1>11 DEF SwitchInv

\* MsgDisableGnss finds its own session on, so it is never answered ID_UNKNOWN.
LEMMA DisableHeard ==
  ASSUME SwitchInv, LockTypeOK', MsgDisableGnss
  PROVE  SwitchInv'
  <1> DEFINE h == lockQ[1].id
  <1>1. PICK id : id = h
    OBVIOUS
  <1> HIDE DEF h
  <1>2. /\ Receives("disable") /\ Received /\ Respond(Head(lockQ).id)
        /\ calls' = calls /\ (afw = Head(lockQ).id => afw' = 0)
    BY DEF MsgDisableGnss, KeepsWaiting
  <1>3. /\ id \in 1 .. MaxCalls /\ Off(lockQ, id) /\ Ordered' /\ Head(lockQ).id = id
        /\ \A j : On(lockQ', j) <=> On(lockQ, j)
        /\ \A j : Off(lockQ', j) <=> Off(lockQ, j) /\ j # id
        /\ \A j \in 1 .. MaxCalls : On(lockQ', j) \/ Off(lockQ', j) => id < j
    BY <1>1, <1>2, DisableTaken DEF h
  <1>4. /\ enabled' = enabled /\ session' = session
        /\ requests' = IF id = session /\ requests # <<>> THEN Tail(requests) ELSE requests
    BY <1>2, <1>3 DEF Respond
  <1>5. /\ LockTypeOK /\ calls \in Nat /\ session \in 0 .. MaxCalls /\ afw \in 0 .. MaxCalls
    BY GpsLockAssumption DEF SwitchInv, LockTypeOK
  <1>6. ~ On(lockQ, id)
    BY <1>3
  <1>7. afw = id /\ afw' = 0
    BY <1>2, <1>3, <1>6 DEF SwitchInv, OffHasOn
  <1>8. Recent'
    BY <1>2, <1>3, <1>4, <1>5, <1>7 DEF SwitchInv, Recent
  <1>9. OnIsServed'
    <2>1. enabled => session > 0 /\ ~ Off(lockQ, session) /\ (afw = session \/ On(lockQ, session))
      BY DEF SwitchInv, OnIsServed
    <2>2. enabled => session # id
      BY <1>3, <2>1
    <2> QED BY <1>3, <1>4, <1>7, <2>1, <2>2 DEF OnIsServed
  <1>10. OnEnds' /\ OffHasOn'
    <2>1. \A j \in 1 .. MaxCalls : On(lockQ, j) => j # id /\ j # 0
      BY <1>6, GpsLockAssumption
    <2> QED BY <1>3, <1>4, <1>7, <2>1 DEF SwitchInv, OnEnds, OffHasOn
  <1>11. RequestsWait'
    <2>1. CASE id = session
      <3>1. requests = <<"disable">>
        BY <1>3, <1>6, <2>1 DEF SwitchInv, RequestsWait, Waiting
      <3>2. requests' = <<>>
        BY <1>4, <2>1, <3>1
      <3>3. ~ On(lockQ', session) /\ ~ Off(lockQ', session)
        BY <1>3, <1>6, <2>1
      <3> QED BY <1>4, <3>2, <3>3 DEF RequestsWait, Waiting
    <2>2. CASE id # session
      <3>1. /\ On(lockQ', session) <=> On(lockQ, session)
            /\ Off(lockQ', session) <=> Off(lockQ, session)
        BY <1>3, <2>2
      <3> QED BY <1>4, <2>2, <3>1 DEF SwitchInv, RequestsWait, Waiting
    <2> QED BY <2>1, <2>2
  <1> QED BY <1>3, <1>8, <1>9, <1>10, <1>11 DEF SwitchInv

LEMMA SwitchInvStep == SwitchInv /\ [LockNext]_lockVars => SwitchInv'
  <1> SUFFICES ASSUME SwitchInv, [LockNext]_lockVars PROVE SwitchInv'
    OBVIOUS
  <1>0. LockTypeOK /\ LockTypeOK'
    BY LockTypeStep DEF SwitchInv
  <1>1. ASSUME lockQ' = lockQ, UNCHANGED <<clientVars, afw>>, calls' = calls \/ calls' = calls + 1
        PROVE  SwitchInv'
    <2>1. Ordered'
      BY <1>1 DEF SwitchInv, Ordered
    <2> QED BY <1>0, <1>1, <2>1, SwitchKept DEF clientVars
  <1>2. CASE UNCHANGED lockVars
    BY <1>1, <1>2 DEF lockVars, clientVars, decisionVars
  <1>3. CASE LocAPIEnable
    BY <1>0, <1>3, SwitchedOn
  <1>4. CASE LocAPIDisable
    BY <1>0, <1>4, SwitchedOff
  <1>5. CASE LocAPIGnssUpdateConfig
    <2>1. PICK l \in (SimLocks \cup {NoLock}) \ {config} :
            /\ Calls /\ (IF l = NoLock THEN UNCHANGED lockQ ELSE Post(SetGpsLock(l)))
            /\ UNCHANGED <<enabled, session, requests>>
      BY <1>5 DEF LocAPIGnssUpdateConfig
    <2>2. calls' = calls + 1 /\ afw' = afw
      BY <2>1 DEF Calls, decisionVars
    <2>3. CASE l = NoLock
      <3>1. Ordered'
        BY <2>1, <2>3 DEF SwitchInv, Ordered
      <3> QED BY <1>0, <2>1, <2>2, <2>3, <3>1, SwitchKept
    <2>4. CASE l # NoLock
      <3>1. SetGpsLock(l) \in LockMsgs
        BY <2>4, GpsLockAssumption, MsgTyped
      <3>2. SetGpsLock(l).k \notin {"enable", "disable"}
        BY DEF SetGpsLock
      <3> QED BY <1>0, <2>1, <2>2, <2>4, <3>1, <3>2, OtherPosted
    <2> QED BY <2>3, <2>4
  <1>6. CASE NfwControlCommand
    <2>1. PICK on \in BOOLEAN : Calls /\ Post(Nfw(on)) /\ UNCHANGED clientVars
      BY <1>6 DEF NfwControlCommand
    <2>2. calls' = calls + 1 /\ afw' = afw
      BY <2>1 DEF Calls, decisionVars
    <2>3. Nfw(on) \in LockMsgs /\ Nfw(on).k \notin {"enable", "disable"}
      BY MsgTyped DEF Nfw
    <2> QED BY <1>0, <2>1, <2>2, <2>3, OtherPosted DEF clientVars
  <1>7. CASE MsgEnableGnss
    BY <1>0, <1>7, EnableHeard
  <1>8. CASE MsgDisableGnss
    BY <1>0, <1>8, DisableHeard
  <1>9. CASE MsgGnssUpdateConfig
    BY <1>0, <1>9, OtherTaken DEF MsgGnssUpdateConfig, clientVars, KeepsWaiting
  <1>10. CASE KeepConfig
    BY <1>0, <1>10, OtherTaken DEF KeepConfig, clientVars, decisionVars
  <1>11. CASE MsgControlNfwLocationAccess
    BY <1>0, <1>11, OtherTaken DEF MsgControlNfwLocationAccess, clientVars, KeepsWaiting
  <1>12. CASE MsgHandleEngineUpEvent
    BY <1>0, <1>12, ConfigsJoined DEF MsgHandleEngineUpEvent, clientVars, decisionVars
  <1>13. CASE SetGpsLockSync
    BY <1>1, <1>13 DEF SetGpsLockSync, decisionVars
  <1>14. CASE OpenModem
    <2>1. Post(EngineIsUp) /\ UNCHANGED clientVars /\ afw' = afw /\ calls' = calls
      BY <1>14 DEF OpenModem, decisionVars
    <2>2. EngineIsUp \in LockMsgs /\ EngineIsUp.k \notin {"enable", "disable"}
      BY <1>0, Typed
    <2> QED BY <1>0, <2>1, <2>2, OtherPosted DEF clientVars
  <1>15. CASE HandleEngineDownEvent
    BY <1>1, <1>15 DEF HandleEngineDownEvent, decisionVars
  <1> QED
    BY <1>2, <1>3, <1>4, <1>5, <1>6, <1>7, <1>8, <1>9, <1>10, <1>11, <1>12, <1>13, <1>14, <1>15
    DEF LockNext, LockClient, LockAdapter, LockLocApi

LEMMA SwitchInvAtRest == SwitchInv /\ LockInv => SwitchSettles
  <1> SUFFICES ASSUME SwitchInv, LockInv, AtRest
               PROVE  /\ afw = IF enabled THEN session ELSE 0
                      /\ requests = <<>>
                      /\ overtaken \/ ("MO" \in modemLock <=> ~ enabled)
    BY DEF SwitchSettles
  <1>1. \A id : ~ On(lockQ, id) /\ ~ Off(lockQ, id)
    BY DEF AtRest, On, Off, In
  <1>2. requests = <<>>
    BY <1>1 DEF SwitchInv, RequestsWait, Waiting
  <1>3. enabled => session > 0 /\ afw = session
    BY <1>1 DEF SwitchInv, OnIsServed
  <1>4. afw # 0 => enabled
    BY <1>1 DEF SwitchInv, OnEnds
  <1>5. session \in Nat /\ enabled \in BOOLEAN
    BY GpsLockAssumption DEF SwitchInv, LockTypeOK
  <1>6. afw = IF enabled THEN session ELSE 0
    BY <1>3, <1>4, <1>5
  <1>7. afw = 0 <=> ~ enabled
    BY <1>3, <1>4, <1>5
  <1>8. overtaken \/ modemLock = Promised(supportNfw, afw, lock)
    BY LockInvAtRest DEF LockFollows
  <1>9. overtaken \/ ("MO" \in modemLock <=> afw = 0)
    BY <1>8 DEF Promised, LockInv, LockOfSwitch
  <1> QED BY <1>2, <1>6, <1>7, <1>9

\* When all queues are empty the adapter and the modem agree with the switch
\* (LocationControlAPI::enable and disable, MsgEnableGnss, MsgDisableGnss): it
\* is on in the client's session, or off, no request waits for an answer, and
\* the device's own requests are locked exactly when it is off, unless the lock
\* is that of a control of network access that a setGpsLock overtook.
THEOREM SwitchIsObeyed == LockSpec => []SwitchSettles
  <1>1. LockInit => LockInv /\ SwitchInv
    BY LockInvInit, SwitchInvInit
  <1>2. LockInv /\ SwitchInv /\ [LockNext]_lockVars => LockInv' /\ SwitchInv'
    BY LockInvStep, SwitchInvStep
  <1>3. LockInv /\ SwitchInv => SwitchSettles
    BY SwitchInvAtRest
  <1> QED BY <1>1, <1>2, <1>3, PTL DEF LockSpec
=============================================================================
