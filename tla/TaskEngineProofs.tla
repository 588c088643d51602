-------------------------- MODULE TaskEngineProofs --------------------------
(***************************************************************************)
(* The servers reach Redis through the methods of the store alone: every    *)
(* step of TaskEngine is a step of RedisStore or leaves Redis as it is.     *)
(* What is proved of the store therefore holds while servers run on it.     *)
(***************************************************************************)
EXTENDS TaskEngine, RedisStoreProofs

\* What a server keeps is well typed, and a dispatcher that offers a task has
\* one to offer.
ServerInv ==
  /\ ServerTypeOK
  /\ \A s \in Servers : disp[s].at = "offer" <=> disp[s].att # None

EngineInv == Inv /\ ServerInv

StoreStep == [StoreNext]_storeVars

-----------------------------------------------------------------------------
(* Every step is a store step *)

\* Most leaves are first-order and left to Zenon; one that needs arithmetic or
\* records cites the SMT solver.
USE ZenonT(30)

\* A call that ends a claim, made by a worker or by recovery.
LEMMA CloseIsStoreStep ==
  ASSUME NEW s, NEW a, NEW p,
         AckSuccess(a) \/ GiveUp(a, p) \/ Requeue(a) \/ Refused(s, a)
  PROVE  StoreStep
<1>1. CASE AckSuccess(a) \/ Requeue(a)
  BY <1>1 DEF StoreStep, StoreNext, AckSuccess, Requeue, Handles
<1>2. CASE GiveUp(a, p)
  BY <1>2, EngineAssumption
  DEF GiveUp, StoreStep, StoreNext, Archive, ScheduleRetry, Handles
<1>3. CASE Refused(s, a)
  BY <1>3 DEF Refused, CallFails, StoreStep
<1> QED BY <1>1, <1>2, <1>3

\* Every step of the engine is a step of the store: one case per action.
LEMMA EngineStoreStep ==
  ASSUME ServerInv, [EngineNext]_engineVars
  PROVE  StoreStep
<1> USE DEF StoreStep
<1>1. CASE UNCHANGED engineVars
  BY <1>1 DEF engineVars
<1>2. CASE Produce
  BY <1>2 DEF Produce, StoreNext
<1>3. CASE EngineTick
  BY <1>3 DEF EngineTick, StoreNext
<1>4. ASSUME NEW s \in Servers, Dispatch(s)
      PROVE  StoreStep
  <2>1. CASE DispatchHead(s) \/ DispatchCount(s) \/ HandOff(s)
    BY <2>1 DEF DispatchHead, DispatchCount, HandOff, CallFails
  <2>2. ASSUME NEW source \in {"scheduled", "retry"}, NEW next,
               DispatchMove(s, source, next)
        PROVE  StoreStep
    <3>1. 0 \in Times
      BY SMTT(30), StoreAssumption DEF Times
    <3> QED BY <2>2, <3>1 DEF DispatchMove, CallFails, StoreNext
  <2>3. CASE DispatchClaim(s)
    BY <2>3, EngineAssumption DEF DispatchClaim, CallFails, StoreNext
  <2>4. CASE RequeueOffered(s)
    BY <2>4, CloseIsStoreStep DEF RequeueOffered
  <2> QED BY <1>4, <2>1, <2>2, <2>3, <2>4 DEF Dispatch
<1>5. ASSUME NEW s \in Servers, NEW a \in Attempts,
             HandlerReturns(s, a) \/ Finish(s, a)
      PROVE  StoreStep
  <2>1. CASE HandlerReturns(s, a)
    BY <2>1 DEF HandlerReturns
  <2>2. CASE Finish(s, a)
    BY <2>2, CloseIsStoreStep DEF Finish
  <2> QED BY <1>5, <2>1, <2>2
<1>6. ASSUME NEW s \in Servers, Heartbeat(s)
      PROVE  StoreStep
  <2>1. CASE HeartbeatTick(s)
    BY <2>1 DEF HeartbeatTick
  <2>2. CASE HeartbeatExtend(s)
    <3>1. hb[s].expiry \in Times
      BY <2>2 DEF HeartbeatExtend, ServerInv, ServerTypeOK
    <3> QED BY <2>2, <3>1 DEF HeartbeatExtend, ExtendLease, CallFails, StoreNext
  <2> QED BY <1>6, <2>1, <2>2 DEF Heartbeat
<1>7. ASSUME NEW s \in Servers, Recover(s)
      PROVE  StoreStep
  <2>1. CASE RecoveryScan(s) \/ RecoveryGet(s)
    BY <2>1 DEF RecoveryScan, RecoveryGet
  <2>2. CASE RecoveryClose(s)
    BY <2>2, CloseIsStoreStep DEF RecoveryClose
  <2> QED BY <1>7, <2>1, <2>2 DEF Recover
<1>8. ASSUME NEW s \in Servers,
             \/ Start(s) \/ Lifecycle(s) \/ ShutdownTimeout(s) \/ Crash(s)
             \/ requestStop(s, "stop") \/ requestStop(s, "shutdown")
      PROVE  StoreStep
  BY <1>8 DEF Start, Lifecycle, StopCancel, ShutdownCancel, ShutdownReturn,
              ShutdownTimeout, Crash, requestStop, Cancel
<1> QED BY <1>1, <1>2, <1>3, <1>4, <1>5, <1>6, <1>7, <1>8 DEF EngineNext

-----------------------------------------------------------------------------
(* Types *)

\* Counting keeps the counters well typed.
LEMMA CountTyped ==
  ASSUME metrics \in [Counters -> Nat], NEW c \in Counters, Count(c)
  PROVE  metrics' \in [Counters -> Nat]
BY SMTT(30) DEF Count

\* Faults stay within their bound.
LEMMA FaultTyped ==
  ASSUME faults \in 0 .. MaxFaults, Fault \/ NoFault
  PROVE  faults' \in 0 .. MaxFaults
BY SMTT(30), EngineAssumption DEF Fault, NoFault

\* A call that ends a claim leaves faults and metrics well typed.
LEMMA CloseTyped ==
  ASSUME ServerTypeOK, NEW s, NEW a, NEW p,
         \/ AckSuccess(a) /\ Answer("processed")
         \/ GiveUp(a, p)
         \/ Refused(s, a) /\ UNCHANGED metrics
  PROVE  /\ faults' \in 0 .. MaxFaults
         /\ metrics' \in [Counters -> Nat]
<1>1. {"processed", "archived", "retried"} \subseteq Counters
  BY DEF Counters
<1>2. Fault \/ NoFault
  BY DEF GiveUp, Answer, Refused, CallFails
<1>3. UNCHANGED metrics \/ \E c \in Counters : Count(c)
  BY <1>1 DEF GiveUp, Answer
<1> QED BY <1>2, <1>3, CountTyped, FaultTyped DEF ServerTypeOK

\* A dispatcher that moves on holds no task.
LEMMA GotoTyped ==
  ASSUME ServerInv, NEW s \in Servers,
         NEW step \in DispatcherSteps \ {"offer"}, Goto(s, step)
  PROVE  /\ disp' \in [Servers -> [at : DispatcherSteps,
                                   att : Attempts \cup {None}]]
         /\ \A t \in Servers : disp'[t].at = "offer" <=> disp'[t].att # None
BY DEF ServerInv, ServerTypeOK, Goto

\* The dispatcher keeps the server state well typed.
LEMMA DispatchTyped ==
  ASSUME EngineInv, NEW s \in Servers, Dispatch(s)
  PROVE  ServerInv'
<1> USE DEF EngineInv
<1>1. {"head", "scheduled", "retry", "count", "claim", "done"}
        \subseteq DispatcherSteps \ {"offer"}
  BY DEF DispatcherSteps
<1>2. CASE DispatchHead(s)
  <2>1. Goto(s, "done") \/ Goto(s, "scheduled")
    BY <1>2 DEF DispatchHead
  <2> QED BY <1>1, <1>2, <2>1, GotoTyped
          DEF DispatchHead, ServerInv, ServerTypeOK
<1>3. ASSUME NEW source, NEW next \in {"retry", "count"},
             DispatchMove(s, source, next)
      PROVE  ServerInv'
  <2>1. Goto(s, next) \/ Goto(s, "head")
    BY <1>3 DEF DispatchMove, NextTurn
  <2>2. Fault \/ NoFault
    BY <1>3 DEF DispatchMove, CallFails
  <2> QED BY <1>1, <1>3, <2>1, <2>2, GotoTyped, FaultTyped
          DEF DispatchMove, ServerInv, ServerTypeOK
<1>4. CASE DispatchCount(s)
  <2>1. Goto(s, "claim") \/ Goto(s, "head")
    BY <1>4 DEF DispatchCount, NextTurn
  <2>2. Fault \/ NoFault
    BY <1>4 DEF DispatchCount, CallFails
  <2> QED BY <1>1, <1>4, <2>1, <2>2, GotoTyped, FaultTyped
          DEF DispatchCount, ServerInv, ServerTypeOK
<1>5. CASE DispatchClaim(s)
  <2>1. CASE Goto(s, "head") /\ UNCHANGED mine /\ (Fault \/ NoFault)
    BY <1>1, <1>5, <2>1, GotoTyped, FaultTyped
    DEF DispatchClaim, ServerInv, ServerTypeOK
  <2>2. CASE \E a \in Attempts :
               /\ disp' = [disp EXCEPT ![s] = [at |-> "offer", att |-> a]]
               /\ mine' = [mine EXCEPT ![s] = @ \cup {a}]
               /\ NoFault
    <3>1. PICK a \in Attempts :
            /\ disp' = [disp EXCEPT ![s] = [at |-> "offer", att |-> a]]
            /\ mine' = [mine EXCEPT ![s] = @ \cup {a}]
            /\ NoFault
      BY <2>2
    <3>2. disp' \in [Servers -> [at : DispatcherSteps,
                                 att : Attempts \cup {None}]]
      BY <3>1 DEF ServerInv, ServerTypeOK, DispatcherSteps
    <3>3. \A t \in Servers : disp'[t].at = "offer" <=> disp'[t].att # None
      BY <3>1, StoreAssumption DEF ServerInv, ServerTypeOK
    <3>4. mine' \in [Servers -> SUBSET Attempts]
      BY <3>1 DEF ServerInv, ServerTypeOK
    <3> QED BY <1>5, <3>1, <3>2, <3>3, <3>4
            DEF DispatchClaim, ServerInv, ServerTypeOK, NoFault
  <2> QED BY <1>5, <2>1, <2>2 DEF DispatchClaim, NextTurn, CallFails
<1>6. CASE HandOff(s)
  <2>1. disp[s].att \in Attempts
    BY <1>6 DEF HandOff, AtStep, ServerInv, ServerTypeOK
  <2>2. work' \in [Servers -> SUBSET Attempts]
    BY <1>6, <2>1 DEF HandOff, ServerInv, ServerTypeOK
  <2>3. outcome' \in [Attempts -> Outcomes]
    BY <1>6, <2>1 DEF HandOff, ServerInv, ServerTypeOK, Outcomes
  <2>4. Goto(s, "head")
    BY <1>6 DEF HandOff, NextTurn
  <2> QED BY <1>1, <1>6, <2>2, <2>3, <2>4, GotoTyped
          DEF HandOff, ServerInv, ServerTypeOK
<1>7. CASE RequeueOffered(s)
  <2>1. Fault \/ NoFault
    BY <1>7 DEF RequeueOffered, Refused, CallFails
  <2> QED BY <1>1, <1>7, <2>1, GotoTyped, FaultTyped
          DEF RequeueOffered, ServerInv, ServerTypeOK
<1> QED BY <1>2, <1>3, <1>4, <1>5, <1>6, <1>7 DEF Dispatch

\* So do the workers.
LEMMA ProcessTyped ==
  ASSUME ServerInv, NEW s \in Servers, NEW a \in Attempts,
         HandlerReturns(s, a) \/ Finish(s, a)
  PROVE  ServerInv'
<1>1. CASE HandlerReturns(s, a)
  <2>1. metrics' \in [Counters -> Nat]
    BY <1>1, CountTyped DEF HandlerReturns, ServerInv, ServerTypeOK, Counters
  <2>2. outcome' \in [Attempts -> Outcomes]
    BY <1>1 DEF HandlerReturns, ServerInv, ServerTypeOK, Outcomes
  <2> QED BY <1>1, <2>1, <2>2 DEF HandlerReturns, ServerInv, ServerTypeOK
<1>2. CASE Finish(s, a)
  <2>1. faults' \in 0 .. MaxFaults /\ metrics' \in [Counters -> Nat]
    BY <1>2, CloseTyped DEF Finish, ServerInv
  <2>2. work' \in [Servers -> SUBSET Attempts]
    BY <1>2 DEF Finish, ServerInv, ServerTypeOK
  <2> QED BY <1>2, <2>1, <2>2 DEF Finish, ServerInv, ServerTypeOK
<1> QED BY <1>1, <1>2

\* So does the heartbeat loop.
LEMMA HeartbeatTyped ==
  ASSUME ServerInv, NEW s \in Servers, Heartbeat(s)
  PROVE  ServerInv'
<1>1. CASE HeartbeatTick(s)
  BY <1>1, EngineAssumption DEF HeartbeatTick, ServerInv, ServerTypeOK
<1>2. CASE HeartbeatExtend(s)
  <2>1. Fault \/ NoFault
    BY <1>2 DEF HeartbeatExtend, CallFails
  <2> QED BY <1>2, <2>1, FaultTyped
          DEF HeartbeatExtend, ServerInv, ServerTypeOK
<1> QED BY <1>1, <1>2 DEF Heartbeat

\* What is left of a recovery pass is well typed.
LEMMA PassTyped ==
  ASSUME ServerInv, NEW s \in Servers, NEW M \in SUBSET Ids,
         NEW a \in Attempts \cup {None},
         rec' = [rec EXCEPT ![s] = Pass(M, a)]
  PROVE  rec' \in [Servers -> [ids : SUBSET Ids, got : Attempts \cup {None}]
                                \cup {None}]
BY DEF ServerInv, ServerTypeOK, Pass

\* So does the recovery loop.
LEMMA RecoverTyped ==
  ASSUME EngineInv, NEW s \in Servers, Recover(s)
  PROVE  ServerInv'
<1> USE DEF EngineInv
<1>1. CASE RecoveryScan(s)
  <2>1. PICK M \in SUBSET Ids : rec' = [rec EXCEPT ![s] = Pass(M, None)]
    BY <1>1 DEF RecoveryScan, Batch, Due
  <2> QED BY <1>1, <2>1, PassTyped DEF RecoveryScan, ServerInv, ServerTypeOK
<1>2. CASE RecoveryGet(s)
  <2>1. rec[s].ids \in SUBSET Ids
    BY <1>2 DEF RecoveryGet, ServerInv, ServerTypeOK
  <2>2. \A i \in Ids : task[i].attempt \in Attempts \cup {None}
    BY DEF Inv, StoreTypeOK, Hash
  <2>3. PICK i \in rec[s].ids, a \in Attempts \cup {None} :
          rec' = [rec EXCEPT ![s] = Pass(rec[s].ids \ {i}, a)]
    BY <1>2, <2>1, <2>2 DEF RecoveryGet
  <2>4. Fault \/ NoFault
    BY <1>2 DEF RecoveryGet, CallFails
  <2>5. rec[s].ids \ {i} \in SUBSET Ids
    BY <2>1
  <2> QED BY <1>2, <2>3, <2>4, <2>5, PassTyped, FaultTyped
          DEF RecoveryGet, ServerInv, ServerTypeOK
<1>3. CASE RecoveryClose(s)
  <2>1. faults' \in 0 .. MaxFaults /\ metrics' \in [Counters -> Nat]
    BY <1>3, CloseTyped DEF RecoveryClose, ServerInv
  <2>2. rec[s].ids \in SUBSET Ids
    BY <1>3 DEF RecoveryClose, ServerInv, ServerTypeOK
  <2> QED BY <1>3, <2>1, <2>2, PassTyped
          DEF RecoveryClose, ServerInv, ServerTypeOK
<1> QED BY <1>1, <1>2, <1>3 DEF Recover

\* So do Start, Stop, Shutdown and a crash.
LEMMA LifecycleTyped ==
  ASSUME ServerInv, NEW s \in Servers,
         \/ Start(s) \/ Lifecycle(s) \/ ShutdownTimeout(s) \/ Crash(s)
         \/ requestStop(s, "stop") \/ requestStop(s, "shutdown")
  PROVE  ServerInv'
<1>1. CASE Start(s)
  BY <1>1 DEF Start, NewDispatcher, ServerInv, ServerTypeOK, Lives,
              DispatcherSteps
<1>2. CASE Cancel(s)
  BY <1>2 DEF Cancel, ServerInv, ServerTypeOK, Lives
<1>3. CASE ShutdownReturn(s)
  BY <1>3 DEF ShutdownReturn, ServerInv, ServerTypeOK, Lives
<1>4. CASE Crash(s)
  BY <1>4, FaultTyped DEF Crash, NoDispatcher, ServerInv, ServerTypeOK, Lives,
                          DispatcherSteps
<1>5. ASSUME NEW caller \in {"stop", "shutdown"}, requestStop(s, caller)
      PROVE  ServerInv'
  <2>1. stops' \in 0 .. MaxStops
    <3>1. stops < MaxStops /\ stops' = stops + 1
      BY <1>5 DEF requestStop
    <3>2. stops \in 0 .. MaxStops /\ MaxStops \in Nat
      BY EngineAssumption DEF ServerInv, ServerTypeOK
    <3> QED BY SMTT(30), <3>1, <3>2
  <2>2. life' \in [Servers -> Lives]
    BY <1>5 DEF requestStop, ServerInv, ServerTypeOK, Lives
  <2> QED BY <1>5, <2>1, <2>2 DEF requestStop, ServerInv, ServerTypeOK
<1> QED BY <1>1, <1>2, <1>3, <1>4, <1>5
        DEF Lifecycle, StopCancel, ShutdownCancel, ShutdownTimeout

\* So does the passing of time.
LEMMA TickTyped ==
  ASSUME ServerInv, EngineTick
  PROVE  ServerInv'
<1>1. ASSUME NEW s \in Servers
      PROVE  hb'[s] \in [tasks : SUBSET Attempts, expiry : Times] \cup {None}
  <2>1. CASE hb[s] # None /\ hb[s].expiry > 0
    <3>1. hb'[s] = [hb[s] EXCEPT !.expiry = @ - 1]
      BY <2>1 DEF EngineTick
    <3>2. hb[s] \in [tasks : SUBSET Attempts, expiry : Times]
      BY <2>1 DEF ServerInv, ServerTypeOK
    <3>3. hb[s].expiry \in Times
      BY <3>2
    <3>4. hb[s].expiry - 1 \in Times
      BY SMTT(30), <2>1, <3>3, StoreAssumption DEF Times
    <3> QED BY <3>1, <3>2, <3>4
  <2>2. CASE ~(hb[s] # None /\ hb[s].expiry > 0)
    BY <2>2 DEF EngineTick, ServerInv, ServerTypeOK
  <2> QED BY <2>1, <2>2
<1> QED BY <1>1 DEF EngineTick, ServerInv, ServerTypeOK

-----------------------------------------------------------------------------
(* Theorems *)

\* Every step of the engine keeps the invariant.
LEMMA EngineStepInv == EngineInv /\ [EngineNext]_engineVars => EngineInv'
<1> SUFFICES ASSUME EngineInv, [EngineNext]_engineVars PROVE EngineInv'
  OBVIOUS
<1>1. Inv'
  BY EngineStoreStep, StepInv DEF EngineInv, StoreStep
<1>2. ASSUME UNCHANGED serverVars
      PROVE  ServerInv'
  BY <1>2 DEF EngineInv, ServerInv, ServerTypeOK, serverVars
<1>3. ServerInv'
  BY <1>2, DispatchTyped, ProcessTyped, HeartbeatTyped, RecoverTyped,
     LifecycleTyped, TickTyped
  DEF EngineInv, EngineNext, Produce, engineVars
<1> QED BY <1>1, <1>3 DEF EngineInv

\* The initial state satisfies it.
LEMMA EngineInitInv == EngineInit => EngineInv
<1> SUFFICES ASSUME EngineInit PROVE EngineInv
  OBVIOUS
<1>1. Inv
  BY InitInv DEF EngineInit
<1>2. NoDispatcher \in [at : DispatcherSteps, att : Attempts \cup {None}]
  BY DEF NoDispatcher, DispatcherSteps
<1>3. faults \in 0 .. MaxFaults /\ stops \in 0 .. MaxStops
  <2>1. faults = 0 /\ stops = 0
    BY DEF EngineInit
  <2>2. MaxFaults \in Nat /\ MaxStops \in Nat
    BY EngineAssumption
  <2> QED BY SMTT(30), <2>1, <2>2
<1>4. /\ life \in [Servers -> Lives] /\ cut \in [Servers -> BOOLEAN]
      /\ outcome \in [Attempts -> Outcomes] /\ metrics \in [Counters -> Nat]
  BY DEF EngineInit, Lives, Outcomes
<1>5. \A s \in Servers : disp[s].at = "offer" <=> disp[s].att # None
  BY DEF EngineInit, NoDispatcher
<1>6. ServerInv
  BY <1>2, <1>3, <1>4, <1>5 DEF EngineInit, ServerInv, ServerTypeOK
<1> QED BY <1>1, <1>6 DEF EngineInv

\* The invariant of store and servers holds in every behaviour of the engine.
THEOREM EngineInvariant == EngineSpec => []EngineInv
  BY EngineInitInv, EngineStepInv, PTL DEF EngineSpec

\* Type correctness of the whole system (EngineTypeOK).
THEOREM EngineTyped == EngineSpec => []EngineTypeOK
<1>1. EngineInv => EngineTypeOK
  BY DEF EngineInv, Inv, ServerInv, EngineTypeOK
<1> QED BY <1>1, EngineInvariant, PTL

\* The servers are callers of the store: whatever dispatchers, workers,
\* heartbeats and recoveries of any number of servers do, Redis goes through a
\* behaviour of RedisStore (UsesStore).
THEOREM EngineUsesStore == EngineSpec => UsesStore
<1>1. EngineInit => StoreInit
  BY DEF EngineInit
<1>2. EngineInv /\ [EngineNext]_engineVars => [StoreNext]_storeVars
  BY EngineStoreStep DEF EngineInv, StoreStep
<1> QED BY <1>1, <1>2, EngineInvariant, PTL DEF EngineSpec, UsesStore, StoreSpec
=============================================================================
