------------------------ MODULE ServerLifecycleProofs ------------------------
(***************************************************************************)
(* Start, Stop, Shutdown and Run for any number of concurrent callers,      *)
(* workers and loops, and any timeout: nil means that everything has ended, *)
(* and only Stop or a timeout cuts work short.                              *)
(*                                                                         *)
(* Neither invariant is inductive.  A caller of Shutdown acts on a channel  *)
(* that a helper closed some steps ago, so the invariant has to say what a  *)
(* closed channel means at every point of Shutdown (CallerInv), that a      *)
(* channel is not closed before the wait begins, and that what has ended    *)
(* stays ended (EndedLasts), which takes that Start acts once.              *)
(***************************************************************************)
EXTENDS ServerLifecycle, TLAPS

Caller == [op : Ops, at : Points, left : 0 .. ShutdownTimeout,
           won : BOOLEAN, result : Results]

Early == {"ready", "serve", "enter", "request", "cancel"}

\* Where a caller is, and what it may rely on there.
CallerInv(c) ==
  /\ call[c].at \in Early => ~helper[c]
  /\ call[c].at \in {"work", "workSelect"} /\ helper[c] => WorkEnded
  /\ call[c].at = "finish" => WorkEnded
  /\ call[c].at \in {"loops", "loopsSelect"} =>
       WorkEnded /\ cancelled /\ (helper[c] => LoopsEnded)
  /\ call[c].result = "clean" => WorkEnded /\ LoopsEnded /\ cancelled
  /\ call[c].at # "returned" => call[c].result = "none"
  /\ call[c].op = "Stop" => call[c].at \in {"ready", "cancel", "returned"}
  /\ call[c].at = "cancel" => call[c].op = "Stop" /\ call[c].won
  /\ call[c].at = "ready" => ~call[c].won

NotStarted == state = "new" => disp.at = "off" /\ loop["wheel"] = "off"

LifeInv ==
  /\ LifeTypeOK
  /\ NotStarted
  /\ \A c \in Callers : CallerInv(c)
  /\ CutByStopOrTimeout

-----------------------------------------------------------------------------
(* What a step does to one caller *)

\* The caller changes its point and perhaps its result; the others stand still.
Moves(c, at, won, result) ==
  /\ call' \in [Callers -> Caller]
  /\ call'[c].at = at /\ call'[c].won = won /\ call'[c].result = result
  /\ call'[c].op = call[c].op
  /\ \A d \in Callers : d # c => call'[d] = call[d]

\* Most leaves are first-order and left to Zenon; one that needs arithmetic or
\* records cites the SMT solver.
USE ZenonT(30)

\* Goto and ReturnWith move a caller.
LEMMA GotoMoves ==
  ASSUME LifeTypeOK, NEW c \in Callers, NEW point \in Points, Goto(c, point)
  PROVE  Moves(c, point, call[c].won, call[c].result)
<1>1. call \in [Callers -> Caller] /\ call[c] \in Caller
  BY DEF LifeTypeOK, Caller
<1>2. call' = [call EXCEPT ![c] = [call[c] EXCEPT !.at = point]]
  BY <1>1 DEF Goto, Caller
<1>3. [call[c] EXCEPT !.at = point] \in Caller
  BY <1>1 DEF Caller
<1> QED BY <1>1, <1>2, <1>3 DEF Moves, Caller

\* ReturnWith, with a result.
LEMMA ReturnMoves ==
  ASSUME LifeTypeOK, NEW c \in Callers, NEW result \in Results,
         ReturnWith(c, result)
  PROVE  Moves(c, "returned", call[c].won, result)
<1>1. call \in [Callers -> Caller] /\ call[c] \in Caller
  BY DEF LifeTypeOK, Caller
<1>2. call' = [call EXCEPT ![c] = [call[c] EXCEPT !.at = "returned",
                                                  !.result = result]]
  BY <1>1 DEF ReturnWith, Caller
<1>3. [call[c] EXCEPT !.at = "returned", !.result = result] \in Caller
  BY <1>1 DEF Caller, Points
<1> QED BY <1>1, <1>2, <1>3 DEF Moves, Caller

-----------------------------------------------------------------------------
(* What has ended stays ended *)

EndedLasts ==
  /\ WorkEnded => WorkEnded'
  /\ LoopsEnded => LoopsEnded'
  /\ cancelled => cancelled'

\* No goroutine that has ended is started again, and no context comes back.
LEMMA EndedStep ==
  ASSUME LifeInv, [LifeNext]_vars
  PROVE  EndedLasts
<1> USE DEF LifeInv
<1>1. cancelled => cancelled'
  BY DEF LifeNext, Call, Start, requestStop, Stop, Shutdown, Enter,
         WaitForWork, Cut, Finish, WaitForLoops, Serve, HelperCloses, Dispatch,
         DispatchTurn, waitOrStop, DispatchWoken, DispatchStops, Requeue,
         HandOff, WorkerDone, HandlerHangs, WorkerEnds, LoopWorks, WheelPops,
         wakeDispatcher, LoopEnds, Tick, vars, callers, goroutines
<1>2. CASE UNCHANGED <<disp, worker, loop>>
  BY <1>1, <1>2 DEF EndedLasts, WorkEnded, LoopsEnded
<1>3. ASSUME NEW c \in Callers, Start(c)
      PROVE  EndedLasts
  <2>1. CASE state # "new"
    BY <1>2, <1>3, <2>1 DEF Start
  <2>2. CASE state = "new"
    <3>1. ~WorkEnded /\ ~LoopsEnded
      BY <2>2 DEF NotStarted, WorkEnded, LoopsEnded, Maintenance
    <3> QED BY <1>1, <3>1 DEF EndedLasts
  <2> QED BY <2>1, <2>2
<1>4. CASE Dispatch
  <2>1. disp.at # "ended" /\ loop' = loop
    BY <1>4 DEF Dispatch, DispatchTurn, waitOrStop, DispatchWoken,
       DispatchStops, Requeue
  <2> QED BY <1>1, <2>1 DEF EndedLasts, WorkEnded, LoopsEnded
<1>5. ASSUME NEW w \in Workers,
             \/ HandOff(w) \/ WorkerDone(w) \/ HandlerHangs(w) \/ WorkerEnds(w)
      PROVE  EndedLasts
  <2>1. worker[w] # "ended" /\ loop' = loop
    BY <1>5 DEF HandOff, WorkerDone, HandlerHangs, WorkerEnds
  <2> QED BY <1>1, <2>1 DEF EndedLasts, WorkEnded, LoopsEnded
<1>6. ASSUME NEW l \in Maintenance, NEW v, loop[l] # "ended" \/ v = "ended",
             loop' = [loop EXCEPT ![l] = v], UNCHANGED <<disp, worker>>
      PROVE  EndedLasts
  BY <1>1, <1>6 DEF EndedLasts, WorkEnded, LoopsEnded, LifeTypeOK
<1>7. CASE \E l \in Loops : LoopWorks(l)
  BY <1>6, <1>7 DEF LoopWorks, Maintenance
<1>8. CASE WheelPops \/ wakeDispatcher
  BY <1>6, <1>8 DEF WheelPops, wakeDispatcher, Maintenance
<1>9. CASE \E l \in Maintenance : LoopEnds(l)
  BY <1>6, <1>9 DEF LoopEnds
<1>10. CASE Tick
  <2>1. disp'.at = disp.at /\ UNCHANGED <<worker, loop>>
    BY <1>10 DEF Tick, LifeTypeOK
  <2> QED BY <1>1, <2>1 DEF EndedLasts, WorkEnded, LoopsEnded
<1>11. CASE \E c \in Callers : \/ requestStop(c) \/ Stop(c) \/ Shutdown(c)
                               \/ Serve(c) \/ HelperCloses(c)
  <2>1. UNCHANGED <<disp, worker, loop>>
    BY <1>11 DEF requestStop, Stop, Shutdown, Enter, WaitForWork, Cut, Finish,
       WaitForLoops, Serve, HelperCloses, goroutines
  <2> QED BY <1>2, <2>1
<1>12. CASE UNCHANGED vars
  BY <1>2, <1>12 DEF vars
<1> QED BY <1>3, <1>4, <1>5, <1>7, <1>8, <1>9, <1>10, <1>11, <1>12
        DEF LifeNext, Call

-----------------------------------------------------------------------------
(* The steps of the callers *)

\* A caller that stands still may rely on what it could rely on before.
LEMMA CallerStands ==
  ASSUME EndedLasts, NEW d \in Callers, CallerInv(d),
         call'[d].at = call[d].at, call'[d].op = call[d].op,
         call'[d].won = call[d].won, call'[d].result = call[d].result,
         helper'[d] = helper[d]
  PROVE  CallerInv(d)'
BY DEF CallerInv, EndedLasts

\* Who cut the work short is not forgotten, and nobody else does it.
LEMMA CutLasts ==
  ASSUME LifeInv, EndedLasts, cancelled' = cancelled,
         \A d \in Callers : /\ call'[d].op = call[d].op
                            /\ call[d].op = "Stop" /\ call[d].won =>
                                 call'[d].won
                            /\ call[d].result = "cut" =>
                                 call'[d].result = "cut"
  PROVE  CutByStopOrTimeout'
BY DEF LifeInv, CutByStopOrTimeout, EndedLasts

\* What is left to show of a step of caller c that leaves the goroutines alone.
LEMMA CallerStep ==
  ASSUME LifeInv, EndedLasts, NEW c \in Callers, NEW at, NEW won, NEW result,
         Moves(c, at, won, result), UNCHANGED goroutines,
         state' \in {state, "stopped"}, stopCh' \in BOOLEAN,
         cancelled' \in BOOLEAN, helper' \in [Callers -> BOOLEAN],
         \A d \in Callers : d # c => helper'[d] = helper[d],
         CallerInv(c)',
         \/ CutByStopOrTimeout'
         \/ /\ cancelled' = cancelled
            /\ call[c].op = "Stop" /\ call[c].won => won
            /\ call[c].result = "cut" => result = "cut"
  PROVE  LifeInv'
<1>1. LifeTypeOK'
  BY SMTT(30) DEF LifeInv, LifeTypeOK, Moves, Caller, goroutines
<1>2. NotStarted'
  BY DEF LifeInv, NotStarted, goroutines
<1>3. \A d \in Callers : CallerInv(d)'
  BY CallerStands DEF LifeInv, Moves
<1>4. CutByStopOrTimeout'
  BY CutLasts DEF Moves
<1> QED BY <1>1, <1>2, <1>3, <1>4 DEF LifeInv

\* Start, by itself or in Run.
LEMMA StartKeeps ==
  ASSUME LifeInv, EndedLasts, NEW c \in Callers, Start(c)
  PROVE  LifeInv'
<1>1. call[c].at = "ready" /\ call[c].op \in {"Start", "Run"}
  BY DEF Start, Calling
<1>2. PICK at \in {"serve", "returned"},
           result \in {call[c].result, "refused", "started"} :
        /\ Moves(c, at, call[c].won, result)
        /\ at # "returned" => result = call[c].result
  <2>1. "serve" \in Points /\ {"refused", "started"} \subseteq Results
    BY DEF Points, Results
  <2>2. LifeTypeOK
    BY DEF LifeInv
  <2>3. \/ Goto(c, "serve")
        \/ ReturnWith(c, "refused")
        \/ ReturnWith(c, "started")
    BY DEF Start
  <2> QED BY <2>1, <2>2, <2>3, GotoMoves, ReturnMoves
<1>3. UNCHANGED <<stopCh, cancelled, token, event, helper>>
  BY DEF Start
<1>4. CallerInv(c) /\ call[c].result = "none" /\ ~helper[c]
  BY <1>1 DEF LifeInv, CallerInv, Early
<1>5. CallerInv(c)'
  BY <1>1, <1>2, <1>3, <1>4 DEF CallerInv, Moves, Early
<1>6. CASE state # "new"
  <2>1. UNCHANGED <<state, goroutines>>
    BY <1>3, <1>6 DEF Start, goroutines
  <2> QED BY <1>2, <1>3, <1>4, <1>5, <2>1, CallerStep DEF LifeInv, LifeTypeOK
<1>7. CASE state = "new"
  <2>1. /\ state' = "running" /\ disp' = [at |-> "head", left |-> 0]
        /\ worker' = [w \in Workers |-> "idle"]
        /\ loop' = [l \in Maintenance |-> "select"]
    BY <1>7 DEF Start
  <2>2. call' \in [Callers -> Caller]
    BY <1>2 DEF Moves
  <2>3. LifeTypeOK'
    BY SMTT(30), <1>3, <2>1, <2>2, LifeAssumption DEF LifeInv, LifeTypeOK, Caller
  <2>4. NotStarted'
    BY <2>1 DEF NotStarted
  <2>5. \A d \in Callers : CallerInv(d)'
    BY <1>2, <1>3, <1>5, CallerStands DEF LifeInv, Moves
  <2>6. CutByStopOrTimeout'
    BY <1>2, <1>3, <1>4, CutLasts DEF Moves
  <2> QED BY <2>3, <2>4, <2>5, <2>6 DEF LifeInv
<1> QED BY <1>6, <1>7

\* The beginnings of Stop and Shutdown.
LEMMA BeginKeeps ==
  ASSUME LifeInv, EndedLasts, NEW c \in Callers,
         Serve(c) \/ Enter(c) \/ requestStop(c)
  PROVE  LifeInv'
<1>1. LifeTypeOK /\ CallerInv(c)
  BY DEF LifeInv
<1>2. UNCHANGED <<cancelled, goroutines, helper>>
  BY DEF Serve, Enter, requestStop
<1>3. CASE Serve(c)
  <2>1. Moves(c, "enter", call[c].won, call[c].result)
    BY <1>1, <1>3, GotoMoves DEF Serve, Points
  <2>2. CallerInv(c)'
    BY <1>1, <1>2, <1>3, <2>1 DEF Serve, At, CallerInv, Moves, Early
  <2> QED BY <1>1, <1>2, <1>3, <2>1, <2>2, CallerStep DEF Serve, LifeTypeOK
<1>4. CASE Enter(c)
  <2>1. call[c].at \in {"ready", "enter"} /\ call[c].op # "Stop"
    BY <1>1, <1>4 DEF Enter, Calling, At, CallerInv
  <2>2. CASE state = "new"
    <3>1. Moves(c, "returned", call[c].won, "unstarted")
      BY <1>1, <1>4, <2>2, ReturnMoves DEF Enter, Results
    <3>2. CallerInv(c)'
      BY <1>1, <1>2, <2>1, <3>1 DEF CallerInv, Moves, Early
    <3> QED BY SMTT(30), <1>1, <1>2, <1>4, <2>1, <3>1, <3>2, CallerStep
            DEF Enter, LifeTypeOK, CallerInv
  <2>3. CASE state # "new"
    <3>1. Moves(c, "request", call[c].won, call[c].result)
      BY SMTT(30), <1>1, <1>4, <2>3, LifeAssumption
      DEF Enter, LifeTypeOK, Moves, Caller, Points
    <3>2. CallerInv(c)'
      BY <1>1, <1>2, <2>1, <3>1 DEF CallerInv, Moves, Early
    <3> QED BY <1>1, <1>2, <1>4, <2>1, <3>1, <3>2, CallerStep
            DEF Enter, LifeTypeOK
  <2> QED BY <2>2, <2>3
<1>5. CASE requestStop(c)
  <2>1. /\ call[c].at \in {"ready", "request"} /\ call[c].result = "none"
        /\ call[c].op = "Stop" => ~call[c].won
        /\ ~helper[c]
    BY <1>1, <1>5 DEF requestStop, Calling, At, CallerInv, Early
  <2>2. PICK won \in BOOLEAN, at \in {"work", "cancel", "returned"},
             result \in {"none", "stopped"} :
          /\ won = (state = "running") /\ at = AfterRequest(call[c].op, won)
          /\ result = (IF at = "returned" THEN "stopped" ELSE "none")
    BY DEF AfterRequest
  <2>3. Moves(c, at, won, result)
    <3>1. call' = [call EXCEPT ![c].won = won, ![c].at = at,
                               ![c].result = result]
      BY <1>5, <2>1, <2>2 DEF requestStop
    <3>2. call[c] \in Caller /\ call \in [Callers -> Caller]
      BY <1>1 DEF LifeTypeOK, Caller
    <3>3. call' = [call EXCEPT ![c] =
                     [call[c] EXCEPT !.won = won, !.at = at, !.result = result]]
      BY <3>1, <3>2 DEF Caller
    <3>4. [call[c] EXCEPT !.won = won, !.at = at, !.result = result] \in Caller
      BY <3>2 DEF Caller, Points, Results
    <3> QED BY <3>2, <3>3, <3>4 DEF Moves, Caller
  <2>4. CallerInv(c)'
    BY <1>1, <1>2, <2>1, <2>2, <2>3 DEF CallerInv, Moves, Early, AfterRequest
  <2>5. state' \in {state, "stopped"} /\ stopCh' \in BOOLEAN
    BY <1>5 DEF requestStop
  <2> QED BY <1>1, <1>2, <2>1, <2>3, <2>4, <2>5, CallerStep DEF LifeTypeOK
<1> QED BY <1>3, <1>4, <1>5

\* s.cancel(): by the Stop that stopped the server, by a Shutdown whose time
\* is up, or by one that has seen the work end.
LEMMA CancelKeeps ==
  ASSUME LifeInv, EndedLasts, NEW c \in Callers, Stop(c) \/ Cut(c) \/ Finish(c)
  PROVE  LifeInv'
<1>1. LifeTypeOK /\ CallerInv(c)
  BY DEF LifeInv
<1>2. UNCHANGED <<state, stopCh, goroutines>> /\ cancelled' = TRUE
  BY DEF Stop, Cut, Finish
<1>3. CASE Stop(c)
  <2>1. Moves(c, "returned", call[c].won, "stopped") /\ helper' = helper
    BY <1>1, <1>3, ReturnMoves DEF Stop, Results
  <2>2. call[c].op = "Stop" /\ call[c].won
    BY <1>1, <1>3 DEF Stop, At, CallerInv
  <2>3. CallerInv(c)' /\ CutByStopOrTimeout'
    BY <1>1, <1>2, <2>1, <2>2 DEF CallerInv, Moves, Early, CutByStopOrTimeout
  <2> QED BY <1>1, <1>2, <2>1, <2>3, CallerStep DEF LifeTypeOK
<1>4. CASE Cut(c)
  <2>1. Moves(c, "returned", call[c].won, "cut") /\ helper' = helper
    BY <1>1, <1>4, ReturnMoves DEF Cut, Results
  <2>2. call[c].op # "Stop"
    BY <1>1, <1>4 DEF Cut, At, CallerInv
  <2>3. CallerInv(c)' /\ CutByStopOrTimeout'
    BY <1>1, <1>2, <2>1, <2>2 DEF CallerInv, Moves, Early, CutByStopOrTimeout
  <2> QED BY <1>1, <1>2, <2>1, <2>3, CallerStep DEF LifeTypeOK
<1>5. CASE Finish(c)
  <2>1. /\ Moves(c, "loops", call[c].won, call[c].result)
        /\ helper' = [helper EXCEPT ![c] = FALSE]
    BY <1>1, <1>5, GotoMoves DEF Finish, Points
  <2>2. WorkEnded' /\ call[c].op # "Stop" /\ call[c].result = "none"
    BY <1>1, <1>5 DEF Finish, At, CallerInv, EndedLasts
  <2>3. /\ helper' \in [Callers -> BOOLEAN] /\ helper'[c] = FALSE
        /\ \A d \in Callers : d # c => helper'[d] = helper[d]
    BY <1>1, <2>1 DEF LifeTypeOK
  <2>4. CallerInv(c)' /\ CutByStopOrTimeout'
    BY <1>1, <1>2, <2>1, <2>2, <2>3
    DEF CallerInv, Moves, Early, CutByStopOrTimeout
  <2> QED BY <1>1, <1>2, <2>1, <2>3, <2>4, CallerStep DEF LifeTypeOK
<1> QED BY <1>3, <1>4, <1>5

\* The two waits of Shutdown: what a closed channel says is still true.
LEMMA WaitKeeps ==
  ASSUME LifeInv, EndedLasts, NEW c \in Callers,
         WaitForWork(c) \/ WaitForLoops(c)
  PROVE  LifeInv'
<1>1. LifeTypeOK /\ CallerInv(c)
  BY DEF LifeInv
<1>2. UNCHANGED <<state, stopCh, cancelled, goroutines, helper>>
  BY DEF WaitForWork, WaitForLoops
<1>3. /\ {"workSelect", "finish", "cut", "loopsSelect"} \subseteq Points
      /\ {"clean", "late"} \subseteq Results
  BY DEF Points, Results
<1>4. CASE WaitForWork(c)
  <2>1. /\ call[c].at \in {"work", "workSelect"}
        /\ \/ Goto(c, "workSelect") \/ Goto(c, "cut")
           \/ Goto(c, "finish") /\ helper[c]
    BY <1>4 DEF WaitForWork, waitUntil, At
  <2>2. PICK at \in {"workSelect", "cut", "finish"} :
          /\ Moves(c, at, call[c].won, call[c].result)
          /\ at = "finish" => helper[c]
    BY <1>1, <1>3, <2>1, GotoMoves
  <2>3. CallerInv(c)'
    BY <1>1, <1>2, <2>1, <2>2 DEF CallerInv, Moves, Early, EndedLasts
  <2> QED BY <1>1, <1>2, <2>2, <2>3, CallerStep DEF LifeTypeOK
<1>5. CASE WaitForLoops(c)
  <2>1. /\ call[c].at \in {"loops", "loopsSelect"}
        /\ \/ Goto(c, "loopsSelect") \/ ReturnWith(c, "late")
           \/ ReturnWith(c, "clean") /\ helper[c]
    BY <1>5 DEF WaitForLoops, waitUntil, At
  <2>2. /\ WorkEnded' /\ cancelled' /\ call[c].result = "none"
        /\ helper[c] => LoopsEnded'
        /\ call[c].op # "Stop"
    BY <1>1, <2>1 DEF CallerInv, EndedLasts
  <2>3. CASE Goto(c, "loopsSelect")
    <3>1. Moves(c, "loopsSelect", call[c].won, call[c].result)
      BY <1>1, <1>3, <2>3, GotoMoves
    <3>2. CallerInv(c)'
      BY <1>1, <1>2, <2>2, <3>1 DEF CallerInv, Moves, Early
    <3> QED BY <1>1, <1>2, <3>1, <3>2, CallerStep DEF LifeTypeOK
  <2>4. ASSUME NEW result \in {"late", "clean"}, ReturnWith(c, result),
               result = "clean" => helper[c]
        PROVE  LifeInv'
    <3>1. Moves(c, "returned", call[c].won, result)
      BY <1>1, <1>3, <2>4, ReturnMoves
    <3>2. CallerInv(c)'
      BY <1>1, <1>2, <2>2, <2>4, <3>1 DEF CallerInv, Moves, Early
    <3> QED BY <1>1, <1>2, <2>2, <3>1, <3>2, CallerStep DEF LifeTypeOK
  <2> QED BY <2>1, <2>3, <2>4
<1> QED BY <1>4, <1>5

\* A helper closes its channel only when what it waits for has ended.
LEMMA HelperKeeps ==
  ASSUME LifeInv, EndedLasts, NEW c \in Callers, HelperCloses(c)
  PROVE  LifeInv'
<1>1. LifeTypeOK /\ CallerInv(c)
  BY DEF LifeInv
<1>2. UNCHANGED <<state, stopCh, cancelled, call, goroutines>>
  BY DEF HelperCloses
<1>3. /\ helper' \in [Callers -> BOOLEAN]
      /\ \A d \in Callers : d # c => helper'[d] = helper[d]
  BY <1>1 DEF HelperCloses, LifeTypeOK
<1>4. CallerInv(c)'
  BY SMTT(30), <1>1, <1>2 DEF HelperCloses, CallerInv, Early, EndedLasts
<1>5. Moves(c, call[c].at, call[c].won, call[c].result)
  BY <1>1, <1>2 DEF Moves, LifeTypeOK, Caller
<1> QED BY <1>1, <1>2, <1>3, <1>4, <1>5, CallerStep DEF LifeTypeOK

-----------------------------------------------------------------------------
(* The steps of the goroutines and of time *)

Disp == [at : {"off", "head", "hold", "wait", "ended"}, left : 0 .. MaxWait]

Event == [at : {"none", "queued", "callback"}, left : 0 .. MaxWait]

\* The values without a wait.
LEMMA AtRest ==
  /\ [at |-> "none", left |-> 0] \in Event
  /\ \A at \in {"off", "head", "ended"} : [at |-> at, left |-> 0] \in Disp
<1>1. 0 \in 0 .. MaxWait
  BY SMTT(30), LifeAssumption
<1> QED BY <1>1 DEF Event, Disp

\* A goroutine's step concerns no caller, and none runs before Start.
LEMMA GoroutineKeeps ==
  ASSUME LifeInv, EndedLasts, UNCHANGED callers, NotStarted',
         disp' \in Disp,
         token' \in BOOLEAN,
         event' \in Event,
         worker' \in [Workers -> {"off", "idle", "busy", "hung", "ended"}],
         loop' \in [Maintenance -> {"off", "select", "call", "ended"}]
  PROVE  LifeInv'
<1>1. LifeTypeOK'
  BY DEF LifeInv, LifeTypeOK, callers, Disp, Event
<1>2. \A d \in Callers : CallerInv(d)'
  BY CallerStands DEF LifeInv, callers
<1>3. CutByStopOrTimeout'
  BY CutLasts DEF callers
<1> QED BY <1>1, <1>2, <1>3 DEF LifeInv

\* The dispatcher.
LEMMA DispatchKeeps ==
  ASSUME LifeInv, EndedLasts, Dispatch
  PROVE  LifeInv'
<1>1. UNCHANGED <<callers, worker, loop>>
  BY DEF Dispatch, DispatchTurn, waitOrStop, DispatchWoken, DispatchStops,
         Requeue
<1>2. NotStarted'
  BY <1>1 DEF LifeInv, NotStarted, callers, Dispatch, DispatchTurn, waitOrStop,
              DispatchWoken, DispatchStops, Requeue
<1>3. MaxWait \in Nat /\ LifeTypeOK
  BY LifeAssumption DEF LifeInv
<1>4. /\ disp' \in Disp
      /\ token' \in BOOLEAN
      /\ event' \in Event
  <2>1. CASE DispatchTurn \/ Requeue
    <3>1. PICK at \in {"hold", "ended"} : disp' = [disp EXCEPT !.at = at]
      BY <2>1 DEF DispatchTurn, Requeue
    <3>2. UNCHANGED <<token, event>>
      BY <2>1 DEF DispatchTurn, Requeue
    <3> QED BY <1>3, <3>1, <3>2 DEF LifeTypeOK, Disp, Event
  <2>2. CASE waitOrStop
    <3>1. PICK duration \in 1 .. MaxWait :
            /\ disp' = [at |-> "wait", left |-> duration]
            /\ event' = [at |-> "queued", left |-> duration]
      BY <2>2 DEF waitOrStop
    <3>2. duration \in 0 .. MaxWait /\ token' = token
      BY SMTT(30), <1>3, <2>2 DEF waitOrStop
    <3> QED BY <1>3, <3>1, <3>2 DEF LifeTypeOK, Disp, Event
  <2>3. CASE DispatchWoken \/ DispatchStops
    <3>1. event \in Event /\ token \in BOOLEAN
      BY <1>3 DEF LifeTypeOK, Event
    <3>2. PICK at \in {"head", "ended"} : disp' = [at |-> at, left |-> 0]
      BY <2>3 DEF DispatchWoken, DispatchStops
    <3>3. /\ event' \in {event, [at |-> "none", left |-> 0]}
          /\ token' \in {token, FALSE}
      BY <2>3 DEF DispatchWoken, DispatchStops
    <3> QED BY <3>1, <3>2, <3>3, AtRest
  <2> QED BY <2>1, <2>2, <2>3 DEF Dispatch
<1> QED BY <1>1, <1>2, <1>3, <1>4, GoroutineKeeps DEF LifeTypeOK, Disp, Event

\* The workers.
LEMMA WorkerKeeps ==
  ASSUME LifeInv, EndedLasts, NEW w \in Workers,
         HandOff(w) \/ WorkerDone(w) \/ HandlerHangs(w) \/ WorkerEnds(w)
  PROVE  LifeInv'
<1>1. UNCHANGED <<callers, token, event, loop>>
  BY DEF HandOff, WorkerDone, HandlerHangs, WorkerEnds
<1>2. NotStarted'
  BY <1>1 DEF LifeInv, NotStarted, callers, HandOff, WorkerDone, HandlerHangs,
              WorkerEnds
<1>3. LifeTypeOK
  BY DEF LifeInv
<1>4. /\ disp' \in Disp
      /\ worker' \in [Workers -> {"off", "idle", "busy", "hung", "ended"}]
  <2>1. PICK v \in {"idle", "busy", "hung", "ended"} :
          worker' = [worker EXCEPT ![w] = v]
    BY DEF HandOff, WorkerDone, HandlerHangs, WorkerEnds
  <2>2. disp' = disp \/ disp' = [disp EXCEPT !.at = "head"]
    BY DEF HandOff, WorkerDone, HandlerHangs, WorkerEnds
  <2> QED BY <1>3, <2>1, <2>2 DEF LifeTypeOK, Disp
<1> QED BY <1>1, <1>2, <1>3, <1>4, GoroutineKeeps DEF LifeTypeOK, Disp, Event

\* The maintenance loops, the timer among them.
LEMMA LoopKeeps ==
  ASSUME LifeInv, EndedLasts,
         \/ \E l \in Loops : LoopWorks(l)
         \/ WheelPops \/ wakeDispatcher
         \/ \E l \in Maintenance : LoopEnds(l)
  PROVE  LifeInv'
<1>1. UNCHANGED <<callers, disp, worker>>
  BY DEF LoopWorks, WheelPops, wakeDispatcher, LoopEnds
<1>2. LifeTypeOK /\ NotStarted /\ MaxWait \in Nat
  BY LifeAssumption DEF LifeInv
<1>3. /\ token' \in BOOLEAN
      /\ event' \in Event
  <2>1. /\ token' \in {token, TRUE}
        /\ \/ event' \in {event, [at |-> "none", left |-> 0]}
           \/ event' = [event EXCEPT !.at = "callback"]
    BY DEF LoopWorks, WheelPops, wakeDispatcher, LoopEnds
  <2>2. [event EXCEPT !.at = "callback"] \in Event /\ event \in Event
    BY <1>2 DEF LifeTypeOK, Event
  <2> QED BY <1>2, <2>1, <2>2, AtRest DEF LifeTypeOK
<1>4. PICK l \in Maintenance, v \in {"select", "call", "ended"} :
        /\ loop' = [loop EXCEPT ![l] = v]
        /\ l = "wheel" => loop[l] # "off"
  BY LifeAssumption DEF LoopWorks, WheelPops, wakeDispatcher, LoopEnds,
                        Maintenance
<1>5. loop' \in [Maintenance -> {"off", "select", "call", "ended"}]
  BY <1>2, <1>4 DEF LifeTypeOK
<1>6. NotStarted'
  BY <1>1, <1>2, <1>4 DEF NotStarted, callers, LifeTypeOK, Maintenance
<1> QED BY <1>1, <1>2, <1>3, <1>5, <1>6, GoroutineKeeps DEF LifeTypeOK, Disp, Event

\* Time passes.
LEMMA TickKeeps ==
  ASSUME LifeInv, EndedLasts, Tick
  PROVE  LifeInv'
<1>1. LifeTypeOK /\ NotStarted /\ MaxWait \in Nat /\ ShutdownTimeout \in Nat
  BY LifeAssumption DEF LifeInv
<1>2. \A n \in Nat : \A k \in 0 .. n : Minus(k) \in 0 .. n
  BY SMTT(30) DEF Minus
<1>3. \A c \in Callers :
        /\ call'[c] = [call[c] EXCEPT !.left = Minus(@)]
        /\ call'[c] \in Caller
        /\ call'[c].at = call[c].at /\ call'[c].op = call[c].op
        /\ call'[c].won = call[c].won /\ call'[c].result = call[c].result
  BY SMTT(30), <1>1, <1>2 DEF Tick, LifeTypeOK, Caller
<1>4. call' \in [Callers -> Caller]
  BY <1>3 DEF Tick
<1>5. /\ disp' \in Disp
      /\ event' \in Event
      /\ disp'.at = disp.at
  BY <1>1, <1>2 DEF Tick, LifeTypeOK, Disp, Event
<1>6. UNCHANGED <<state, stopCh, cancelled, token, worker, loop, helper>>
  BY DEF Tick
<1>7. LifeTypeOK' /\ NotStarted'
  BY <1>1, <1>4, <1>5, <1>6 DEF LifeTypeOK, NotStarted, Caller, Disp, Event
<1>8. \A c \in Callers : CallerInv(c)'
  BY <1>3, <1>6, CallerStands DEF LifeInv
<1>9. CutByStopOrTimeout'
  BY <1>3, <1>6, CutLasts
<1> QED BY <1>7, <1>8, <1>9 DEF LifeInv

-----------------------------------------------------------------------------
(* The theorems *)

\* A new server satisfies the invariant.
LEMMA NewInv == New => LifeInv
<1> SUFFICES ASSUME New PROVE LifeInv
  OBVIOUS
<1>1. PICK op \in [Callers -> Ops] :
        call = [c \in Callers |-> [op |-> op[c], at |-> "ready", left |-> 0,
                                   won |-> FALSE, result |-> "none"]]
  BY DEF New
<1>2. call \in [Callers -> Caller]
  BY SMTT(30), <1>1, LifeAssumption DEF Caller, Points, Results
<1>3. LifeTypeOK
  <2>1. disp \in Disp /\ event \in Event
    BY AtRest DEF New
  <2>2. /\ worker \in [Workers -> {"off", "idle", "busy", "hung", "ended"}]
        /\ loop \in [Maintenance -> {"off", "select", "call", "ended"}]
        /\ helper \in [Callers -> BOOLEAN]
    BY DEF New
  <2> QED BY <1>2, <2>1, <2>2 DEF New, LifeTypeOK, Caller, Disp, Event
<1>4. NotStarted /\ CutByStopOrTimeout
  BY DEF New, NotStarted, CutByStopOrTimeout, Maintenance
<1>5. ASSUME NEW c \in Callers PROVE CallerInv(c)
  BY <1>1 DEF New, CallerInv, Early
<1> QED BY <1>3, <1>4, <1>5 DEF LifeInv

\* LifeInv is an invariant of a server with any callers.
THEOREM LifeInvariant == LifeSpec => []LifeInv
<1>1. LifeInv /\ [LifeNext]_vars => LifeInv'
  <2> SUFFICES ASSUME LifeInv, [LifeNext]_vars PROVE LifeInv'
    OBVIOUS
  <2>1. EndedLasts
    BY EndedStep
  <2>2. CASE \E c \in Callers : Call(c) \/ Serve(c) \/ HelperCloses(c)
    BY <2>1, <2>2, StartKeeps, BeginKeeps, CancelKeeps, WaitKeeps, HelperKeeps
    DEF Call, Shutdown
  <2>3. CASE Dispatch \/ Tick
    BY <2>1, <2>3, DispatchKeeps, TickKeeps
  <2>4. CASE \E w \in Workers : \/ HandOff(w) \/ WorkerDone(w)
                                \/ HandlerHangs(w) \/ WorkerEnds(w)
    BY <2>1, <2>4, WorkerKeeps
  <2>5. CASE \/ \E l \in Loops : LoopWorks(l)
             \/ WheelPops \/ wakeDispatcher
             \/ \E l \in Maintenance : LoopEnds(l)
    BY <2>1, <2>5, LoopKeeps
  <2>6. CASE UNCHANGED vars
    <3>1. UNCHANGED <<callers, goroutines>>
      BY <2>6 DEF vars, callers, goroutines
    <3>2. NotStarted'
      BY <3>1 DEF LifeInv, NotStarted, callers, goroutines
    <3> QED BY <2>1, <3>1, <3>2, GoroutineKeeps
            DEF LifeInv, LifeTypeOK, Disp, Event, goroutines
  <2> QED BY <2>2, <2>3, <2>4, <2>5, <2>6 DEF LifeNext
<1> QED BY <1>1, NewInv, PTL DEF LifeSpec

\* Shutdown and Run return nil only when dispatcher, workers and loops have
\* ended, whoever else is calling.
THEOREM LifeCleanMeansEnded == LifeSpec => []CleanMeansEnded
<1>1. LifeInv => CleanMeansEnded
  BY DEF LifeInv, CallerInv, CleanMeansEnded
<1> QED BY <1>1, LifeInvariant, PTL

\* Unfinished work is cut short only by the Stop that stopped the server or by
\* a Shutdown whose time is up.
THEOREM LifeCutByStopOrTimeout == LifeSpec => []CutByStopOrTimeout
<1>1. LifeInv => CutByStopOrTimeout
  BY DEF LifeInv
<1> QED BY <1>1, LifeInvariant, PTL

\* Every variable of the server stays within its type.
THEOREM LifeTyped == LifeSpec => []LifeTypeOK
<1>1. LifeInv => LifeTypeOK
  BY DEF LifeInv
<1> QED BY <1>1, LifeInvariant, PTL

-----------------------------------------------------------------------------
(* The wake-ups of the dispatcher *)

\* One wake-up for every wait, and none without: it is in the timer, in the
\* hands of the timer's goroutine or in the channel, and reaches the channel
\* when the wait is over.
WakeInv ==
  /\ loop["wheel"] = "call" <=> event.at = "callback"
  /\ disp.at \in {"off", "head", "hold"} => event.at = "none" /\ ~token
  /\ disp.at = "wait" =>
       /\ event.at = "queued" => event.left = disp.left /\ ~token
       /\ event.at = "callback" => disp.left = 0 /\ ~token
       /\ event.at = "none" => disp.left = 0 /\ token

\* What the wake-up depends on.
wakes == <<disp, token, event, loop["wheel"]>>

\* The dispatcher takes one wake-up for one wait.
LEMMA DispatchWakes ==
  ASSUME LifeInv, WakeInv, Dispatch
  PROVE  WakeInv'
<1>1. CASE DispatchTurn \/ Requeue
  BY SMTT(30), <1>1 DEF WakeInv, DispatchTurn, Requeue, LifeInv, LifeTypeOK
<1>2. CASE waitOrStop
  BY SMTT(30), <1>2 DEF WakeInv, waitOrStop
<1>3. CASE DispatchWoken
  BY SMTT(30), <1>3 DEF WakeInv, DispatchWoken, LifeInv, LifeTypeOK
<1>4. CASE DispatchStops
  BY SMTT(30), <1>4 DEF WakeInv, DispatchStops
<1> QED BY <1>1, <1>2, <1>3, <1>4 DEF Dispatch

\* The timer hands the wake-up on when the wait is over, and once.
LEMMA TimerWakes ==
  ASSUME LifeInv, WakeInv, WheelPops \/ wakeDispatcher \/ Tick
  PROVE  WakeInv'
<1>1. /\ loop \in [Maintenance -> {"off", "select", "call", "ended"}]
      /\ "wheel" \in Maintenance
      /\ disp \in Disp /\ event \in Event
  BY DEF LifeInv, LifeTypeOK, Maintenance, Disp, Event
<1>2. CASE WheelPops
  <2>1. /\ loop'["wheel"] = "call" /\ event'.at = "callback"
        /\ disp' = disp /\ token' = token
        /\ event.at = "queued" /\ event.left = 0
    BY <1>1, <1>2 DEF WheelPops, Event
  <2> QED BY <2>1 DEF WakeInv
<1>3. CASE wakeDispatcher
  <2>1. /\ loop'["wheel"] = "select" /\ event'.at = "none"
        /\ disp' = disp /\ token' = TRUE
        /\ event.at = "callback"
    BY <1>1, <1>3 DEF wakeDispatcher, Event, WakeInv
  <2> QED BY <2>1 DEF WakeInv
<1>4. CASE Tick
  <2>1. /\ disp'.at = disp.at /\ disp'.left = Minus(disp.left)
        /\ event'.at = event.at /\ event'.left = Minus(event.left)
        /\ token' = token /\ loop' = loop
    BY <1>1, <1>4 DEF Tick, Disp, Event
  <2>2. Minus(0) = 0
    BY SMTT(30) DEF Minus
  <2> QED BY <2>1, <2>2 DEF WakeInv
<1> QED BY <1>2, <1>3, <1>4

\* Start finds no wake-up, and the other steps touch none.
LEMMA OthersWake ==
  ASSUME LifeInv, WakeInv,
         \/ \E c \in Callers : Call(c) \/ Serve(c) \/ HelperCloses(c)
         \/ \E w \in Workers : \/ HandOff(w) \/ WorkerDone(w)
                                \/ HandlerHangs(w) \/ WorkerEnds(w)
         \/ \E l \in Loops : LoopWorks(l)
         \/ \E l \in Maintenance : LoopEnds(l)
         \/ UNCHANGED vars
  PROVE  WakeInv'
<1>1. /\ loop \in [Maintenance -> {"off", "select", "call", "ended"}]
      /\ "wheel" \in Maintenance /\ "wheel" \notin Loops
      /\ disp \in Disp
  BY LifeAssumption DEF LifeInv, LifeTypeOK, Maintenance, Disp
<1>2. CASE \E c \in Callers : Start(c) /\ state = "new"
  <2>1. /\ disp'.at = "head" /\ loop'["wheel"] = "select"
        /\ UNCHANGED <<token, event>>
    <3>1. /\ disp' = [at |-> "head", left |-> 0]
          /\ loop' = [l \in Maintenance |-> "select"]
          /\ UNCHANGED <<token, event>>
      BY <1>2 DEF Start
    <3> QED BY <1>1, <3>1
  <2>2. disp.at = "off" /\ loop["wheel"] = "off"
    BY <1>2 DEF LifeInv, NotStarted
  <2> QED BY <2>1, <2>2 DEF WakeInv
<1>3. CASE \E w \in Workers : HandOff(w)
  <2>1. /\ disp.at = "hold" /\ disp'.at = "head"
        /\ UNCHANGED <<token, event, loop>>
    BY <1>1, <1>3 DEF HandOff, Disp
  <2> QED BY <2>1 DEF WakeInv
<1>4. CASE \E l \in Maintenance : LoopEnds(l)
  <2>1. /\ UNCHANGED <<disp, token, event>>
        /\ loop'["wheel"] = "call" <=> loop["wheel"] = "call"
    BY <1>1, <1>4 DEF LoopEnds
  <2> QED BY <2>1 DEF WakeInv
<1>5. CASE UNCHANGED wakes
  BY <1>5 DEF WakeInv, wakes
<1>6. CASE \E c \in Callers : Call(c) \/ Serve(c) \/ HelperCloses(c)
  <2>1. UNCHANGED wakes \/ \E c \in Callers : Start(c) /\ state = "new"
    BY <1>6 DEF Call, Start, requestStop, Stop, Shutdown, Enter, WaitForWork,
       Cut, Finish, WaitForLoops, Serve, HelperCloses, goroutines, wakes
  <2> QED BY <1>2, <1>5, <2>1
<1>7. CASE \/ \E w \in Workers : WorkerDone(w) \/ HandlerHangs(w) \/ WorkerEnds(w)
           \/ \E l \in Loops : LoopWorks(l)
           \/ UNCHANGED vars
  <2>1. UNCHANGED wakes
    BY <1>1, <1>7 DEF WorkerDone, HandlerHangs, WorkerEnds, LoopWorks, vars, wakes
  <2> QED BY <1>5, <2>1
<1> QED BY <1>3, <1>4, <1>6, <1>7

\* WakeInv is an invariant, and with it waitOrStop returns true only when its
\* time is over, whatever the length of the wait and of those before it.
THEOREM LifeWaitLasts == LifeSpec => WaitLasts
<1>1. New => WakeInv
  BY SMTT(30) DEF New, WakeInv, Maintenance
<1>2. LifeInv /\ WakeInv /\ [LifeNext]_vars => WakeInv'
  <2> SUFFICES ASSUME LifeInv, WakeInv, [LifeNext]_vars PROVE WakeInv'
    OBVIOUS
  <2>1. CASE Dispatch
    BY <2>1, DispatchWakes
  <2>2. CASE WheelPops \/ wakeDispatcher \/ Tick
    BY <2>2, TimerWakes
  <2>3. CASE ~ (Dispatch \/ WheelPops \/ wakeDispatcher \/ Tick)
    BY <2>3, OthersWake DEF LifeNext
  <2> QED BY <2>1, <2>2, <2>3
<1>3. LifeInv /\ WakeInv /\ [LifeNext]_vars =>
        (disp.at = "wait" /\ disp'.at = "head" => disp.left = 0)
  <2> SUFFICES ASSUME LifeInv, WakeInv, [LifeNext]_vars,
                      disp.at = "wait", disp'.at = "head"
               PROVE  disp.left = 0
    OBVIOUS
  <2>1. DispatchWoken
    <3>1. disp \in Disp /\ disp'.at # disp.at /\ state # "new"
      BY DEF LifeInv, LifeTypeOK, Disp, NotStarted
    <3>2. Dispatch
      BY <3>1 DEF LifeNext, Call, Start, requestStop, Stop, Shutdown, Enter,
         WaitForWork, Cut, Finish, WaitForLoops, Serve, HelperCloses,
         goroutines, HandOff, WorkerDone, HandlerHangs, WorkerEnds, LoopWorks,
         WheelPops, wakeDispatcher, LoopEnds, Tick, vars, Disp
    <3>3. ~ DispatchStops
      BY SMTT(30) DEF DispatchStops
    <3> QED BY <3>2, <3>3 DEF Dispatch, DispatchTurn, waitOrStop, Requeue
  <2>2. token
    BY <2>1 DEF DispatchWoken
  <2> QED BY <2>2 DEF WakeInv, LifeInv, LifeTypeOK
<1> QED BY <1>1, <1>2, <1>3, LifeInvariant, PTL DEF LifeSpec, WaitLasts

=============================================================================
