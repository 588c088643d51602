--------------------------- MODULE ServerLifecycle ---------------------------
(***************************************************************************)
(* One Server of server/server.go seen from its callers: any number of      *)
(* goroutines call Start, Stop, Shutdown, Run and RunSignals, each once and *)
(* at any moment, while the goroutines that Start launched work, wait and   *)
(* end.  Mutex sections, channel operations and waits on WaitGroups are     *)
(* steps of their own.                                                      *)
(*                                                                         *)
(* Tasks and Redis are left out: a turn of the dispatcher either waits or   *)
(* holds one claimed task, which are the cases in TaskEngine and            *)
(* Dispatchers.  The timer under waitOrStop does what TimerContract says;   *)
(* there is at most one event, since the dispatcher waits for one at a time.*)
(***************************************************************************)
EXTENDS Integers

CONSTANTS
  Callers,
  Calls,            \* what each of them may call
  Workers,          \* Config.Concurrency
  Loops,            \* heartbeatLoop and recoveryLoop
  ShutdownTimeout,  \* Config.ShutdownTimeout
  MaxWait           \* bound on the time waitOrStop is asked to wait

VARIABLES
  state,      \* Server.state
  stopCh,     \* Server.stopCh and handlerCtx are closed
  cancelled,  \* Server.ctx is cancelled
  call,       \* where a caller is
  disp,       \* dispatch: program point and what is left of its wait
  token,      \* the token in dispatchWake
  event,      \* the event in the timer, and its time
  worker,
  loop,       \* the maintenance loops, Run of the timer among them
  helper      \* the channels that Shutdown waits on

vars == <<state, stopCh, cancelled, call, disp, token, event, worker, loop, helper>>

ASSUME LifeAssumption ==
  /\ ShutdownTimeout \in Nat \ {0}
  /\ MaxWait \in Nat \ {0}
  /\ "wheel" \notin Loops
  /\ Calls \in [Callers -> SUBSET {"Start", "Stop", "Shutdown", "Run"}]

Maintenance == Loops \cup {"wheel"}

Ops == {"Start", "Stop", "Shutdown", "Run"}

Points == {"ready", "serve", "enter", "request", "cancel",
           "work", "workSelect", "finish", "loops", "loopsSelect", "cut",
           "returned"}

Results == {"none", "started", "stopped", "refused", "unstarted", "clean",
            "cut", "late"}

LifeTypeOK ==
  /\ state \in {"new", "running", "stopped"}
  /\ stopCh \in BOOLEAN
  /\ cancelled \in BOOLEAN
  /\ call \in [Callers -> [op : Ops, at : Points, left : 0 .. ShutdownTimeout,
                           won : BOOLEAN, result : Results]]
  /\ disp \in [at : {"off", "head", "hold", "wait", "ended"},
               left : 0 .. MaxWait]
  /\ token \in BOOLEAN
  /\ event \in [at : {"none", "queued", "callback"}, left : 0 .. MaxWait]
  /\ worker \in [Workers -> {"off", "idle", "busy", "hung", "ended"}]
  /\ loop \in [Maintenance -> {"off", "select", "call", "ended"}]
  /\ helper \in [Callers -> BOOLEAN]

New ==
  /\ state = "new"
  /\ stopCh = FALSE /\ cancelled = FALSE
  /\ \E op \in [Callers -> Ops] :
       /\ \A c \in Callers : op[c] \in Calls[c]
       /\ call = [c \in Callers |-> [op |-> op[c], at |-> "ready", left |-> 0,
                                     won |-> FALSE, result |-> "none"]]
  /\ disp = [at |-> "off", left |-> 0]
  /\ token = FALSE
  /\ event = [at |-> "none", left |-> 0]
  /\ worker = [w \in Workers |-> "off"]
  /\ loop = [l \in Maintenance |-> "off"]
  /\ helper = [c \in Callers |-> FALSE]

-----------------------------------------------------------------------------
(* Start, Stop and the beginning of Shutdown and Run *)

goroutines == <<disp, token, event, worker, loop>>

At(c, point) == call[c].at = point
Calling(c, op) == call[c].at = "ready" /\ call[c].op = op
Goto(c, point) == call' = [call EXCEPT ![c].at = point]
ReturnWith(c, result) ==
  call' = [call EXCEPT ![c].at = "returned", ![c].result = result]

\* Start, called by itself or by Run.
Start(c) ==
  /\ Calling(c, "Start") \/ Calling(c, "Run")
  /\ IF state # "new"
     THEN ReturnWith(c, "refused") /\ UNCHANGED <<state, disp, worker, loop>>
     ELSE /\ state' = "running"
          /\ disp' = [at |-> "head", left |-> 0]
          /\ worker' = [w \in Workers |-> "idle"]
          /\ loop' = [l \in Maintenance |-> "select"]
          /\ IF call[c].op = "Run" THEN Goto(c, "serve")
                                   ELSE ReturnWith(c, "started")
  /\ UNCHANGED <<stopCh, cancelled, token, event, helper>>

\* Run goes on to Shutdown when its context ends, a signal arrives or the
\* server was stopped by someone else.
Serve(c) ==
  /\ At(c, "serve") /\ Goto(c, "enter")
  /\ UNCHANGED <<state, stopCh, cancelled, goroutines, helper>>

Enter(c) ==
  /\ Calling(c, "Shutdown") \/ At(c, "enter")
  /\ IF state = "new"
     THEN ReturnWith(c, "unstarted")
     ELSE call' = [call EXCEPT ![c].at = "request", ![c].left = ShutdownTimeout]
  /\ UNCHANGED <<state, stopCh, cancelled, goroutines, helper>>

\* Mutant: Stop cancels the context of a server that is shutting down.
AfterRequestAlways(op, won) == IF op # "Stop" THEN "work" ELSE "cancel"

\* What follows requestStop in Stop: the context is cancelled only by the one
\* that stopped the server.
AfterRequest(op, won) ==
  IF op # "Stop" THEN "work" ELSE IF won THEN "cancel" ELSE "returned"

requestStop(c) ==
  /\ Calling(c, "Stop") \/ At(c, "request")
  /\ LET won == state = "running"
         point == AfterRequest(call[c].op, won)
     IN /\ state' = IF won THEN "stopped" ELSE state
        /\ stopCh' = (stopCh \/ won)
        /\ call' = [call EXCEPT ![c].won = won, ![c].at = point,
                                ![c].result = IF point = "returned"
                                              THEN "stopped" ELSE @]
  /\ UNCHANGED <<cancelled, goroutines, helper>>

Stop(c) ==
  /\ At(c, "cancel") /\ ReturnWith(c, "stopped")
  /\ cancelled' = TRUE
  /\ UNCHANGED <<state, stopCh, goroutines, helper>>

-----------------------------------------------------------------------------
(* The waits of Shutdown *)

WorkEnded == disp.at = "ended" /\ \A w \in Workers : worker[w] = "ended"
LoopsEnded == \A l \in Maintenance : loop[l] = "ended"

\* The goroutines that wait for the others and close a channel.
HelperCloses(c) ==
  /\ \/ call[c].at \in {"work", "workSelect"} /\ WorkEnded
     \/ call[c].at \in {"loops", "loopsSelect"} /\ LoopsEnded
  /\ helper' = [helper EXCEPT ![c] = TRUE]
  /\ UNCHANGED <<state, stopCh, cancelled, call, goroutines>>

\* Mutant: no deadline.
waitUntilDone(c, here, select, Done, Expired) ==
  \/ At(c, here) /\ Goto(c, select)
  \/ At(c, select) /\ helper[c] /\ Done

\* waitUntil: without time left it only looks; otherwise it selects between
\* the channel and the timer.
waitUntil(c, here, select, Done, Expired) ==
  \/ At(c, here) /\ call[c].left > 0 /\ Goto(c, select)
  \/ At(c, here) /\ call[c].left = 0 /\ IF helper[c] THEN Done ELSE Expired
  \/ At(c, select) /\ helper[c] /\ Done
  \/ At(c, select) /\ call[c].left = 0 /\ Expired

WaitForWork(c) ==
  /\ waitUntil(c, "work", "workSelect", Goto(c, "finish"), Goto(c, "cut"))
  /\ UNCHANGED <<state, stopCh, cancelled, goroutines, helper>>

\* Mutant: the loops are left running.
CutQuietly(c) ==
  /\ At(c, "cut") /\ ReturnWith(c, "cut")
  /\ UNCHANGED <<state, stopCh, cancelled, goroutines, helper>>

\* The time is up before the work ended.
Cut(c) ==
  /\ At(c, "cut") /\ ReturnWith(c, "cut")
  /\ cancelled' = TRUE
  /\ UNCHANGED <<state, stopCh, goroutines, helper>>

\* Mutant: the loops are told to end and not waited for.
FinishAtOnce(c) ==
  /\ At(c, "finish") /\ ReturnWith(c, "clean")
  /\ cancelled' = TRUE
  /\ UNCHANGED <<state, stopCh, goroutines, helper>>

\* Mutant: the loops get the whole timeout on top of what is left of it.
FinishExtends(c) ==
  /\ At(c, "finish")
  /\ call' = [call EXCEPT ![c].at = "loops", ![c].left = @ + ShutdownTimeout]
  /\ cancelled' = TRUE
  /\ helper' = [helper EXCEPT ![c] = FALSE]
  /\ UNCHANGED <<state, stopCh, goroutines>>

\* The work has ended; now the loops, with a new channel.
Finish(c) ==
  /\ At(c, "finish") /\ Goto(c, "loops")
  /\ cancelled' = TRUE
  /\ helper' = [helper EXCEPT ![c] = FALSE]
  /\ UNCHANGED <<state, stopCh, goroutines>>

WaitForLoops(c) ==
  /\ waitUntil(c, "loops", "loopsSelect",
               ReturnWith(c, "clean"), ReturnWith(c, "late"))
  /\ UNCHANGED <<state, stopCh, cancelled, goroutines, helper>>

Shutdown(c) ==
  \/ Enter(c)
  \/ WaitForWork(c)
  \/ Cut(c)
  \/ Finish(c)
  \/ WaitForLoops(c)

-----------------------------------------------------------------------------
(* The goroutines of the server *)

callers == <<state, stopCh, cancelled, call, helper>>

\* A turn of dispatch: it ends at the head when the server is stopped, or
\* comes to hold a claimed task, or has nothing to do and waits.
DispatchTurn ==
  /\ disp.at = "head"
  /\ disp' = [disp EXCEPT !.at = IF stopCh THEN "ended" ELSE "hold"]
  /\ UNCHANGED <<callers, token, event, worker, loop>>

\* waitOrStop schedules its wake-up.
waitOrStop ==
  /\ disp.at = "head" /\ ~ stopCh
  /\ \E duration \in 1 .. MaxWait :
       /\ disp' = [at |-> "wait", left |-> duration]
       /\ event' = [at |-> "queued", left |-> duration]
  /\ UNCHANGED <<callers, token, worker, loop>>

\* Mutant: the wake-up stays in the channel.
DispatchWokenKeeps ==
  /\ disp.at = "wait" /\ token
  /\ disp' = [at |-> "head", left |-> 0]
  /\ UNCHANGED <<callers, token, event, worker, loop>>

\* waitOrStop returns true; its event has left the timer.
DispatchWoken ==
  /\ disp.at = "wait" /\ token
  /\ token' = FALSE
  /\ disp' = [at |-> "head", left |-> 0]
  /\ UNCHANGED <<callers, event, worker, loop>>

\* waitOrStop returns false, and its event is cancelled if it is still queued.
DispatchStops ==
  /\ disp.at = "wait" /\ stopCh
  /\ disp' = [at |-> "ended", left |-> 0]
  /\ event' = IF event.at = "queued" THEN [at |-> "none", left |-> 0] ELSE event
  /\ UNCHANGED <<callers, token, worker, loop>>

HandOff(w) ==
  /\ disp.at = "hold" /\ worker[w] = "idle"
  /\ disp' = [disp EXCEPT !.at = "head"]
  /\ worker' = [worker EXCEPT ![w] = "busy"]
  /\ UNCHANGED <<callers, token, event, loop>>

\* The task that no worker takes is given back.
Requeue ==
  /\ disp.at = "hold" /\ stopCh
  /\ disp' = [disp EXCEPT !.at = "ended"]
  /\ UNCHANGED <<callers, token, event, worker, loop>>

Dispatch ==
  \/ DispatchTurn
  \/ waitOrStop
  \/ DispatchWoken
  \/ DispatchStops
  \/ Requeue

\* The handler returns and its claim is closed.
WorkerDone(w) ==
  /\ worker[w] = "busy"
  /\ worker' = [worker EXCEPT ![w] = "idle"]
  /\ UNCHANGED <<callers, disp, token, event, loop>>

\* A handler that ignores its context, or a store call that does not return.
HandlerHangs(w) ==
  /\ worker[w] = "busy"
  /\ worker' = [worker EXCEPT ![w] = "hung"]
  /\ UNCHANGED <<callers, disp, token, event, loop>>

\* jobs is closed.
WorkerEnds(w) ==
  /\ worker[w] = "idle" /\ disp.at = "ended"
  /\ worker' = [worker EXCEPT ![w] = "ended"]
  /\ UNCHANGED <<callers, disp, token, event, loop>>

\* A tick of heartbeatLoop or recoveryLoop, and the end of its store calls.
LoopWorks(l) ==
  /\ \/ loop[l] = "select" /\ loop' = [loop EXCEPT ![l] = "call"]
     \/ loop[l] = "call" /\ loop' = [loop EXCEPT ![l] = "select"]
  /\ UNCHANGED <<callers, disp, token, event, worker>>

\* The timer calls wakeDispatcher when the event is due; the send gives up
\* when the slot is taken.
WheelPops ==
  /\ loop["wheel"] = "select" /\ event.at = "queued" /\ event.left = 0
  /\ event' = [event EXCEPT !.at = "callback"]
  /\ loop' = [loop EXCEPT !["wheel"] = "call"]
  /\ UNCHANGED <<callers, disp, token, worker>>

\* Mutant: the wake-up is lost.
wakeDispatcherLost ==
  /\ loop["wheel"] = "call"
  /\ event' = [at |-> "none", left |-> 0]
  /\ loop' = [loop EXCEPT !["wheel"] = "select"]
  /\ UNCHANGED <<callers, token, disp, worker>>

wakeDispatcher ==
  /\ loop["wheel"] = "call"
  /\ token' = TRUE
  /\ event' = [at |-> "none", left |-> 0]
  /\ loop' = [loop EXCEPT !["wheel"] = "select"]
  /\ UNCHANGED <<callers, disp, worker>>

LoopEnds(l) ==
  /\ loop[l] = "select" /\ cancelled
  /\ loop' = [loop EXCEPT ![l] = "ended"]
  /\ UNCHANGED <<callers, disp, token, event, worker>>

-----------------------------------------------------------------------------
(* The system *)

\* What is left until a deadline, or nothing once it has passed: waitUntil and
\* the timer do not ask for how long it has.
Minus(n) == IF n > 0 THEN n - 1 ELSE 0

Tick ==
  /\ call' = [c \in Callers |-> [call[c] EXCEPT !.left = Minus(@)]]
  /\ disp' = [disp EXCEPT !.left = Minus(@)]
  /\ event' = [event EXCEPT !.left = Minus(@)]
  /\ UNCHANGED <<state, stopCh, cancelled, token, worker, loop, helper>>

Call(c) == Start(c) \/ requestStop(c) \/ Stop(c) \/ Shutdown(c)

LifeNext ==
  \/ \E c \in Callers : Call(c) \/ Serve(c) \/ HelperCloses(c)
  \/ Dispatch
  \/ \E w \in Workers : HandOff(w) \/ WorkerDone(w) \/ HandlerHangs(w) \/ WorkerEnds(w)
  \/ \E l \in Loops : LoopWorks(l)
  \/ WheelPops
  \/ wakeDispatcher
  \/ \E l \in Maintenance : LoopEnds(l)
  \/ Tick

LifeSpec == New /\ [][LifeNext]_vars

\* Goroutines that can go on do, store calls return and time passes.  Run is
\* sure to leave its wait only when the server is stopped, a handler to return
\* only when its context is cancelled.  A select chooses at random and does not
\* overlook a cancelled context for ever.
LifeLiveSpec ==
  /\ LifeSpec
  /\ WF_vars(Tick) /\ WF_vars(Dispatch) /\ WF_vars(WheelPops \/ wakeDispatcher)
  /\ \A c \in Callers :
       /\ WF_vars((call[c].at # "ready" /\ Call(c)) \/ (stopCh /\ Serve(c)))
       /\ WF_vars(HelperCloses(c))
  /\ \A w \in Workers :
       WF_vars(HandOff(w) \/ WorkerEnds(w) \/ (stopCh /\ WorkerDone(w)))
  /\ \A l \in Loops : WF_vars(LoopWorks(l))
  /\ \A l \in Maintenance : SF_vars(LoopEnds(l))

-----------------------------------------------------------------------------
(* Properties *)

\* When Shutdown or Run returns nil for a server that was started, nothing of
\* it is running any more, whoever else is calling.
CleanMeansEnded ==
  \A c \in Callers :
    call[c].result = "clean" => WorkEnded /\ LoopsEnded /\ cancelled

\* The context is cancelled under unfinished work only by the Stop that stopped
\* the server or by a Shutdown whose time is up: a Stop during a Shutdown, or a
\* second Shutdown, does not cut it short.
CutByStopOrTimeout ==
  cancelled /\ ~ WorkEnded =>
    \E c \in Callers : \/ call[c].op = "Stop" /\ call[c].won
                       \/ call[c].result = "cut"

\* waitOrStop returns true only when its time is over: no wake-up of an earlier
\* wait is left in the channel or under way in the timer.
WaitLasts ==
  [][disp.at = "wait" /\ disp'.at = "head" => disp.left = 0]_vars

\* Every wait of the dispatcher ends.
EveryWaitEnds == disp.at = "wait" ~> disp.at # "wait"

\* Start, Stop and Shutdown return, Run when the server is stopped, although
\* handlers may hang and several callers wait for the same goroutines.
EveryCallReturns ==
  \A c \in Callers :
    (call[c].at # "ready" /\ (call[c].op = "Run" => stopCh))
      ~> call[c].at = "returned"

\* A server that is stopped comes to rest, but for handlers that hang.
GoroutinesEnd ==
  stopCh ~> /\ disp.at = "ended" /\ LoopsEnded
            /\ \A w \in Workers : worker[w] \in {"ended", "hung"}
=============================================================================
