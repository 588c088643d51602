----------------------------- MODULE TaskEngine -----------------------------
(***************************************************************************)
(* The servers of server/server.go at work on one queue of the Redis store. *)
(*                                                                         *)
(* A server is a dispatcher, a pool of workers, a heartbeat loop and a      *)
(* recovery loop, which run side by side; every store call is one step of   *)
(* the script it runs in Redis (RedisStore), and the steps of all loops of  *)
(* all servers interleave.  A call can fail without effect, or take effect  *)
(* and lose its reply; a server can crash between any two steps, and a new  *)
(* one is started in its place.                                             *)
(*                                                                         *)
(* The servers have no rate limiter (Config.TokenBucket is nil).  Waiting   *)
(* in waitOrStop changes nothing and is part of the next turn of the loop.  *)
(***************************************************************************)
EXTENDS RedisStore, Backoff

CONSTANTS
  Servers,
  Concurrency,   \* Config.Concurrency
  LeaseTicks,    \* Config.LeaseDuration
  Delays,        \* what ExponentialBackoffWithJitter yields
  MaxFaults,     \* bound on failed calls, lost replies and crashes
  MaxStops       \* bound on calls of Stop and Shutdown

VARIABLES
  life,       \* the state field and the two contexts of a server
  cut,        \* whether s.ctx was cancelled while work was unfinished
  disp,       \* where the dispatcher is, and the task it holds
  work,       \* Server.active: the attempts its workers are processing
  outcome,    \* what the handler made of every attempt
  hb,         \* the ExtendLease call that the heartbeat loop is about to make
  rec,        \* the expired IDs of a recovery pass, and the task it has read
  mine,       \* attempts that Claim returned to the server's dispatcher
  metrics,    \* Metrics, summed over all servers
  faults,     \* failed calls, lost replies and crashes so far
  stops       \* calls of Stop and Shutdown so far

serverVars == <<life, cut, disp, work, outcome, hb, rec, mine, metrics, faults,
                stops>>
engineVars == <<storeVars, serverVars>>

ASSUME EngineAssumption ==
  /\ Concurrency \in Nat \ {0}
  /\ LeaseTicks \in Times \ {0}
  /\ Delays \subseteq Times
  /\ MaxFaults \in Nat
  /\ MaxStops \in Nat
  /\ None \notin [ids : SUBSET Ids, got : Attempts \cup {None}]
  /\ None \notin [tasks : SUBSET Attempts, expiry : Times]

-----------------------------------------------------------------------------
(* State *)

\* "new" is a process without a Server, or one whose Server is not started;
\* "stop" is inside Stop, "shutdown" inside Shutdown, after requestStop;
\* "cancelled" is after s.cancel(); "closed" is after Shutdown returned nil.
Lives == {"new", "running", "stop", "shutdown", "cancelled", "closed"}

\* The dispatcher is at the head of its loop; about to run the MoveReady script
\* for scheduled, for retry, PendingCount, Claim; offering a claimed task to
\* the workers; or it has returned.
DispatcherSteps ==
  {"head", "scheduled", "retry", "count", "claim", "offer", "done"}

Outcomes == {"unrun", "running", "ok", "retryable", "fatal"}

Counters == {"processed", "failed", "retried", "archived"}

NewDispatcher == [at |-> "head", att |-> None]
NoDispatcher == [at |-> "done", att |-> None]

ServerTypeOK ==
  /\ life \in [Servers -> Lives]
  /\ cut \in [Servers -> BOOLEAN]
  /\ disp \in [Servers -> [at : DispatcherSteps, att : Attempts \cup {None}]]
  /\ work \in [Servers -> SUBSET Attempts]
  /\ outcome \in [Attempts -> Outcomes]
  /\ hb \in [Servers -> [tasks : SUBSET Attempts, expiry : Times] \cup {None}]
  /\ rec \in [Servers -> [ids : SUBSET Ids, got : Attempts \cup {None}]
                           \cup {None}]
  /\ mine \in [Servers -> SUBSET Attempts]
  /\ metrics \in [Counters -> Nat]
  /\ faults \in 0 .. MaxFaults
  /\ stops \in 0 .. MaxStops

EngineTypeOK == StoreTypeOK /\ ServerTypeOK

EngineInit ==
  /\ StoreInit
  /\ life = [s \in Servers |-> "new"]
  /\ cut = [s \in Servers |-> FALSE]
  /\ disp = [s \in Servers |-> NoDispatcher]
  /\ work = [s \in Servers |-> {}]
  /\ outcome = [a \in Attempts |-> "unrun"]
  /\ hb = [s \in Servers |-> None]
  /\ rec = [s \in Servers |-> None]
  /\ mine = [s \in Servers |-> {}]
  /\ metrics = [c \in Counters |-> 0]
  /\ faults = 0
  /\ stops = 0

\* Mutant: only the end of s.ctx is noticed.
StoppingLate(s) == life[s] = "cancelled"

\* stopCh is closed and handlerCtx is cancelled.
Stopping(s) == life[s] \in {"stop", "shutdown", "cancelled"}

\* s.ctx is not cancelled.
ContextLive(s) == life[s] \in {"running", "stop", "shutdown"}

-----------------------------------------------------------------------------
(* Store calls of a server *)

Fault == faults < MaxFaults /\ faults' = faults + 1
NoFault == UNCHANGED faults

Count(c) == metrics' = [metrics EXCEPT ![c] = @ + 1]

\* The call fails and changes nothing: the context is cancelled, or Redis does
\* not get the call.  (Under a cancelled context a call that was already on its
\* way still takes effect, so no action requires a live context of it.)
CallFails(s) ==
  /\ UNCHANGED storeVars
  /\ \/ life[s] = "cancelled" /\ NoFault
     \/ Fault

\* A call that took effect: it returns nil and is counted, or the reply is lost
\* and the caller sees an error.
Answer(c) ==
  \/ NoFault /\ Count(c)
  \/ Fault /\ UNCHANGED metrics

\* A call that was to end the claim of attempt a and did not: the script found
\* that a is not the owner, or the call failed.
Refused(s, a) ==
  \/ ~Owns(issued[a].id, a) /\ UNCHANGED storeVars /\ NoFault
  \/ CallFails(s)

\* Mutant: a retry is scheduled without looking at the budget.
GiveUpUnbounded(a, permanent) ==
  IF permanent THEN Archive(a) /\ Answer("archived")
  ELSE \E at \in Delays : ScheduleRetry(a, at) /\ Answer("retried")

\* Mutant: an archived task is counted as retried.
GiveUpCountsRetry(a, permanent) ==
  IF permanent \/ ~CanRetry(issued[a].msg)
  THEN Archive(a) /\ Answer("retried")
  ELSE \E at \in Delays : ScheduleRetry(a, at) /\ Answer("retried")

\* Mutant: the task is archived whatever its budget.
GiveUpAtOnce(a, permanent) == Archive(a) /\ Answer("archived")

\* The choice that process and recoveryLoop make for a task to be given up:
\* retry while the budget lasts, else archive.
GiveUp(a, permanent) ==
  IF permanent \/ ~CanRetry(issued[a].msg)
  THEN Archive(a) /\ Answer("archived")
  ELSE \E at \in Delays : ScheduleRetry(a, at) /\ Answer("retried")

-----------------------------------------------------------------------------
(* dispatch *)

Goto(s, step) == disp' = [disp EXCEPT ![s] = [at |-> step, att |-> None]]

NextTurn(s) == Goto(s, "head")

AtStep(s, step) == disp[s].at = step

\* Waiting for the next turn, and the select at the head of the loop: both end
\* the dispatcher when stopCh is closed.
DispatchHead(s) ==
  /\ AtStep(s, "head")
  /\ Goto(s, IF Stopping(s) THEN "done" ELSE "scheduled")
  /\ UNCHANGED <<storeVars, life, cut, work, outcome, hb, rec, mine, metrics,
                 faults, stops>>

\* One of the two scripts of MoveReady.
DispatchMove(s, source, next) ==
  /\ AtStep(s, source)
  /\ \/ /\ \/ MoveReady(source, 0)
           \/ /\ Due(IF source = "scheduled" THEN scheduled ELSE retry, 0) = {}
              /\ UNCHANGED storeVars
        /\ \/ NoFault /\ Goto(s, next)
           \/ Fault /\ NextTurn(s)
     \/ CallFails(s) /\ NextTurn(s)
  /\ UNCHANGED <<life, cut, work, outcome, hb, rec, mine, metrics, stops>>

\* PendingCount, the size of pending_rank; an error counts as nothing pending.
DispatchCount(s) ==
  /\ AtStep(s, "count")
  /\ \/ /\ UNCHANGED storeVars /\ NoFault
        /\ IF pendingRank # {} THEN Goto(s, "claim") ELSE NextTurn(s)
     \/ CallFails(s) /\ NextTurn(s)
  /\ UNCHANGED <<life, cut, work, outcome, hb, rec, mine, metrics, stops>>

\* Claim.  When the reply is lost the task is active and no server knows it.
DispatchClaim(s) ==
  /\ AtStep(s, "claim")
  /\ \/ \E a \in Attempts :
          /\ Claim(a, LeaseTicks)
          /\ \/ /\ disp' = [disp EXCEPT ![s] = [at |-> "offer", att |-> a]]
                /\ mine' = [mine EXCEPT ![s] = @ \cup {a}]
                /\ NoFault
             \/ NextTurn(s) /\ Fault /\ UNCHANGED mine
     \/ /\ pendingRank = {} /\ UNCHANGED storeVars /\ NoFault
        /\ NextTurn(s) /\ UNCHANGED mine
     \/ CallFails(s) /\ NextTurn(s) /\ UNCHANGED mine
  /\ UNCHANGED <<life, cut, work, outcome, hb, rec, metrics, stops>>

\* jobs <- msg: a free worker takes the task, tracks it and calls the handler.
HandOff(s) ==
  /\ AtStep(s, "offer")
  /\ Cardinality(work[s]) < Concurrency
  /\ work' = [work EXCEPT ![s] = @ \cup {disp[s].att}]
  /\ outcome' = [outcome EXCEPT ![disp[s].att] = "running"]
  /\ NextTurn(s)
  /\ UNCHANGED <<storeVars, life, cut, hb, rec, mine, metrics, faults, stops>>

\* The other case of that select: stopCh is closed, Requeue is tried once.
RequeueOffered(s) ==
  /\ AtStep(s, "offer") /\ Stopping(s)
  /\ LET a == disp[s].att IN
       \/ Requeue(a) /\ (NoFault \/ Fault)
       \/ Refused(s, a)
  /\ Goto(s, "done")
  /\ UNCHANGED <<life, cut, work, outcome, hb, rec, mine, metrics, stops>>

Dispatch(s) ==
  \/ DispatchHead(s)
  \/ DispatchMove(s, "scheduled", "retry")
  \/ DispatchMove(s, "retry", "count")
  \/ DispatchCount(s)
  \/ DispatchClaim(s)
  \/ HandOff(s)
  \/ RequeueOffered(s)

-----------------------------------------------------------------------------
(* process *)

\* The handler returns nil, an error, or an error that is ErrNonRetryable.
\* RecordFailed comes before any transition.
HandlerReturns(s, a) ==
  /\ a \in work[s] /\ outcome[a] = "running"
  /\ \E o \in {"ok", "retryable", "fatal"} :
       /\ outcome' = [outcome EXCEPT ![a] = o]
       /\ IF o = "ok" THEN UNCHANGED metrics ELSE Count("failed")
  /\ UNCHANGED <<storeVars, life, cut, disp, work, hb, rec, mine, faults, stops>>

\* The transition that the outcome calls for, then untrackActive: process
\* returns whether or not the call succeeded.
Finish(s, a) ==
  /\ a \in work[s] /\ outcome[a] # "running"
  /\ \/ outcome[a] = "ok" /\ AckSuccess(a) /\ Answer("processed")
     \/ outcome[a] # "ok" /\ GiveUp(a, outcome[a] = "fatal")
     \/ Refused(s, a) /\ UNCHANGED metrics
  /\ work' = [work EXCEPT ![s] = @ \ {a}]
  /\ UNCHANGED <<life, cut, disp, outcome, hb, rec, mine, stops>>

-----------------------------------------------------------------------------
(* heartbeatLoop and recoveryLoop *)

\* The tick: now is read and the tracked tasks are copied under the mutex.
HeartbeatTick(s) ==
  /\ ContextLive(s) /\ hb[s] = None /\ work[s] # {}
  /\ hb' = [hb EXCEPT ![s] = [tasks |-> work[s], expiry |-> LeaseTicks]]
  /\ UNCHANGED <<storeVars, life, cut, disp, work, outcome, rec, mine, metrics,
                 faults, stops>>

HeartbeatExtend(s) ==
  /\ hb[s] # None
  /\ \/ ExtendLease(hb[s].tasks, hb[s].expiry) /\ NoFault
     \/ CallFails(s)
  /\ hb' = [hb EXCEPT ![s] = None]
  /\ UNCHANGED <<life, cut, disp, work, outcome, rec, mine, metrics, stops>>

Heartbeat(s) == HeartbeatTick(s) \/ HeartbeatExtend(s)

\* Mutant: a pass ends with the last ID, before its task is dealt with.
PassShort(ids, a) == IF ids = {} THEN None ELSE [ids |-> ids, got |-> a]

Pass(ids, a) == IF ids = {} /\ a = None THEN None ELSE [ids |-> ids, got |-> a]

\* ExpiredIDs.  A failed call ends the pass.
RecoveryScan(s) ==
  /\ ContextLive(s) /\ rec[s] = None
  /\ \E M \in Batch(Due(lease, 0), lease) :
       M # {} /\ rec' = [rec EXCEPT ![s] = Pass(M, None)]
  /\ UNCHANGED <<storeVars, life, cut, disp, work, outcome, hb, mine, metrics,
                 faults, stops>>

\* Get of the next ID: a task that is not active, or a failed call, is skipped.
RecoveryGet(s) ==
  /\ rec[s] # None /\ rec[s].got = None
  /\ \E i \in rec[s].ids :
       LET rest == rec[s].ids \ {i} IN
       /\ UNCHANGED storeVars
       /\ \/ /\ rec' = [rec EXCEPT ![s] =
                          Pass(rest, IF In(i, "active") THEN task[i].attempt
                                                        ELSE None)]
             /\ NoFault
          \/ rec' = [rec EXCEPT ![s] = Pass(rest, None)] /\ CallFails(s)
  /\ UNCHANGED <<life, cut, disp, work, outcome, hb, mine, metrics, stops>>

\* ScheduleRetry or Archive of the message that Get returned.
RecoveryClose(s) ==
  /\ rec[s] # None /\ rec[s].got # None
  /\ \/ GiveUp(rec[s].got, FALSE)
     \/ Refused(s, rec[s].got) /\ UNCHANGED metrics
  /\ rec' = [rec EXCEPT ![s] = Pass(rec[s].ids, None)]
  /\ UNCHANGED <<life, cut, disp, work, outcome, hb, mine, stops>>

Recover(s) == RecoveryScan(s) \/ RecoveryGet(s) \/ RecoveryClose(s)

-----------------------------------------------------------------------------
(* Start, Stop, Shutdown, crash *)

\* New and Start.  A Server starts once: after "closed" it is a new Server.
Start(s) ==
  /\ life[s] \in {"new", "closed"}
  /\ life' = [life EXCEPT ![s] = "running"]
  /\ cut' = [cut EXCEPT ![s] = FALSE]
  /\ disp' = [disp EXCEPT ![s] = NewDispatcher]
  /\ mine' = [mine EXCEPT ![s] = {}]
  /\ UNCHANGED <<storeVars, work, outcome, hb, rec, metrics, faults, stops>>

\* requestStop, called by Stop and by Shutdown.
requestStop(s, caller) ==
  /\ life[s] = "running"
  /\ stops < MaxStops /\ stops' = stops + 1
  /\ life' = [life EXCEPT ![s] = caller]
  /\ UNCHANGED <<storeVars, cut, disp, work, outcome, hb, rec, mine, metrics,
                 faults>>

\* Mutant: the workers are not waited for.
WorkDoneDispatcher(s) == disp[s].at = "done"

\* Mutant: the dispatcher is not waited for.
WorkDoneWorkers(s) == work[s] = {}

\* The dispatcher has returned and the workers are through: workDone closes.
WorkDone(s) == disp[s].at = "done" /\ work[s] = {}

\* s.cancel(): the lifecycle context ends.
Cancel(s) ==
  /\ life' = [life EXCEPT ![s] = "cancelled"]
  /\ cut' = [cut EXCEPT ![s] = ~WorkDone(s)]
  /\ UNCHANGED <<storeVars, disp, work, outcome, hb, rec, mine, metrics, faults,
                 stops>>

\* Stop cancels at once; Shutdown when the work is done or its time is up.
StopCancel(s) == life[s] = "stop" /\ Cancel(s)
ShutdownCancel(s) == life[s] = "shutdown" /\ WorkDone(s) /\ Cancel(s)
ShutdownTimeout(s) == life[s] = "shutdown" /\ ~WorkDone(s) /\ Cancel(s)

\* The maintenance loops have ended too: Shutdown, also one called after Stop,
\* returns nil.
ShutdownReturn(s) ==
  /\ life[s] = "cancelled" /\ WorkDone(s) /\ hb[s] = None /\ rec[s] = None
  /\ life' = [life EXCEPT ![s] = "closed"]
  /\ UNCHANGED <<storeVars, cut, disp, work, outcome, hb, rec, mine, metrics,
                 faults, stops>>

\* The process ends: everything it kept in memory is gone.
Crash(s) ==
  /\ life[s] \notin {"new", "closed"}
  /\ Fault
  /\ life' = [life EXCEPT ![s] = "new"]
  /\ cut' = [cut EXCEPT ![s] = FALSE]
  /\ disp' = [disp EXCEPT ![s] = NoDispatcher]
  /\ work' = [work EXCEPT ![s] = {}]
  /\ hb' = [hb EXCEPT ![s] = None]
  /\ rec' = [rec EXCEPT ![s] = None]
  /\ mine' = [mine EXCEPT ![s] = {}]
  /\ UNCHANGED <<storeVars, outcome, metrics, stops>>

Lifecycle(s) ==
  \/ StopCancel(s)
  \/ ShutdownCancel(s)
  \/ ShutdownReturn(s)

-----------------------------------------------------------------------------
(* The system *)

Produce ==
  /\ \E i \in Ids, p \in Payloads, n \in MaxRetries, r \in Ranks :
       \/ Enqueue(i, NewMessage(p, n), r)
       \/ \E at \in Times : Schedule(i, NewMessage(p, n), r, at)
  /\ UNCHANGED serverVars

\* The expiry of a heartbeat call was computed from the time of its tick.
EngineTick ==
  /\ Tick
  /\ hb' = [s \in Servers |->
              IF hb[s] # None /\ hb[s].expiry > 0
              THEN [hb[s] EXCEPT !.expiry = @ - 1] ELSE hb[s]]
  /\ UNCHANGED <<life, cut, disp, work, outcome, rec, mine, metrics, faults,
                 stops>>

EngineNext ==
  \/ Produce
  \/ EngineTick
  \/ \E s \in Servers :
       \/ Dispatch(s)
       \/ \E a \in Attempts : HandlerReturns(s, a) \/ Finish(s, a)
       \/ Heartbeat(s)
       \/ Recover(s)
       \/ Start(s)
       \/ requestStop(s, "stop")
       \/ requestStop(s, "shutdown")
       \/ Lifecycle(s)
       \/ ShutdownTimeout(s)
       \/ Crash(s)

EngineSpec == EngineInit /\ [][EngineNext]_engineVars

\* Redis answers in the end, the Go scheduler runs every goroutine that can
\* run, handlers return, time passes, whoever called Stop calls Shutdown, and a
\* server that ended is replaced.  Nothing is assumed of Produce, requestStop,
\* the shutdown timeout, or of faults and crashes, which come finitely often.
Fairness ==
  /\ WF_engineVars(EngineTick)
  /\ \A s \in Servers :
       /\ WF_engineVars(Dispatch(s))
       /\ \A a \in Attempts : /\ WF_engineVars(HandlerReturns(s, a))
                              /\ WF_engineVars(Finish(s, a))
       /\ WF_engineVars(Heartbeat(s))
       /\ WF_engineVars(Recover(s))
       /\ WF_engineVars(Start(s))
       /\ WF_engineVars(Lifecycle(s))

LiveSpec == EngineSpec /\ Fairness

-----------------------------------------------------------------------------
(* Properties *)

\* The servers use the store only through its methods: seen from Redis, they
\* are callers of RedisStore, and all that is proved of it holds here.
UsesStore == StoreSpec

RunsOf(i) == {a \in Handles : issued[a].id = i /\ outcome[a] # "unrun"}

\* The handler is called at most MaxRetry + 1 times for a task, whatever leases
\* expire, servers crash, replies are lost or servers stop: every call uses up
\* a claim, and a claim that reached a worker never goes back to pending
\* without a retry being counted.
RunsWithinBudget ==
  \A i \in Ids : Exists(i) =>
    Cardinality(RunsOf(i)) <= task[i].msg.maxRetry + 1

\* A task is completed only when a call of its handler returned nil, and
\* archived only when one returned ErrNonRetryable or the retries are used up:
\* recovery and stale workers never settle a task in another way.
EndIsEarned ==
  \A i \in Ids :
    /\ In(i, "completed") => \E a \in RunsOf(i) : outcome[a] = "ok"
    /\ In(i, "archived") =>
         \/ \E a \in RunsOf(i) : outcome[a] = "fatal"
         \/ ~CanRetry(task[i].msg)

\* When Shutdown returned nil, having cancelled the lifecycle context only
\* after the work was done, no claim of that server is left open: nothing
\* waits for its lease to expire.
CleanShutdown ==
  \A s \in Servers :
    life[s] = "closed" /\ ~cut[s] /\ faults = 0 =>
      \A a \in mine[s] : issued[a].resolved = 1

\* The retries that the messages in the store have counted.
Retries ==
  UNION {{i} \X (1 .. task[i].msg.retryCount) : i \in {j \in Ids : Exists(j)}}

\* Counter c stands for the elements of S.
Matches(c, S) ==
  /\ metrics[c] <= Cardinality(S)
  /\ faults = 0 => metrics[c] = Cardinality(S)

\* The counters never run ahead of the store, and agree with it when no call
\* failed and no server crashed: one processed per completed task, one archived
\* per archived task, one retried per retry that some message has counted.
MetricsMatchStore ==
  /\ Matches("processed", {i \in Ids : In(i, "completed")})
  /\ Matches("archived", {i \in Ids : In(i, "archived")})
  /\ Matches("retried", Retries)

\* For a task in the store, the delay of its next retry and of every later one
\* is the doubled base capped at the maximum, without overflow for any base and
\* maximum, and jitter keeps it positive, within the maximum and near that
\* value: a retry is never immediate and never later than configured
\* (ExponentialBackoff, ExponentialBackoffWithJitter, server.go).
BackoffBounded ==
  \A i \in Ids : Exists(i) =>
    task[i].msg.retryCount .. MaxCount \subseteq BoundedCounts

\* Every task that was enqueued or scheduled is completed or archived in the
\* end: none is stranded in pending, active, retry or scheduled by a stop, a
\* crash, a lost reply or a race of recovery with heartbeat or worker.
EveryTaskEnds ==
  \A i \in Ids :
    Exists(i) ~> (In(i, "completed") \/ In(i, "archived"))

\* Shutdown comes to its end: dispatcher, workers and maintenance loops return
\* without waiting for one another.
ShutdownEnds ==
  \A s \in Servers :
    life[s] \in {"stop", "shutdown"} ~> life[s] \in {"closed", "new"}

\* Recovery takes a task only while its lease is expired.
RecoversExpired ==
  [][\A s \in Servers :
       RecoveryClose(s) /\ lease' # lease =>
         lease[issued[rec[s].got].id] = 0]_engineVars

\* failed is counted only when the transition to retry or archived succeeded.
FailedAfterTransition ==
  (\A s \in Servers : work[s] = {}) =>
    metrics["failed"] <= metrics["retried"] + metrics["archived"]
=============================================================================
