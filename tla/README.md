# Verification of Go-TaskEngine

TLA+ models of the task engine, the TLC runs that check them on small
instances, and TLAPS proofs that hold for every instance. Paths are relative to
the repository (`src/`).

## The system

| Part | Source | What it does |
|---|---|---|
| Client | `client/client.go` | turns a task and options into a message; `Enqueue` now or `Schedule` for later |
| Storage contract | `storage/storage.go` | `TaskStore` and `DeadLetterStore`, what servers and clients rely on |
| Redis store | `internal/redisstore/rdb.go` | implements the contract: one Hash per task, `pending`/`active` Lists, `pending_rank`, `scheduled`, `retry`, `lease`, `archived` ZSETs; each transition is one Lua script |
| Server | `server/server.go` | dispatcher, workers, heartbeat loop, recovery loop; Start, Stop, Shutdown, Run |
| Metrics | `server/metrics.go` | counters of processed, failed, retried, archived tasks |
| Backoff | `server/server.go:439-483` | delay before a retry, with jitter |
| Token bucket | `internal/limiter/bucket.go` | optional rate limit of the dispatcher, one Lua script |
| Time wheel | `internal/timer/timer.go` | local timers of the dispatcher's `waitOrStop` |
| Handler mux | `server/handler_mux.go` | task type to handler |
| Examples | `examples/` | demonstration programs |

A client creates tasks. Every server's dispatcher moves due tasks to pending,
asks the token bucket, claims the first task by rank and hands it to a worker.
The claim stores a random attempt ID and a lease. The worker runs the handler
and then acknowledges, retries or archives the task; each of these scripts
compares the attempt ID, so a worker that lost its claim is refused. The
heartbeat loop renews the leases of tracked tasks. The recovery loop retries or
archives tasks whose lease expired. A task may run more than once; it is not
lost, but one whose claims all expire before a worker gets to it, or with
servers that crash, is archived without having run when its retries are used up.

## Modules

| Module | Models |
|---|---|
| `TaskContract` | the abstract task state machine: one status per ID, one owner per active task, attempts are used up |
| `RedisStore` | the store, for one queue; implements `TaskContract` |
| `TaskRank` | the float64 score that orders pending tasks |
| `TaskClient` | what the client makes of options; `Validate` |
| `StoreRequests` | the store with `TaskRank` and `TaskClient` beside it |
| `TaskEngine` | any number of servers on one queue, with faults, crashes, stops |
| `Backoff` | the delay of a retry |
| `PowersOfTwo` | 2^n, for widths of integers and mantissas |
| `RateContract` | what a rate limiter promises |
| `TokenBucket` | the token bucket; implements `RateContract` |
| `Dispatchers` | dispatchers of several servers with several queues and one token bucket |
| `TimerContract` | what the timer promises |
| `TimeWheel` | the timer; implements `TimerContract` |
| `ServerLifecycle` | concurrent callers of Start, Stop, Shutdown and Run, and the goroutines they start and wait for |
| `MC...` | instances for TLC |
| `RedisStoreProofs` | the store's inductive invariant, its invariants and action properties, and that it implements `TaskContract` |
| `TaskEngineProofs` | types of the servers, and that they use the store only through its methods |
| `TaskEngineBudget` | the invariant that bounds the handler calls; earned ends and clean shutdown |
| `ComputationProofs` | `Backoff`, `TaskClient` and `TaskRank`, for all inputs |
| `TaskEngineCounting` | what is counted and computed: handler calls, delays, requests, ranks, metrics |
| `DispatchersProofs` | the token bucket and the dispatchers that share it |
| `TimeWheelProofs`, `ServerLifecycleProofs` | the theorems about these two |

### RedisStore

Queues share no key and no script touches two, so one queue is modelled. A Lua
script is atomic in Redis and is one action; a Go method that makes several
round trips is several actions (`ReplayDeadLetter`: `GetDeadLetter`, then the
script; `MoveReady`: one script per source).

| State | In Redis |
|---|---|
| `task` | the Hashes: message, state, rank, rank_member, attempt_id |
| `pending`, `active` | Lists, as the number of occurrences of each ID (no operation reads their order) |
| `pendingRank` | ZSET `pending_rank`; a member `"<sequence>:<id>"` is the pair of the two |
| `scheduled`, `retry`, `lease`, `archived` | ZSETs; scores are relative to the present, `Tick` brings them nearer |
| `issued` | not in Redis: the message each claim returned, and how often its attempt ended a claim |
| `replaying` | not in Redis: what a replay has read and not yet written |

Callers are unrestricted: any issued attempt may be presented at any time, any
number of times, so stale workers and repeated calls are included. Left out of
the data: type, queue, time and error fields of a message. Attempt IDs (128
random bits) are unique.

`TaskRank` and `TaskClient` are functions without state, and so is `Backoff`.
What they owe is a fact about the functions alone, for all inputs within their
bounds: `Misranked` and `Misread` are empty, `BoundedCounts` has every count.
`StoreRequests` and `TaskEngine` state it as an invariant, asked as soon as
tasks are in the store; the scores and delays of the state machines stay the
abstract `Ranks` and `Delays`, so nothing else ties the two together. `TaskRank`
computes `taskRank` with every rounding of float64, with 8 significant bits and
a weight of 28 in place of 53 and 10^15: in both, priority 9 is the last whose
weight is exact. `WithPriority` takes any number; `MaxPriority` stands for the
largest whose score the rounding keeps apart from the next, and `RankAssumption`
says what that takes: neighbours in float64 must be less than half as far apart
as the weight exceeds the creation times. In the program that admits priorities
up to 2^51.
Options in `TaskClient` are pairs of a field and a value.

### TaskEngine

Each server is five processes whose steps interleave with those of all others.
One store call is one step. The points of `dispatch` are the values of
`disp[s].at`; `work[s]` is `Server.active`; `hb[s]` is a heartbeat that has
copied its tasks and not yet called `ExtendLease`; `rec[s]` is a recovery pass
between `ExpiredIDs`, `Get` and the closing call; `life[s]` is the state field
together with the two contexts. A call may fail without effect, or take effect
and lose its reply; under a cancelled context it may do either. A crash drops
all memory of a server; a new server starts in its place.

Simplifications, each made up for by another module: no rate limiter and one
queue (`Dispatchers`); the wait in `waitOrStop` changes nothing and belongs to
the next turn, and the channels and WaitGroups of `Shutdown` are the condition
`WorkDone` (`ServerLifecycle`); retry delays are a set (`Backoff`). Dead letters
are not administered while the servers run (they are in `RedisStore`).

### TokenBucket and Dispatchers

`TokenBucket` has one action for the script. The script computes in float64, and
its rounding decides whether a call is granted: ten refills of 0.1 add up to
less than 1. Tokens are counted in grains, so small that every float64 that
occurs and the refill of a millisecond are whole numbers. Each formula of the
script (the refill, what is left after a grant, `RetryAfter`, the expiry) yields
any value within `Eps` grains of the exact one that the monotony of rounding
allows: adding nothing changes nothing, adding something does not take away. For
float64 `Eps` is about 2^-50 of the largest number that occurs, which is the
capacity, or more when the clock is set back by longer than it takes to fill the
bucket. Two assumptions: an amount is larger than `Eps` (a smaller one is lost
in the subtraction and nothing limits it), and `2 * Eps` is at most the
capacity. The key expires as `PEXPIRE` says; the clock of Redis may be set back.
`granted` and `elapsed` observe one window of time that begins at any moment,
`denial` one refused call, what is left of its `RetryAfter` and how long it has
waited. `RateContract` allows for the rounding: `Eps` for every millisecond and
for every grant.

`Dispatchers` extends it with the loop of `dispatch` for several servers, one
step per store call: `PendingCount` and `Claim` of each queue in the order that
`New` sorted them, `Acquire` in between, waits of the length the code asks for.
Calls fail, and replies of `Acquire` and `Claim` are lost. A claimed task is
gone: the offer to a worker, and `Requeue` on a stop, are in `TaskEngine`.

### TimeWheel

A section under the mutex is one step; the signal after it is another, so that
`Run` gets in between. `wake` is the one-slot channel. The points of `Run` are
`scan` (under the mutex), `idle` and `sleep` (its two selects), `arm` (before
the timer is made), `pop` and `call`. `event`, `events` and `sequence` are the
heap; `First` is what `container/heap` promises of its root. The clock is the
system's, as in the server.

### ServerLifecycle

Each caller makes one call. Its points are the mutex sections, `cancel` and
`waitUntil` of `Shutdown`; the goroutines that wait for others and close a
channel are `HelperCloses`. `Run` and `RunSignals` differ only in what ends their
wait. Handlers may hang for ever. The dispatcher is reduced to holding a task
or waiting; the wait is made of the timer's event, the one-slot channel
`dispatchWake` and `stopCh`.

## Runs

| Run | Checks | Instance |
|---|---|---|
| `store` | `StoreTypeOK`, `IndexesMatchState`, `NoPartialHash`, `ClaimResolvedOnce`, `OwnerHoldsMessage`, `ClaimsInOrder`, `CompletedIsFinal`, `ImplementsContract`; `RankOrders`; `SendsWhatWasAsked` | 2 IDs, 3 creations, 4 claims, batches of 1; priorities to 60; 2 options of the task and 2 of the call |
| `engine` | `EngineTypeOK`, `RunsWithinBudget`, `EndIsEarned`, `CleanShutdown`, `MetricsMatchStore`, `UsesStore`; `BackoffBounded` | 1 server, 1 task with 1 retry, 3 claims, 1 fault, 1 stop; durations of 5 bits |
| `engine_servers` | `CleanShutdown`, `MetricsMatchStore` | 2 servers, 1 task without retry, 2 claims, 1 fault, 1 stop |
| `engine_tasks` | `CleanShutdown` | 1 server with 1 worker, 2 tasks, 3 claims, 1 stop |
| `live_stop` | `EveryTaskEnds`, `ShutdownEnds` | 1 server, no retry, 1 fault, 1 stop |
| `live_crash` | `EveryTaskEnds` | 1 server, 1 retry, 1 fault |
| `dispatch` | `DispatchTypeOK`, `RetryAfterClose`, `ImplementsRate`, `PriorityKept`, `EveryTaskClaimed` | 2 servers, 2 tasks, 2 queues and one switched off, 1 fault, clock set back once |
| `timer` | `WheelTypeOK`, `NeverOversleeps`, `ImplementsTimer`, `EveryEventRuns`, `RunReturns` | 3 events, 2 instants, 1 caller before its signal |
| `lifecycle` | `LifeTypeOK`, `CleanMeansEnded`, `CutByStopOrTimeout`, `WaitLasts`, `EveryWaitEnds`, `EveryCallReturns`, `GoroutinesEnd` | 3 callers, 1 worker, 1 loop and the timer |
| `store_replay` | `ReplayKeepsTask` is violated | 1 ID, 2 payloads |
| `recovery_stale` | `RecoversExpired` is violated | 1 server, no fault |
| `failed_metric` | `FailedAfterTransition` is violated | 1 server, 1 stop, no fault |

What they show, beside the comments of the properties: stale attempts, late
heartbeats and replays never disturb the indexes, and each claim is ended once;
the retry budget bounds handler calls through crashes and lost replies; the rate
holds in every interval and `RetryAfter` is right up to rounding; no wake-up of
the timer is lost and none is left over for the next wait; nil from `Shutdown`
means that nothing is running, and every call returns although handlers hang.
`RankOrders` holds with a reservation that its comment states: from priority 10
on, neighbouring milliseconds may share a score, and the sequence number decides
between them.

Bounds. Three creations of two IDs let an ID be deleted and created again while
the other one waits; four claims let a task be claimed, lost, recovered and
claimed anew beside another; batches of one make every batch incomplete. One
tick is enough for a lease to expire between any two steps. The engine runs
split what is too large together: a full retry cycle on one server, two servers
racing, and two tasks sharing a worker. The liveness runs have one task, so a
task that waits forever behind others would not show in them; their number of
attempts is what the retry budget and one requeue can use. Capacity 4, rate and
amount 3 with roundings of 1 let refills be cut off at the capacity,
`RetryAfter` be one or two milliseconds and, without its rounding up, be too
short by more than the roundings; one more refused call in between adds to them.
Windows of up to one millisecond are looked at; the proof has no bound. Three
events allow one to be slept for, one to be pushed before it and one to be
cancelled. Three callers are two that stop a server and one that starts it, or
two that start it and one that stops it. Durations of five bits overflow after
four doublings at the latest, and the retry count goes to six.

Fairness. Weak fairness of each loop's next step (the Go scheduler runs every
goroutine that can run, and Redis answers), of handlers returning, of time, of
Start (a server that ended is replaced) and of the end of Stop and Shutdown.
In `lifecycle` a handler is sure to return only after its context is cancelled,
and not even then if it hangs. A Go select with several branches ready chooses
at random, so a branch that is ready again and again is taken in the end: strong
fairness of the timer and context branches of `TimeWheel.Run`, and of the
context branch of the maintenance loops. Nothing is assumed of clients, of calls
to Stop and Shutdown, of the shutdown timeout, of cancellations and wake-ups, or
of faults, which are finite in number. Tasks are finite in number too, and
`EveryTaskClaimed` depends on it: dispatchers take from a lower queue only when
the higher ones are empty. So does it on a rate above `Eps`: refills smaller
than their rounding could all be lost.

### What the three violations show

* `ReplayDeadLetter` reads the message and writes it back in two round trips. If
  the dead letter is deleted, the ID used again and archived again in between,
  the new task is replayed with the old message.
* `recoveryLoop` closes tasks from a list of expired IDs without looking at the
  lease again: one that was renewed, or claimed anew, meanwhile is taken from
  its owner and costs a retry. The fence keeps the store consistent, and
  `RunsWithinBudget` still holds.
* `failed` is counted when the handler fails, before the transition, while the
  runbook says that it is counted after the transition succeeded.

## Proofs

TLAPS checks, for every value of the constants that satisfies the assumptions of
the modules (numbers are numbers, `None` is none of the values it stands beside,
amounts fit the bucket and exceed the rounding, two roundings fit the bucket,
the queues of a server are finite in number, scores are as fine as
`RankAssumption` says):

* `StoreTyped`, `StoreConsistent`, `StoreNoPartialHash`, `StoreFenced`,
  `StoreOwnerHoldsMessage`: the invariants of the `store` run. Their conjunction
  `Inv` is inductive as it stands. None of the parts is: that a claim is ended
  once needs that an active task has no second entry in `pending_rank`; that
  needs that entries match the Hash under its own rank_member; that needs that
  no Hash is partial.
* `StoreCompletedIsFinal`, `StoreClaimsInOrder`, `StoreImplementsContract`: every
  step is of one of seven kinds (`StepKind`), and each kind is a legal
  transition of the contract.
* `EngineTyped`, `EngineUsesStore`: every step of every loop is a step of the
  store or leaves it alone. All theorems about the store hold of the engine.
* `EngineRunsWithinBudget`: no task is handed to a handler more than
  `MaxRetry + 1` times. The bound is not inductive, because a claim is counted
  in the message only when it is given up, perhaps by another server and long
  after its handler was called. `BudgetInv` counts the claims of a task that
  reached a worker or are on offer to one: all but the present owner's are
  paid for, each by a retry the message has counted, the last one by the end of
  the task. It also needs that a claim on offer has not run and is on offer to
  one worker pool only. The steps count by numbering (`Within`: the claims can
  be given different numbers from 1 to n); that this bounds the cardinality is
  shown once, at the end.
* `EngineEndIsEarned`: from `BudgetInv`, since who ends a claim is its owner or
  a recovery that read the owner's message.
* `EngineCleanShutdown`: `AllClean` says where a claim of a server can be while
  it is open: on offer, with a worker, or nowhere after a fault. `Shutdown`
  reaches its clean end only when the first two are empty.
* `EngineMetrics`: the sets that the counters are compared with are finite, and
  each has as many elements as its counter says, or after a fault more
  (`MetricsInv`). A step adds at most one element to one set: the task it ended,
  or the retry it counted. That needs the fence, since a second successful call
  for the same claim would be counted again.
* `BackoffDelays`, `EngineBackoffBounded`: the loop returns the base doubled as
  often as the count says, capped at the maximum. No product wraps around, since
  the loop doubles only what is at most half of the maximum; and the division
  that draws a delay with jitter rounds by less than one.
* `ClientObeys`, `StoreSendsWhatWasAsked`: after n options, every field holds the
  last value it was given, and the two fields for the time together say what the
  last of `ProcessAt` and `ProcessIn` asked for (`Told`). For options with any
  numbers in them, and any number of options.
* `StoreRankOrders`: rounding to multiples keeps the order, and rounding to
  float64 does although the multiples change with the size of a number, since
  the power of two where they change is a multiple on both sides (`Crossing`).
  So equal priorities are never turned round. Different priorities stay apart
  because two roundings move a score by less than half of the room that the
  weight leaves (`RankNear`).
* `BucketRetryClose`, `BucketKeepsRate`: the rate holds because tokens that are
  left are paid for too, and because a key lives long enough after its last
  change for the full bucket that follows it to be paid for (`Paid`,
  `PaidAfterExpiry`). `RetryAfter` is right because a refused call adds a
  rounding to the level only when time has passed since the last one, so that
  the roundings of a wait are no more than its milliseconds (`Told`, where the
  milliseconds since the last call are still to be used), and because the wait
  is over before the key expires. Dispatchers make only calls of the bucket, so
  `DispatchersKeepRate` and `DispatchersRetryClose` follow.
* `DispatchersTyped`, `DispatchersKeepPriority`: `TurnInv` says what a dispatcher
  knows in the middle of a turn: what waited when it got its token still waits
  or was claimed, and none of it is in a queue that the dispatcher has passed.
* `WheelTyped`, `WheelNeverOversleeps`, `WheelImplementsTimer`: Run pops the
  first event without looking at the clock again. It is due because the event
  Run slept for stays in the heap, as only Run removes events, and the first is
  not later.
* `LifeTyped`, `LifeCleanMeansEnded`, `LifeCutByStopOrTimeout`: `CallerInv` says
  what a closed channel means at every point of `Shutdown`; what has ended stays
  ended because Start acts once.
* `LifeWaitLasts`: there is one wake-up for every wait and none without
  (`WakeInv`): it is in the timer, with the timer's goroutine or in the channel,
  and it reaches the channel when the wait is over.

`RunsWithinBudget` is model-checked in `engine` only, on the full retry cycle:
the theorem covers the instances of the other runs.

The results of loops are proved by induction, although the provers cannot use
the library's induction rules, which speak of predicates: `ComputationProofs`
derives one for sets of numbers (`NatSet`) from the well-foundedness of the
natural numbers, and from it that recursive functions exist (`Iteration`).

Only model-checked: liveness (`EveryTaskEnds`, `ShutdownEnds`,
`EveryTaskClaimed`, `EveryEventRuns`, `RunReturns`, `EveryWaitEnds`,
`EveryCallReturns`, `GoroutinesEnd`), which is outside the reach of the prover.

## Not modelled

* The examples: input and output only.
* The handler mux: a map under one lock that is filled before the server
  starts. An unknown type is an ordinary handler error, which `TaskEngine` has.
* Calls that only read (`Get` by clients, `ListDeadLetters`, counts), except
  where a later write depends on them; `moveOneScript`, which is not called.
* Defaults and validation of `Config`, `Metrics.RecordDuration` and `Snapshot`,
  `reportError`: they decide nothing that the properties speak about.
* Timeouts and deadlines of single tasks: they end the handler's context, and a
  handler may return any result at any time in the model.
* A timer with an injected clock, which only tests create: its wait is computed
  on one clock and slept on another.
* The repetition of a command inside the Redis client: a call happens at most
  once, whether its reply arrives or not.
* Real-time relations between heartbeat interval and lease: a heartbeat may
  always come too late in the model, so everything proved holds without them,
  and nothing is shown that would need them.
