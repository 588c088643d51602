----------------------------- MODULE Dispatchers -----------------------------
(***************************************************************************)
(* The dispatchers of several servers that serve the same queues and share  *)
(* one token bucket (dispatch in server/server.go with Config.TokenBucket   *)
(* and more than one queue).  It shows what TaskEngine leaves out: the      *)
(* order of the queues, the limiter between counting and claiming, and how  *)
(* long a dispatcher waits.  What happens to a task after its claim, and    *)
(* the order of tasks within a queue, are in TaskEngine and RedisStore.     *)
(***************************************************************************)
EXTENDS TokenBucket, FiniteSets, Sequences

CONSTANTS
  Servers,
  Tasks,
  Queues,
  Priority,       \* Config.Queues, one entry per queue
  DefaultQueue,
  TokenAmount,    \* Config.TokenAmount, at most Capacity (validate)
  PollInterval,   \* Config.PollInterval
  MaxFaults       \* bound on failed calls and lost replies

VARIABLES
  queues,    \* Server.queues: the order in which a server looks at them
  pending,   \* the tasks that wait in every queue
  claimed,   \* the tasks that were claimed
  disp,      \* where a dispatcher is: step, index into queues, time to wait
  seen,      \* what was pending when the dispatcher began to claim
  faults

dispatchVars == <<queues, pending, claimed, disp, seen, faults>>
vars == <<bucketVars, dispatchVars>>

ASSUME DispatchAssumption ==
  /\ IsFiniteSet(Queues)
  /\ Priority \in [Queues -> Int]
  /\ DefaultQueue \in Queues
  /\ Amounts = {TokenAmount}
  /\ PollInterval \in Nat \ {0}
  /\ MaxFaults \in Nat

-----------------------------------------------------------------------------
(* State *)

Steps == {"head", "count", "acquire", "claim", "wait"}

Served == LET on == {q \in Queues : Priority[q] > 0}
          IN IF on = {} THEN {DefaultQueue} ELSE on

\* The orders of the queues that are served, each of them once.
Orders ==
  {s \in [1 .. Cardinality(Served) -> Served] :
     \A q \in Served : \E i \in DOMAIN s : s[i] = q}

\* Mutant: the queue of the lowest priority comes first.
QueueOrdersAscending ==
  {s \in Orders :
     \A i, j \in DOMAIN s : i < j => Priority[s[i]] <= Priority[s[j]]}

\* New drops queues without priority and sorts the others, highest first.
\* They come from a Go map, so equal ones are in any order.
QueueOrders ==
  {s \in Orders :
     \A i, j \in DOMAIN s : i < j => Priority[s[i]] >= Priority[s[j]]}

DispatchTypeOK ==
  /\ BucketTypeOK
  /\ queues \in [Servers -> QueueOrders]
  /\ pending \in [Queues -> SUBSET Tasks]
  /\ claimed \subseteq Tasks
  /\ disp \in [Servers -> [at : Steps, i : 1 .. Cardinality(Served),
                          left : Nat]]
  /\ seen \in [Servers -> SUBSET Tasks]
  /\ faults \in 0 .. MaxFaults

DispatchInit ==
  /\ BucketInit
  /\ queues \in [Servers -> QueueOrders]
  /\ pending = [q \in Queues |-> {}]
  /\ claimed = {}
  /\ disp = [s \in Servers |-> [at |-> "head", i |-> 1, left |-> 0]]
  /\ seen = [s \in Servers |-> {}]
  /\ faults = 0

Pending == UNION {pending[q] : q \in Queues}

-----------------------------------------------------------------------------
(* dispatch *)

Fault == faults < MaxFaults /\ faults' = faults + 1
NoFault == UNCHANGED faults

Goto(s, step, i) == disp' = [disp EXCEPT ![s] = [at |-> step, i |-> i, left |-> 0]]

\* waitOrStop waits a millisecond at least.
waitOrStop(s, duration) ==
  disp' = [disp EXCEPT ![s] =
             [at |-> "wait", i |-> 1,
              left |-> IF duration <= 0 THEN 1 ELSE duration]]

Queue(s) == queues[s][disp[s].i]

\* Mutant: the turn ends at the first queue without a task.
NextQueueNever(s) == waitOrStop(s, PollInterval)

\* Mutant: one queue too many.
NextQueueBeyond(s) ==
  IF disp[s].i <= Len(queues[s])
  THEN Goto(s, disp[s].at, disp[s].i + 1)
  ELSE waitOrStop(s, PollInterval)

\* Nothing in this queue: the next one, or wait when it was the last.
NextQueue(s) ==
  IF disp[s].i < Len(queues[s])
  THEN Goto(s, disp[s].at, disp[s].i + 1)
  ELSE waitOrStop(s, PollInterval)

\* The head of the loop, with MoveReady.
BeginTurn(s) ==
  /\ disp[s].at = "head"
  /\ \/ NoFault /\ Goto(s, "count", 1)
     \/ Fault /\ waitOrStop(s, PollInterval)
  /\ UNCHANGED <<bucketVars, queues, pending, claimed, seen>>

\* PendingCount of one queue; an error counts as nothing pending.
PendingCount(s) ==
  /\ disp[s].at = "count"
  /\ \/ NoFault /\ pending[Queue(s)] # {} /\ Goto(s, "acquire", 1)
     \/ NoFault /\ pending[Queue(s)] = {} /\ NextQueue(s)
     \/ Fault /\ NextQueue(s)
  /\ UNCHANGED <<bucketVars, queues, pending, claimed, seen>>

\* Acquire.  A lost reply leaves the token taken.
AcquireToken(s) ==
  /\ disp[s].at = "acquire"
  /\ \/ \E t \in Refilled : \E retry \in RetryAfter(TokenAmount, t) :
          /\ Acquire(TokenAmount, t, retry)
          /\ \/ NoFault /\ IF t >= TokenAmount THEN Goto(s, "claim", 1)
                                              ELSE waitOrStop(s, retry)
             \/ Fault /\ waitOrStop(s, PollInterval)
     \/ UNCHANGED bucketVars /\ Fault /\ waitOrStop(s, PollInterval)
  /\ seen' = [seen EXCEPT ![s] = IF disp'[s].at = "claim" THEN Pending ELSE {}]
  /\ UNCHANGED <<queues, pending, claimed>>

\* The task leaves the queue; which one it is, claimScript decides.
Take(s) ==
  \E t \in pending[Queue(s)] :
    /\ pending' = [pending EXCEPT ![Queue(s)] = @ \ {t}]
    /\ claimed' = claimed \cup {t}

\* Claim of one queue.  The token is spent, also when the queues have been
\* emptied by other servers since they were counted.  A call that fails, or
\* whose reply is lost, passes on to the next queue.
Claim(s) ==
  /\ disp[s].at = "claim"
  /\ \/ Take(s) /\ Goto(s, "head", 1) /\ NoFault
     \/ /\ pending[Queue(s)] = {} /\ NextQueue(s)
        /\ NoFault /\ UNCHANGED <<pending, claimed>>
     \/ /\ Take(s) \/ UNCHANGED <<pending, claimed>>
        /\ Fault /\ NextQueue(s)
  /\ seen' = [seen EXCEPT ![s] = IF disp'[s].at = "claim"
                                  THEN @ \ pending[Queue(s)] ELSE {}]
  /\ UNCHANGED <<bucketVars, queues>>

EndWait(s) ==
  /\ disp[s].at = "wait" /\ disp[s].left = 0
  /\ Goto(s, "head", 1)
  /\ UNCHANGED <<bucketVars, queues, pending, claimed, seen, faults>>

Dispatch(s) ==
  \/ BeginTurn(s)
  \/ PendingCount(s)
  \/ AcquireToken(s)
  \/ Claim(s)
  \/ EndWait(s)

-----------------------------------------------------------------------------
(* The system *)

Enqueue(t, q) ==
  /\ t \notin Pending \cup claimed
  /\ pending' = [pending EXCEPT ![q] = @ \cup {t}]
  /\ UNCHANGED <<bucketVars, queues, claimed, disp, seen, faults>>

Tick ==
  /\ BucketTick
  /\ disp' = [s \in Servers |-> IF disp[s].left > 0
                                THEN [disp[s] EXCEPT !.left = @ - 1]
                                ELSE disp[s]]
  /\ UNCHANGED <<queues, pending, claimed, seen, faults>>

SetBack ==
  /\ \E n \in 1 .. MaxBack : ClockBack(n)
  /\ UNCHANGED dispatchVars

DispatchNext ==
  \/ \E s \in Servers : Dispatch(s)
  \/ \E t \in Tasks, q \in Queues : Enqueue(t, q)
  \/ Tick
  \/ SetBack

DispatchSpec == DispatchInit /\ [][DispatchNext]_vars

\* The dispatchers run and Redis answers; time passes.
DispatchLiveSpec ==
  /\ DispatchSpec
  /\ WF_vars(Tick)
  /\ \A s \in Servers : WF_vars(Dispatch(s))

-----------------------------------------------------------------------------
(* Properties *)

\* Strict priority: a dispatcher claims from a queue only when no task that
\* was waiting in a queue of higher priority as it got its token still waits
\* there, whatever the other dispatchers and clients did between its calls
\* (a queue whose Claim failed is passed over).
PriorityKept ==
  [][\A s \in Servers :
       disp[s].at = "claim" /\ disp'[s].at = "head" =>
         \A q \in Served : Priority[q] > Priority[Queue(s)] =>
           seen[s] \cap pending[q] = {}]_vars

\* Every task in a queue that is served is claimed in the end: the queues are
\* empty again and again, and only a claim takes a task out of them.  Tokens
\* spent on queues that another server has emptied, lost replies and a clock
\* that is set back delay the dispatchers and never stop them.  There are
\* finitely many tasks; if they kept coming, a queue of higher priority that
\* never runs empty would starve the others.
EveryTaskClaimed == []<>(\A q \in Served : pending[q] = {})
=============================================================================
