------------------------- MODULE TaskEngineCounting -------------------------
(***************************************************************************)
(* What is counted and computed while servers run: the calls of a handler   *)
(* stay within the task's budget, the delay of a retry is right for the     *)
(* count in the message, the store gets what the options of a task ask for  *)
(* and ranks it right, and the counters of Metrics agree with the store.    *)
(***************************************************************************)
EXTENDS TaskEngineBudget, StoreRequests, ComputationProofs, FiniteSetTheorems

\* Most leaves are first-order and left to Zenon; one that needs arithmetic or
\* records cites the SMT solver.
USE ZenonT(30)

(* Runs *)

\* What can be numbered from 1 to n is finite and has at most n elements.
LEMMA WithinCardinality ==
  ASSUME NEW S, NEW n \in Nat, Within(S, n)
  PROVE  IsFiniteSet(S) /\ Cardinality(S) <= n
<1>1. PICK number \in [S -> 1 .. n] :
        \A x, y \in S : number[x] = number[y] => x = y
  BY DEF Within
<1>2. number \in Injection(S, 1 .. n)
  BY <1>1 DEF Injection, IsInjective
<1>3. IsFiniteSet(1 .. n) /\ Cardinality(1 .. n) = n
  BY SMTT(30), FS_Interval
<1>4. IsFiniteSet(S) /\ Cardinality(S) <= Cardinality(1 .. n)
  BY <1>2, <1>3, FS_Injection
<1> QED BY <1>3, <1>4

\* The invariant of TaskEngineBudget bounds the runs of a task.
LEMMA BudgetCounts ==
  ASSUME BudgetInv
  PROVE  RunsWithinBudget
BY BudgetBounds, WithinCardinality DEF RunsWithinBudget

\* However many servers there are, whatever crashes, expires, is lost or is
\* stopped: the handler is called at most MaxRetry + 1 times for a task
\* (process and recoveryLoop, RunsWithinBudget).
THEOREM EngineRunsWithinBudget == EngineSpec => []RunsWithinBudget
  BY BudgetCounts, EngineBudgetInvariant, PTL

\* Whatever the store counts as retries of a task, ExponentialBackoff and
\* ExponentialBackoffWithJitter make a delay of it that is in bounds.
THEOREM EngineBackoffBounded == EngineSpec => []BackoffBounded
<1>1. ASSUME BudgetInv, NEW i \in Ids, Exists(i),
             NEW n \in task[i].msg.retryCount .. MaxCount
      PROVE  n \in BoundedCounts
  <2>1. task[i].msg.retryCount \in Nat
    BY <1>1, PaidNat DEF BudgetInv, EngineInv
  <2>2. n \in 0 .. MaxCount /\ n \in Nat
    BY SMTT(30), <2>1, BackoffAssumption
  <2> QED BY <2>2, BackoffDelays DEF BoundedCounts
<1>2. BudgetInv => BackoffBounded
  BY <1>1 DEF BackoffBounded
<1> QED BY <1>2, EngineBudgetInvariant, PTL
-----------------------------------------------------------------------------
(* Requests *)

\* Once a task is in the store, every request that may have put it there was
\* sent as its options say, whatever Now and however many options there are
\* (Enqueue, EnqueueAt and EnqueueIn, client.go).
THEOREM StoreSendsWhatWasAsked == StoreSpec => []SendsWhatWasAsked
<1>1. SendsWhatWasAsked
  BY NothingMisread DEF SendsWhatWasAsked
<1> QED BY <1>1, PTL

\* The tasks that wait are ranked by priority first and then by creation time,
\* for every width of the mantissa, weight and range of priorities that
\* RankAssumption admits: 53 bits, 10^15 and priorities below 2^51 among them
\* (taskRank, rdb.go).
THEOREM StoreRankOrders == StoreSpec => []RankOrders
<1>1. RankOrders
  BY NothingMisranked DEF RankOrders
<1> QED BY <1>1, PTL

-----------------------------------------------------------------------------
(* Metrics *)

\* n counts the elements of S, or after f # 0 faults fewer.
Counts(n, S, f) ==
  /\ IsFiniteSet(S)
  /\ n <= Cardinality(S)
  /\ f = 0 => n = Cardinality(S)

TasksIn(st) == {i \in Ids : In(i, st)}

CountedOf(i) == IF Exists(i) THEN 1 .. task[i].msg.retryCount ELSE {}

MetricsInv ==
  /\ Counts(metrics["processed"], TasksIn("completed"), faults)
  /\ Counts(metrics["archived"], TasksIn("archived"), faults)
  /\ Counts(metrics["retried"], Retries, faults)

\* Nothing is counted, nothing is to be counted.
LEMMA CountsStay ==
  ASSUME NEW n, NEW S, NEW f \in Nat, NEW g \in {f, f + 1}, Counts(n, S, f)
  PROVE  Counts(n, S, g)
<1>1. g = 0 => f = 0
  BY SMTT(30)
<1> QED BY <1>1 DEF Counts

\* One more, and it is counted or a fault keeps it from being counted.
LEMMA CountsGrow ==
  ASSUME NEW n \in Nat, NEW S, NEW f \in Nat, NEW x, x \notin S,
         Counts(n, S, f)
  PROVE  /\ Counts(n + 1, S \cup {x}, f)
         /\ Counts(n, S \cup {x}, f + 1)
<1>1. /\ IsFiniteSet(S \cup {x})
      /\ Cardinality(S \cup {x}) = Cardinality(S) + 1
  BY FS_AddElement DEF Counts
<1>2. Cardinality(S) \in Nat
  BY FS_CardinalityType DEF Counts
<1> QED BY SMTT(30), <1>1, <1>2 DEF Counts

\* The retries of the store are those of its tasks.
LEMMA RetriesByTask ==
  \A x : x \in Retries <=> \E i \in Ids : x \in {i} \X CountedOf(i)
BY DEF Retries, CountedOf

\* The same after a step.
LEMMA RetriesByTaskNext ==
  \A x : x \in Retries' <=> \E i \in Ids : x \in {i} \X CountedOf(i)'
BY DEF Retries, CountedOf

\* What a step does to the counted sets, by what it does to every task.
SameCount(i) ==
  /\ In(i, "completed")' <=> In(i, "completed")
  /\ In(i, "archived")' <=> In(i, "archived")
  /\ CountedOf(i)' = CountedOf(i)

\* A step that ends no task and counts no retry.
LEMMA NothingToCount ==
  ASSUME MetricsInv, ServerTypeOK, \A i \in Ids : SameCount(i),
         Fault \/ NoFault,
         \A c \in {"processed", "archived", "retried"} :
           metrics'[c] = metrics[c]
  PROVE  MetricsInv'
<1>1. /\ TasksIn("completed")' = TasksIn("completed")
      /\ TasksIn("archived")' = TasksIn("archived")
  BY DEF TasksIn, SameCount
<1>2. Retries' = Retries
  BY RetriesByTask, RetriesByTaskNext DEF SameCount
<1>3. faults \in Nat
  BY SMTT(30), EngineAssumption DEF ServerTypeOK
<1>4. faults' \in {faults, faults + 1}
  BY DEF Fault, NoFault
<1> QED BY <1>1, <1>2, <1>3, <1>4, CountsStay DEF MetricsInv

\* The message of an existing task has a number of retries.
LEMMA CountNat ==
  ASSUME Inv, NEW i \in Ids, Exists(i)
  PROVE  task[i].msg \in Message /\ task[i].msg.retryCount \in Nat
<1>1. task[i].msg \in Message
  BY WholeHash DEF Inv, Exists
<1> QED BY <1>1 DEF Message

\* Enqueue and Schedule.
LEMMA CreateCounts ==
  ASSUME Inv, Produce
  PROVE  \A i \in Ids : SameCount(i)
<1>1. PICK i \in Ids, p \in Payloads, n \in MaxRetries, r \in Ranks :
        \/ Enqueue(i, NewMessage(p, n), r)
        \/ \E at \in Times : Schedule(i, NewMessage(p, n), r, at)
  BY DEF Produce
<1>2. PICK st \in {"pending", "scheduled"} :
        /\ task' = [task EXCEPT ![i] =
                      [msg |-> NewMessage(p, n), state |-> st, rank |-> r,
                       member |-> sequence + 1, attempt |-> None]]
        /\ ~Exists(i)
  BY <1>1 DEF Enqueue, enqueueScript, Schedule, scheduleScript
<1>3. /\ \A j \in Ids : j # i => task'[j] = task[j]
      /\ task'[i].state = st /\ task'[i].msg.retryCount = 0
  BY SMTT(30), <1>2 DEF Inv, StoreTypeOK, NewMessage
<1>4. CountedOf(i)' = {} /\ CountedOf(i) = {}
  BY SMTT(30), <1>2, <1>3 DEF CountedOf
<1>5. SameCount(i)
  BY <1>2, <1>3, <1>4, StoreAssumption DEF SameCount, In, Exists, States
<1>6. \A j \in Ids : j # i => SameCount(j)
  BY <1>3 DEF SameCount, In, CountedOf, Exists
<1> QED BY <1>5, <1>6

\* Claim.
LEMMA ClaimCounts ==
  ASSUME Inv, NEW a \in Attempts, NEW x \in Times, Claim(a, x)
  PROVE  \A i \in Ids : SameCount(i)
<1>1. PICK i \in Ids : ClaimOf(i, a, x)
  BY ClaimTakesPending
<1>2. /\ \A j \in Ids : j # i => task'[j] = task[j]
      /\ task'[i].state = "active" /\ task'[i].msg = task[i].msg
      /\ task[i].state = "pending"
  BY <1>1, HSetOwner DEF ClaimOf, Inv, StoreTypeOK, In
<1>3. Exists(i) /\ Exists(i)'
  BY <1>2, StoreAssumption DEF Exists, States
<1> QED BY <1>2, <1>3 DEF SameCount, In, CountedOf, Exists

\* MoveReady.
LEMMA MoveCounts ==
  ASSUME Inv, NEW source \in {"scheduled", "retry"}, NEW now \in Times,
         MoveReady(source, now)
  PROVE  \A i \in Ids : SameCount(i)
<1>1. PICK M \in SUBSET Ids : MoveReadyOf(M, source)
  BY MoveReadyMoves
<1>2. ASSUME NEW i \in Ids PROVE SameCount(i)
  <2>1. CASE i \in M
    <3>1. task[i] \in Hash /\ task[i].state \in {"scheduled", "retry"}
      BY <1>1, <2>1 DEF MoveReadyOf, In, Inv, StoreTypeOK
    <3>2. task'[i].state = "pending" /\ task'[i].msg = task[i].msg
      BY <1>1, <2>1, <3>1 DEF MoveReadyOf, Hash
    <3>3. Exists(i) /\ Exists(i)'
      BY <3>1, <3>2, StoreAssumption DEF Exists, States
    <3> QED BY <3>1, <3>2, <3>3 DEF SameCount, In, CountedOf
  <2>2. CASE i \notin M
    BY <1>1, <2>2 DEF MoveReadyOf, SameCount, In, CountedOf, Exists
  <2> QED BY <2>1, <2>2
<1> QED BY <1>2

\* The end of a claim, with the message that its owner was given.
LEMMA CloseHash ==
  ASSUME Inv, NEW a \in Attempts, NEW i \in Ids, NEW m \in Message,
         NEW st \in Closings, Closes(i, a, m, st)
  PROVE  /\ task[i].state = "active" /\ task'[i].state = st
         /\ task'[i].msg = m /\ task[i].msg = issued[a].msg
         /\ Exists(i) /\ Exists(i)'
         /\ \A j \in Ids : j # i => SameCount(j)
<1>1. Closed(i, m, st)
  BY CloseShared DEF Closings
<1>2. task[i].state = "active" /\ task[i].attempt = a
  BY DEF Closes, Owns
<1>3. task[i].msg = issued[a].msg
  BY <1>2 DEF Inv, OwnerHoldsMessage, In
<1>4. Exists(i) /\ Exists(i)'
  BY <1>1, <1>2, StoreAssumption DEF Closed, Exists, Closings, States
<1>5. \A j \in Ids : j # i => SameCount(j)
  BY <1>1 DEF Closed, SameCount, In, CountedOf, Exists
<1> QED BY <1>1, <1>2, <1>3, <1>4, <1>5 DEF Closed

\* Requeue.
LEMMA RequeueCounts ==
  ASSUME Inv, NEW a \in Attempts, Requeue(a)
  PROVE  \A i \in Ids : SameCount(i)
<1>1. PICK i \in Ids : i = issued[a].id
  BY StoreAssumption DEF Inv, StoreTypeOK, Requeue, Handles, Handle
<1>2. Closes(i, a, task[i].msg, "pending") /\ "pending" \in Closings
  BY <1>1 DEF Requeue, requeueScript, Closes, Closings, States
<1>3. task[i].msg \in Message
  BY <1>2, WholeHash, StoreAssumption DEF Inv, Closes, Owns, States
<1>4. /\ task[i].state = "active" /\ task'[i].state = "pending"
      /\ task'[i].msg = task[i].msg
      /\ Exists(i) /\ Exists(i)'
      /\ \A j \in Ids : j # i => SameCount(j)
  BY <1>2, <1>3, CloseHash
<1> QED BY <1>4 DEF SameCount, In, CountedOf

\* Counting one call, or losing its reply.
LEMMA AnswerCounts ==
  ASSUME ServerTypeOK, NEW c \in Counters, Answer(c), NEW S, NEW T, NEW x,
         T = S \cup {x}, x \notin S, Counts(metrics[c], S, faults)
  PROVE  /\ Counts(metrics'[c], T, faults')
         /\ \A d \in Counters \ {c} : metrics'[d] = metrics[d]
         /\ faults \in Nat /\ faults' \in {faults, faults + 1}
<1>1. faults \in Nat
  BY SMTT(30), EngineAssumption DEF ServerTypeOK
<1>2. metrics[c] \in Nat /\ metrics \in [Counters -> Nat]
  BY DEF ServerTypeOK
<1>3. \/ metrics'[c] = metrics[c] + 1 /\ faults' = faults
      \/ metrics'[c] = metrics[c] /\ faults' = faults + 1
  BY <1>2 DEF Answer, Count, Fault, NoFault
<1>4. \A d \in Counters \ {c} : metrics'[d] = metrics[d]
  BY <1>2 DEF Answer, Count
<1>5. Counts(metrics[c] + 1, T, faults) /\ Counts(metrics[c], T, faults + 1)
  BY <1>1, <1>2, CountsGrow
<1> QED BY <1>1, <1>3, <1>4, <1>5

\* AckSuccess adds a completed task, Archive an archived one.
LEMMA EndCounts ==
  ASSUME Inv, ServerTypeOK, MetricsInv, NEW a \in Attempts,
         \/ AckSuccess(a) /\ Answer("processed")
         \/ Archive(a) /\ Answer("archived")
  PROVE  MetricsInv'
<1>1. a \in Handles
  BY DEF AckSuccess, Archive
<1>2. PICK i \in Ids : i = issued[a].id
  BY <1>1, StoreAssumption DEF Inv, StoreTypeOK, Handles, Handle
<1>3. issued[a].msg \in Message
  BY <1>1, StoreAssumption DEF Inv, StoreTypeOK, Handles, Handle
<1>4. {"completed", "archived"} \subseteq Closings
  BY DEF Closings, States
<1>5. ASSUME NEW st \in {"completed", "archived"},
             Closes(i, a, issued[a].msg, st)
      PROVE  /\ i \notin TasksIn(st) /\ TasksIn(st)' = TasksIn(st) \cup {i}
             /\ \A ot \in {"completed", "archived"} \ {st} :
                  TasksIn(ot)' = TasksIn(ot)
             /\ Retries' = Retries
  <2>1. /\ task[i].state = "active" /\ task'[i].state = st
        /\ task'[i].msg = task[i].msg
        /\ Exists(i) /\ Exists(i)'
        /\ \A j \in Ids : j # i => SameCount(j)
    <3>1. st \in Closings
      BY <1>4
    <3> QED BY SMTT(30), <1>3, <1>5, <3>1, CloseHash
  <2>2. i \notin TasksIn(st) /\ TasksIn(st)' = TasksIn(st) \cup {i}
    BY <2>1 DEF TasksIn, In, SameCount
  <2>3. \A ot \in {"completed", "archived"} \ {st} : TasksIn(ot)' = TasksIn(ot)
    BY <2>1 DEF TasksIn, In, SameCount
  <2>4. \A j \in Ids : CountedOf(j)' = CountedOf(j)
    BY <2>1 DEF SameCount, CountedOf
  <2> QED BY <2>2, <2>3, <2>4, RetriesByTask, RetriesByTaskNext
<1>6. {"processed", "archived", "retried"} \subseteq Counters
  BY DEF Counters
<1>7. CASE AckSuccess(a) /\ Answer("processed")
  <2>1. Closes(i, a, issued[a].msg, "completed")
    BY <1>2, <1>7 DEF AckSuccess, ackScript, Closes
  <2>2. /\ i \notin TasksIn("completed")
        /\ TasksIn("completed")' = TasksIn("completed") \cup {i}
        /\ TasksIn("archived")' = TasksIn("archived") /\ Retries' = Retries
    BY <1>5, <2>1
  <2> QED BY <1>6, <1>7, <2>2, AnswerCounts, CountsStay DEF MetricsInv
<1>8. CASE Archive(a) /\ Answer("archived")
  <2>1. Closes(i, a, issued[a].msg, "archived")
    BY <1>2, <1>8 DEF Archive, archiveScript, Closes
  <2>2. /\ i \notin TasksIn("archived")
        /\ TasksIn("archived")' = TasksIn("archived") \cup {i}
        /\ TasksIn("completed")' = TasksIn("completed") /\ Retries' = Retries
    BY <1>5, <2>1
  <2> QED BY <1>6, <1>8, <2>2, AnswerCounts, CountsStay DEF MetricsInv
<1> QED BY <1>7, <1>8

\* ScheduleRetry adds a retry.
LEMMA RetryCounts ==
  ASSUME Inv, ServerTypeOK, MetricsInv, NEW a \in Attempts, NEW at \in Times,
         ScheduleRetry(a, at), Answer("retried")
  PROVE  MetricsInv'
<1>1. a \in Handles
  BY DEF ScheduleRetry
<1>2. PICK i \in Ids : i = issued[a].id
  BY <1>1, StoreAssumption DEF Inv, StoreTypeOK, Handles, Handle
<1>3. PICK k \in Nat : k = issued[a].msg.retryCount
  BY <1>1, StoreAssumption DEF Inv, StoreTypeOK, Handles, Handle, Message
<1>4. /\ Retried(issued[a].msg) \in Message
      /\ Retried(issued[a].msg).retryCount = k + 1
  <2>1. issued[a].msg \in Message
    BY <1>1, StoreAssumption DEF Inv, StoreTypeOK, Handles, Handle
  <2> QED BY SMTT(30), <1>3, <2>1 DEF Retried, Message
<1>5. Closes(i, a, Retried(issued[a].msg), "retry") /\ "retry" \in Closings
  BY <1>2 DEF ScheduleRetry, retryScript, Closes, Closings, States
<1>6. /\ task[i].state = "active" /\ task'[i].state = "retry"
      /\ task[i].msg.retryCount = k /\ task'[i].msg.retryCount = k + 1
      /\ Exists(i) /\ Exists(i)'
      /\ \A j \in Ids : j # i => SameCount(j)
  <2>1. /\ task[i].state = "active" /\ task'[i].state = "retry"
        /\ task[i].msg = issued[a].msg /\ task'[i].msg = Retried(issued[a].msg)
        /\ Exists(i) /\ Exists(i)'
        /\ \A j \in Ids : j # i => SameCount(j)
    BY SMTT(30), <1>4, <1>5, CloseHash
  <2> QED BY <1>3, <1>4, <2>1
<1>7. /\ TasksIn("completed")' = TasksIn("completed")
      /\ TasksIn("archived")' = TasksIn("archived")
  BY <1>6 DEF TasksIn, In, SameCount
<1>8. CountedOf(i) = 1 .. k /\ CountedOf(i)' = 1 .. k + 1
  BY <1>6 DEF CountedOf
<1>9. 1 .. k + 1 = (1 .. k) \cup {k + 1} /\ k + 1 \notin 1 .. k
  BY SMTT(30)
<1>10. Retries' = Retries \cup {<<i, k + 1>>} /\ <<i, k + 1>> \notin Retries
  <2>1. <<i, k + 1>> \notin Retries
    <3>1. \A j, S : <<i, k + 1>> \in {j} \X S => j = i /\ k + 1 \in S
      BY SMTT(30)
    <3> QED BY <1>8, <1>9, <3>1, RetriesByTask
  <2>2. \A j \in Ids : j # i => CountedOf(j)' = CountedOf(j)
    BY <1>6 DEF SameCount
  <2>3. {i} \X CountedOf(i)' = ({i} \X CountedOf(i)) \cup {<<i, k + 1>>}
    BY SMTT(30), <1>8, <1>9
  <2> QED BY <2>1, <2>2, <2>3, RetriesByTask, RetriesByTaskNext
<1>11. {"processed", "archived", "retried"} \subseteq Counters
  BY DEF Counters
<1>12. /\ Counts(metrics'["retried"], Retries', faults')
       /\ \A d \in Counters \ {"retried"} : metrics'[d] = metrics[d]
       /\ faults \in Nat /\ faults' \in {faults, faults + 1}
  BY <1>10, <1>11, AnswerCounts DEF MetricsInv
<1> QED BY <1>7, <1>11, <1>12, CountsStay DEF MetricsInv

\* A call that ends a claim, or is refused.
LEMMA CloseCounts ==
  ASSUME Inv, ServerTypeOK, MetricsInv, NEW s, NEW a \in Attempts, NEW p,
         \/ AckSuccess(a) /\ Answer("processed")
         \/ GiveUp(a, p)
         \/ Refused(s, a) /\ UNCHANGED metrics
  PROVE  MetricsInv'
<1>1. CASE AckSuccess(a) /\ Answer("processed")
  BY <1>1, EndCounts
<1>2. CASE GiveUp(a, p)
  BY <1>2, EndCounts, RetryCounts, EngineAssumption DEF GiveUp
<1>3. CASE Refused(s, a) /\ UNCHANGED metrics
  <2>1. task' = task /\ (Fault \/ NoFault)
    BY <1>3 DEF Refused, CallFails, storeVars
  <2> QED BY <1>3, <2>1, NothingToCount DEF SameCount, In, CountedOf, Exists
<1> QED BY <1>1, <1>2, <1>3

\* A step that leaves the Hashes alone.
LEMMA SameTasks ==
  ASSUME task' = task
  PROVE  \A i \in Ids : SameCount(i)
BY DEF SameCount, In, CountedOf, Exists

\* The dispatcher counts nothing.
LEMMA DispatchCounts ==
  ASSUME EngineInv, MetricsInv, NEW s \in Servers, Dispatch(s)
  PROVE  MetricsInv'
<1>1. Inv /\ ServerTypeOK
  BY DEF EngineInv, ServerInv
<1>2. UNCHANGED metrics /\ (Fault \/ NoFault)
  BY DEF Dispatch, DispatchHead, DispatchMove, DispatchCount, DispatchClaim,
         HandOff, RequeueOffered, Refused, CallFails, NoFault
<1>3. \A i \in Ids : SameCount(i)
  <2>1. CASE UNCHANGED storeVars
    BY <2>1, SameTasks DEF storeVars
  <2>2. ASSUME NEW source \in {"scheduled", "retry"}, MoveReady(source, 0)
        PROVE  \A i \in Ids : SameCount(i)
    <3>1. 0 \in Times
      BY SMTT(30), StoreAssumption DEF Times
    <3> QED BY <1>1, <2>2, <3>1, MoveCounts
  <2>3. ASSUME NEW a \in Attempts, Claim(a, LeaseTicks)
        PROVE  \A i \in Ids : SameCount(i)
    BY <1>1, <2>3, ClaimCounts, EngineAssumption
  <2>4. CASE RequeueOffered(s) /\ Requeue(disp[s].att)
    <3>1. disp[s].att \in Attempts
      BY <2>4 DEF Requeue, Handles
    <3> QED BY <1>1, <2>4, <3>1, RequeueCounts
  <2> QED BY <2>1, <2>2, <2>3, <2>4
          DEF Dispatch, DispatchHead, DispatchMove, DispatchCount,
              DispatchClaim, HandOff, RequeueOffered, Refused, CallFails
<1> QED BY <1>1, <1>2, <1>3, NothingToCount

\* A worker counts how it ended its claim.  RecordFailed is another counter.
LEMMA ProcessCounts ==
  ASSUME EngineInv, MetricsInv, NEW s \in Servers, NEW a \in Attempts,
         HandlerReturns(s, a) \/ Finish(s, a)
  PROVE  MetricsInv'
<1>1. Inv /\ ServerTypeOK
  BY DEF EngineInv, ServerInv
<1>2. CASE HandlerReturns(s, a)
  <2>1. task' = task /\ NoFault
    BY <1>2 DEF HandlerReturns, storeVars, NoFault
  <2>2. \A c \in {"processed", "archived", "retried"} : metrics'[c] = metrics[c]
    <3>1. /\ metrics \in [Counters -> Nat]
          /\ UNCHANGED metrics \/ Count("failed")
      BY <1>1, <1>2 DEF HandlerReturns, ServerTypeOK
    <3> QED BY <3>1 DEF Count, Counters
  <2> QED BY <1>1, <2>1, <2>2, SameTasks, NothingToCount
<1>3. CASE Finish(s, a)
  BY <1>1, <1>3, CloseCounts DEF Finish
<1> QED BY <1>2, <1>3

\* So does recovery.
LEMMA RecoverCounts ==
  ASSUME EngineInv, MetricsInv, NEW s \in Servers, Recover(s)
  PROVE  MetricsInv'
<1>1. Inv /\ ServerTypeOK
  BY DEF EngineInv, ServerInv
<1>2. CASE RecoveryScan(s) \/ RecoveryGet(s)
  <2>1. task' = task /\ UNCHANGED metrics /\ (Fault \/ NoFault)
    BY <1>2 DEF RecoveryScan, RecoveryGet, CallFails, storeVars, NoFault
  <2> QED BY <1>1, <2>1, SameTasks, NothingToCount
<1>3. CASE RecoveryClose(s)
  <2>1. rec[s].got \in Attempts
    BY <1>1, <1>3 DEF RecoveryClose, ServerTypeOK
  <2> QED BY <1>1, <1>3, <2>1, CloseCounts DEF RecoveryClose
<1> QED BY <1>2, <1>3 DEF Recover

\* The rest of the steps count nothing and end no claim.
LEMMA OtherCounts ==
  ASSUME EngineInv, MetricsInv,
         \/ Produce \/ EngineTick \/ UNCHANGED engineVars
         \/ \E s \in Servers :
              \/ Heartbeat(s) \/ Start(s) \/ Lifecycle(s)
              \/ ShutdownTimeout(s) \/ Crash(s)
              \/ requestStop(s, "stop") \/ requestStop(s, "shutdown")
  PROVE  MetricsInv'
<1>1. Inv /\ ServerTypeOK
  BY DEF EngineInv, ServerInv
<1>2. CASE Produce
  <2>1. UNCHANGED metrics /\ NoFault
    BY <1>2 DEF Produce, serverVars, NoFault
  <2> QED BY <1>1, <1>2, <2>1, CreateCounts, NothingToCount
<1>3. CASE ~Produce
  <2>1. task' = task /\ UNCHANGED metrics /\ (Fault \/ NoFault)
    BY <1>3 DEF EngineTick, Tick, engineVars, serverVars, storeVars, NoFault,
       Heartbeat, HeartbeatTick, HeartbeatExtend, ExtendLease,
       extendLeaseScript, CallFails, Start, Lifecycle, StopCancel,
       ShutdownCancel, ShutdownReturn, ShutdownTimeout, Cancel, Crash,
       requestStop
  <2> QED BY <1>1, <2>1, SameTasks, NothingToCount
<1> QED BY <1>2, <1>3

\* The counters of Metrics agree with the store (MetricsMatchStore) for any
\* number of tasks, servers and faults: a call is counted once if and only if
\* it ended a claim and its reply was not lost.
THEOREM EngineMetrics == EngineSpec => []MetricsMatchStore
<1>1. EngineInit => MetricsInv
  <2> SUFFICES ASSUME EngineInit PROVE MetricsInv
    OBVIOUS
  <2>1. \A i \in Ids : task[i].state = None
    BY DEF EngineInit, StoreInit, NoHash
  <2>2. TasksIn("completed") = {} /\ TasksIn("archived") = {}
    BY <2>1, StoreAssumption DEF TasksIn, In, States
  <2>3. Retries = {}
    <3>1. \A i \in Ids : CountedOf(i) = {}
      BY <2>1 DEF CountedOf, Exists
    <3> QED BY <3>1 DEF Retries, CountedOf
  <2>4. Counts(0, {}, faults)
    BY SMTT(30), FS_EmptySet DEF Counts
  <2>5. \A c \in Counters : metrics[c] = 0
    BY DEF EngineInit
  <2> QED BY <2>2, <2>3, <2>4, <2>5 DEF MetricsInv, Counters
<1>2. EngineInv /\ MetricsInv /\ [EngineNext]_engineVars => MetricsInv'
  BY DispatchCounts, ProcessCounts, RecoverCounts, OtherCounts DEF EngineNext
<1>3. MetricsInv => MetricsMatchStore
  BY DEF MetricsInv, MetricsMatchStore, Matches, Counts, TasksIn
<1> QED BY <1>1, <1>2, <1>3, EngineInvariant, PTL DEF EngineSpec
=============================================================================
