-------------------------- MODULE TaskEngineBudget --------------------------
(***************************************************************************)
(* Every call of a handler is paid for.                                     *)
(*                                                                         *)
(* RunsWithinBudget is not inductive: a claim is counted in the message     *)
(* only when it is given up, possibly long after its handler was called and *)
(* by another server.  The argument looks at the claims of a task that have *)
(* reached a worker or are on offer to one (Committed).  All of them but    *)
(* the present owner's are settled: each is paid for by a retry that the    *)
(* message has counted, and one more by the end of the task.                *)
(*                                                                         *)
(* First what each call to the store does to the invariant, then the steps  *)
(* of the servers.  Two more theorems follow from the invariant and from    *)
(* what a step does to the claims: tasks end only in ways they have earned, *)
(* and a Shutdown that was not cut short leaves no claim open.              *)
(***************************************************************************)
EXTENDS TaskEngineProofs

\* The attempt has been handed to a worker, or a dispatcher offers it.
Touched(a) == outcome[a] # "unrun" \/ \E s \in Servers : disp[s].att = a

Committed(i) == {a \in Handles : issued[a].id = i /\ Touched(a)}

Final(i) == In(i, "completed") \/ In(i, "archived")

Settled(i) == Committed(i) \ {task[i].attempt}

Paid(i) == task[i].msg.retryCount + (IF Final(i) THEN 1 ELSE 0)

\* S has no more than n elements: they can be given different numbers.
Within(S, n) ==
  \E number \in [S -> 1 .. n] :
    \A x, y \in S : number[x] = number[y] => x = y

Budget(i) ==
  Exists(i) => /\ task[i].msg.retryCount <= task[i].msg.maxRetry
               /\ Within(Settled(i), Paid(i))

\* Only claimed attempts run, one on offer has not run, no two dispatchers
\* offer the same one, and a claimed task exists.
Offers ==
  /\ \A a \in Attempts : outcome[a] # "unrun" => a \in Handles
  /\ \A s \in Servers : disp[s].att # None =>
       disp[s].att \in Handles /\ outcome[disp[s].att] = "unrun"
  /\ \A s, t \in Servers :
       disp[s].att # None /\ disp[s].att = disp[t].att => s = t
  /\ \A a \in Handles : Exists(issued[a].id)

BudgetInv == EngineInv /\ Offers /\ \A i \in Ids : Budget(i)

-----------------------------------------------------------------------------
(* Counting *)

\* Most leaves are first-order and left to Zenon; one that needs arithmetic or
\* records cites the SMT solver.
USE ZenonT(30)

\* Nothing is within every bound.
LEMMA NoneWithin ==
  ASSUME NEW n
  PROVE  Within({}, n)
<1> DEFINE none == [x \in {} |-> 0]
<1>1. none \in [{} -> 1 .. n]
  OBVIOUS
<1> QED BY <1>1 DEF Within

\* A settled set that does not grow, or grows by one that is paid for.
LEMMA SettledBound ==
  ASSUME NEW S, NEW T, NEW a, NEW n \in Nat, NEW k \in Nat, Within(S, n),
         \/ T \subseteq S /\ n <= k
         \/ T \subseteq S \cup {a} /\ n + 1 <= k
  PROVE  Within(T, k)
<1>1. PICK number \in [S -> 1 .. n] :
        \A x, y \in S : number[x] = number[y] => x = y
  BY DEF Within
<1>2. \A x \in S : number[x] \in 1 .. n
  OBVIOUS
<1>3. n + 1 \notin 1 .. n
  BY SMTT(30)
<1>4. 1 .. n \subseteq 1 .. k /\ (n + 1 <= k => n + 1 \in 1 .. k)
  BY SMTT(30)
<1>5. CASE T \subseteq S /\ n <= k
  <2> DEFINE fewer == [x \in T |-> number[x]]
  <2>1. fewer \in [T -> 1 .. k]
    BY <1>2, <1>4, <1>5
  <2>2. \A x, y \in T : fewer[x] = fewer[y] => x = y
    BY <1>1, <1>5
  <2> QED BY <2>1, <2>2 DEF Within
<1>6. CASE T \subseteq S \cup {a} /\ n + 1 <= k
  <2> DEFINE more == [x \in T |-> IF x \in S THEN number[x] ELSE n + 1]
  <2>1. more \in [T -> 1 .. k]
    BY <1>2, <1>4, <1>6
  <2>2. \A x, y \in T : more[x] = more[y] => x = y
    BY <1>1, <1>2, <1>3, <1>6
  <2> QED BY <2>1, <2>2 DEF Within
<1> QED BY <1>5, <1>6

\* The counts of an existing task's message are numbers, now and after a step.
LEMMA MessageNat ==
  ASSUME NEW m \in Message
  PROVE  m.retryCount \in Nat /\ m.maxRetry \in Nat
BY StoreAssumption DEF Message

\* What is paid for an existing task is a number.
LEMMA PaidNat ==
  ASSUME Inv, NEW i \in Ids, Exists(i)
  PROVE  /\ Paid(i) \in Nat
         /\ task[i].msg.retryCount \in Nat /\ task[i].msg.maxRetry \in Nat
<1>1. task[i].msg \in Message
  BY SMTT(30), StoreAssumption DEF Inv, NoPartialHash, NoHash, Exists
<1> QED BY SMTT(30), <1>1, MessageNat DEF Paid

\* The same after a step.
LEMMA PaidNatNext ==
  ASSUME Inv', NEW i \in Ids, Exists(i)'
  PROVE  Paid(i)' \in Nat
<1>1. task'[i].msg \in Message
  BY SMTT(30), StoreAssumption DEF Inv, NoPartialHash, NoHash, Exists
<1> QED BY SMTT(30), <1>1, MessageNat DEF Paid

\* What a step has to show for a task.
LEMMA BudgetStep ==
  ASSUME Inv, Inv', NEW i \in Ids, Exists(i), Exists(i)', Budget(i), NEW a,
         task'[i].msg.retryCount <= task'[i].msg.maxRetry,
         \/ Settled(i)' \subseteq Settled(i) /\ Paid(i) <= Paid(i)'
         \/ Settled(i)' \subseteq Settled(i) \cup {a} /\ Paid(i) + 1 <= Paid(i)'
  PROVE  Budget(i)'
<1>1. Paid(i) \in Nat
  BY PaidNat
<1>2. Paid(i)' \in Nat
  BY PaidNatNext
<1>3. Within(Settled(i), Paid(i))
  BY DEF Budget
<1>4. Within(Settled(i)', Paid(i)')
  BY <1>1, <1>2, <1>3, SettledBound
<1> QED BY <1>4 DEF Budget, Within

-----------------------------------------------------------------------------
(* Steps of the store, seen from one task *)

\* No attempt is handed out or offered that was not before.
Fewer == \A a \in Attempts : Touched(a)' => Touched(a)

\* Claims keep their task, and no new claim is made.
SameClaims ==
  /\ Handles' = Handles
  /\ \A a \in Handles : issued'[a].id = issued[a].id

\* No new claim: what is settled can only shrink, but for the owner.
LEMMA CommittedShrinks ==
  ASSUME Fewer, SameClaims, NEW i \in Ids
  PROVE  Committed(i)' \subseteq Committed(i)
BY DEF Fewer, SameClaims, Committed, Handles

\* A step that leaves the Hash of a task as it is.
LEMMA SameTaskBudget ==
  ASSUME BudgetInv, Inv', Fewer, SameClaims, NEW i \in Ids, task'[i] = task[i]
  PROVE  Budget(i)'
<1>1. Exists(i)' <=> Exists(i)
  BY DEF Exists
<1>2. CASE Exists(i)
  <2>1. Settled(i)' \subseteq Settled(i)
    BY CommittedShrinks DEF Settled
  <2>2. Paid(i)' = Paid(i)
    BY DEF Paid, Final, In
  <2>3. Paid(i) \in Nat
    BY <1>2, PaidNat DEF BudgetInv, EngineInv
  <2> QED BY SMTT(30), <1>1, <1>2, <2>1, <2>2, <2>3, BudgetStep
          DEF BudgetInv, EngineInv, Budget
<1> QED BY <1>1, <1>2 DEF Budget

\* Enqueue or Schedule: the new task has no claims.
LEMMA CreateBudget ==
  ASSUME BudgetInv, Inv', Fewer, SameClaims, NEW i \in Ids, NEW m \in Message,
         ~Exists(i), task'[i].msg = m, m.retryCount = 0
  PROVE  Budget(i)'
<1>1. Committed(i) = {}
  BY DEF BudgetInv, Offers, Committed
<1>2. Settled(i)' = {}
  BY <1>1, CommittedShrinks DEF Settled
<1>3. Within(Settled(i)', Paid(i)')
  BY <1>2, NoneWithin
<1>4. m.maxRetry \in Nat
  BY StoreAssumption DEF Message
<1>5. Exists(i)' => Paid(i)' \in Nat
  BY PaidNatNext
<1> QED BY SMTT(30), <1>3, <1>4, <1>5 DEF Budget

\* MoveReady: the message and the owner of a task stay.
LEMMA MoveBudget ==
  ASSUME BudgetInv, Inv', Fewer, SameClaims, NEW i \in Ids,
         Exists(i), ~Final(i), Exists(i)', ~Final(i)',
         task'[i].msg = task[i].msg, task'[i].attempt = task[i].attempt
  PROVE  Budget(i)'
<1>1. Settled(i)' \subseteq Settled(i)
  BY CommittedShrinks DEF Settled
<1>2. Paid(i)' = Paid(i)
  BY DEF Paid
<1>3. Paid(i) \in Nat
  BY PaidNat DEF BudgetInv, EngineInv
<1> QED BY SMTT(30), <1>1, <1>2, <1>3, BudgetStep DEF BudgetInv, EngineInv, Budget

\* The end of a claim that is given up or acknowledged: one more is settled,
\* and paid for.
LEMMA CloseBudget ==
  ASSUME BudgetInv, Inv', Fewer, SameClaims, NEW i \in Ids, NEW a,
         task[i].attempt = a, Exists(i), ~Final(i), Exists(i)',
         task'[i].msg.retryCount <= task'[i].msg.maxRetry,
         Paid(i) + 1 <= Paid(i)'
  PROVE  Budget(i)'
<1>1. Settled(i)' \subseteq Settled(i) \cup {a}
  BY CommittedShrinks DEF Settled
<1> QED BY <1>1, BudgetStep DEF BudgetInv, EngineInv

-----------------------------------------------------------------------------
(* Store calls *)

\* Whatever existed still exists.
TasksStay == \A i \in Ids : Exists(i) => Exists(i)'

\* What a step on the store shows.
StoreSide == TasksStay /\ SameClaims /\ \A i \in Ids : Budget(i)'

\* A step that changes neither Hashes nor claims.
LEMMA SameStoreSide ==
  ASSUME BudgetInv, Inv', Fewer, UNCHANGED <<task, issued>>
  PROVE  StoreSide
<1>1. SameClaims
  BY DEF SameClaims, Handles
<1>2. TasksStay
  BY DEF TasksStay, Exists
<1> QED BY <1>1, <1>2, SameTaskBudget DEF StoreSide

\* Enqueue and Schedule.
LEMMA ProduceSide ==
  ASSUME BudgetInv, Inv', Fewer, NEW i \in Ids, NEW p \in Payloads,
         NEW n \in MaxRetries, NEW r \in Ranks, NEW at \in Times,
         \/ Enqueue(i, NewMessage(p, n), r)
         \/ Schedule(i, NewMessage(p, n), r, at)
  PROVE  StoreSide
<1>1. PICK st \in {"pending", "scheduled"} :
        /\ ~Exists(i)
        /\ task' = [task EXCEPT ![i] =
                      [msg |-> NewMessage(p, n), state |-> st, rank |-> r,
                       member |-> sequence + 1, attempt |-> None]]
  BY DEF Enqueue, Schedule, enqueueScript, scheduleScript
<1>2. task \in [Ids -> Hash]
  BY DEF BudgetInv, EngineInv, Inv, StoreTypeOK
<1>3. /\ task'[i] = [msg |-> NewMessage(p, n), state |-> st, rank |-> r,
                     member |-> sequence + 1, attempt |-> None]
      /\ \A j \in Ids : j # i => task'[j] = task[j]
  BY <1>1, <1>2
<1>4. SameClaims
  BY DEF SameClaims, Handles, Enqueue, Schedule
<1>5. TasksStay
  BY <1>1, <1>3 DEF TasksStay, Exists
<1>6. NewMessage(p, n) \in Message /\ NewMessage(p, n).retryCount = 0
  BY DEF NewMessage, Message
<1>7. Budget(i)'
  BY SMTT(30), <1>1, <1>3, <1>4, <1>6, CreateBudget
<1>8. \A j \in Ids : j # i => Budget(j)'
  BY <1>3, <1>4, SameTaskBudget
<1> QED BY <1>4, <1>5, <1>7, <1>8 DEF StoreSide

\* One script of MoveReady.
LEMMA MoveSide ==
  ASSUME BudgetInv, Inv', Fewer, NEW source \in {"scheduled", "retry"},
         NEW now \in Times, MoveReady(source, now)
  PROVE  StoreSide
<1>1. PICK M \in SUBSET Ids : MoveReadyOf(M, source)
  BY MoveReadyMoves DEF BudgetInv, EngineInv
<1>2. task \in [Ids -> Hash]
  BY DEF BudgetInv, EngineInv, Inv, StoreTypeOK
<1>3. SameClaims
  BY <1>1 DEF SameClaims, Handles, MoveReadyOf
<1>4. \A j \in Ids : j \notin M => task'[j] = task[j]
  BY <1>1 DEF MoveReadyOf
<1>5. ASSUME NEW j \in M
      PROVE  /\ In(j, source) /\ In(j, "pending")'
             /\ task'[j].msg = task[j].msg /\ task'[j].attempt = task[j].attempt
  BY SMTT(30), <1>1, <1>2 DEF MoveReadyOf, Hash, In
<1>6. ASSUME NEW j \in M
      PROVE  Exists(j) /\ ~Final(j) /\ Exists(j)' /\ ~Final(j)'
  BY <1>5, StoreAssumption DEF Exists, Final, In, States
<1>7. TasksStay
  BY <1>4, <1>6 DEF TasksStay, Exists
<1>8. \A j \in Ids : Budget(j)'
  BY <1>3, <1>4, <1>5, <1>6, SameTaskBudget, MoveBudget
<1> QED BY <1>3, <1>7, <1>8 DEF StoreSide

\* The end of a claim of task i: what holds of every other task, and of this
\* one before and after.
ClaimEnds(i, a, m, st) ==
  /\ SameClaims /\ TasksStay
  /\ \A j \in Ids : j # i => Budget(j)'
  /\ task[i].attempt = a /\ issued[a].msg = task[i].msg
  /\ task'[i].state = st /\ task'[i].msg = m
  /\ Exists(i) /\ ~Final(i) /\ Exists(i)'

\* AckSuccess, ScheduleRetry, Archive and Requeue all end a claim this way.
LEMMA CloseOthers ==
  ASSUME BudgetInv, Inv', Fewer, NEW a \in Attempts, NEW i \in Ids,
         NEW m \in Message, NEW st \in States \ {"active"}, Closes(i, a, m, st)
  PROVE  ClaimEnds(i, a, m, st)
<1>1. Closed(i, m, st)
  BY CloseShared DEF BudgetInv, EngineInv
<1>2. issued \in [Attempts -> Handle \cup {None}] /\ issued[a] \in Handle
  BY DEF BudgetInv, EngineInv, Inv, StoreTypeOK, Closes, Handles
<1>3. issued' = [issued EXCEPT ![a].resolved = @ + 1]
  BY DEF Closes, Resolve
<1>4. issued'[a].id = issued[a].id /\ issued'[a] \in Handle
  BY SMTT(30), <1>2, <1>3 DEF Handle
<1>5. SameClaims
  BY <1>2, <1>3, <1>4, StoreAssumption DEF SameClaims, Handles
<1>6. In(i, "active") /\ task[i].attempt = a
  BY DEF Closes, Owns, In
<1>7. issued[a].msg = task[i].msg
  BY <1>6 DEF BudgetInv, EngineInv, Inv, OwnerHoldsMessage
<1>8. Exists(i) /\ ~Final(i) /\ Exists(i)'
  <2>1. st # None /\ "active" # None
    BY StoreAssumption DEF States
  <2> QED BY <1>1, <1>6, <2>1 DEF Exists, Final, In, Closed
<1>9. TasksStay
  BY <1>1, <1>8 DEF TasksStay, Closed, Exists
<1>10. \A j \in Ids : j # i => Budget(j)'
  BY <1>1, <1>5, SameTaskBudget DEF Closed
<1> QED BY <1>1, <1>5, <1>6, <1>7, <1>8, <1>9, <1>10 DEF Closed, ClaimEnds

\* AckSuccess, and the choice of process and recoveryLoop to retry or archive.
LEMMA GiveUpSide ==
  ASSUME BudgetInv, Inv', Fewer, NEW a \in Attempts, NEW p,
         AckSuccess(a) \/ GiveUp(a, p)
  PROVE  StoreSide
<1>1. a \in Handles
  BY DEF AckSuccess, GiveUp, Archive, ScheduleRetry
<1>2. PICK i \in Ids : i = issued[a].id
  BY <1>1 DEF BudgetInv, EngineInv, Inv, StoreTypeOK, Handles, Handle
<1>3. issued[a].msg \in Message
  BY <1>1 DEF BudgetInv, EngineInv, Inv, StoreTypeOK, Handles, Handle
<1>4. CASE AckSuccess(a) \/ Archive(a)
  <2>1. PICK st \in {"completed", "archived"} : Closes(i, a, issued[a].msg, st)
    BY <1>2, <1>4 DEF AckSuccess, Archive, ackScript, archiveScript, Closes
  <2>2. st \in States \ {"active"}
    BY DEF States
  <2>3. /\ SameClaims /\ TasksStay
        /\ \A j \in Ids : j # i => Budget(j)'
        /\ task[i].attempt = a /\ issued[a].msg = task[i].msg
        /\ task'[i].state = st /\ task'[i].msg = issued[a].msg
        /\ Exists(i) /\ ~Final(i) /\ Exists(i)'
    <3>1. ClaimEnds(i, a, issued[a].msg, st)
      BY <1>3, <2>1, <2>2, CloseOthers
    <3> QED BY <3>1 DEF ClaimEnds
  <2>4. Paid(i)' = Paid(i) + 1
    <3>1. task[i].msg.retryCount \in Nat
      BY <2>3, PaidNat DEF BudgetInv, EngineInv
    <3>2. Final(i)'
      BY <2>3 DEF Final, In
    <3> QED BY SMTT(30), <2>3, <3>1, <3>2 DEF Paid
  <2>5. task'[i].msg.retryCount <= task'[i].msg.maxRetry
    BY <2>3 DEF BudgetInv, Budget
  <2>6. Paid(i) \in Nat
    BY <2>3, PaidNat DEF BudgetInv, EngineInv
  <2>7. Budget(i)'
    BY SMTT(30), <2>3, <2>4, <2>5, <2>6, CloseBudget
  <2> QED BY <2>3, <2>7 DEF StoreSide
<1>5. ASSUME NEW at \in Delays, ScheduleRetry(a, at), CanRetry(issued[a].msg)
      PROVE  StoreSide
  <2>1. Closes(i, a, Retried(issued[a].msg), "retry")
    BY <1>2, <1>5 DEF ScheduleRetry, retryScript, Closes
  <2>2. "retry" \in States \ {"active"}
    BY DEF States
  <2>3. /\ Retried(issued[a].msg) \in Message
        /\ Retried(issued[a].msg).retryCount = issued[a].msg.retryCount + 1
        /\ Retried(issued[a].msg).maxRetry = issued[a].msg.maxRetry
    BY SMTT(30), <1>3 DEF Retried, Message
  <2>4. /\ SameClaims /\ TasksStay
        /\ \A j \in Ids : j # i => Budget(j)'
        /\ task[i].attempt = a /\ issued[a].msg = task[i].msg
        /\ task'[i].state = "retry" /\ task'[i].msg = Retried(issued[a].msg)
        /\ Exists(i) /\ ~Final(i) /\ Exists(i)'
    <3>1. ClaimEnds(i, a, Retried(issued[a].msg), "retry")
      BY <2>1, <2>2, <2>3, CloseOthers
    <3> QED BY <3>1 DEF ClaimEnds
  <2>5. issued[a].msg.retryCount \in Nat /\ issued[a].msg.maxRetry \in Nat
    BY <1>3, MessageNat
  <2>6. Paid(i)' = Paid(i) + 1 /\ Paid(i) \in Nat
    <3>1. ~Final(i)'
      BY <2>4 DEF Final, In
    <3>2. Paid(i) = issued[a].msg.retryCount
      BY SMTT(30), <2>4, <2>5 DEF Paid
    <3>3. task'[i].msg.retryCount = issued[a].msg.retryCount + 1
      BY <2>3, <2>4
    <3>4. Paid(i)' = issued[a].msg.retryCount + 1
      BY SMTT(30), <2>5, <3>1, <3>3 DEF Paid
    <3> QED BY <2>5, <3>2, <3>4
  <2>7. task'[i].msg.retryCount <= task'[i].msg.maxRetry
    BY SMTT(30), <1>5, <2>3, <2>4, <2>5 DEF CanRetry
  <2>8. Budget(i)'
    BY SMTT(30), <2>4, <2>6, <2>7, CloseBudget
  <2> QED BY <2>4, <2>8 DEF StoreSide
<1> QED BY <1>4, <1>5 DEF GiveUp

\* Requeue of a task that has not reached a worker: its claim is forgotten.
LEMMA RequeueSide ==
  ASSUME BudgetInv, Inv', Fewer, NEW a \in Attempts, Requeue(a), ~Touched(a)'
  PROVE  StoreSide
<1>1. a \in Handles
  BY DEF Requeue
<1>2. PICK i \in Ids : i = issued[a].id
  BY <1>1 DEF BudgetInv, EngineInv, Inv, StoreTypeOK, Handles, Handle
<1>3. Closes(i, a, task[i].msg, "pending")
  BY <1>2 DEF Requeue, requeueScript, Closes
<1>4. task[i].msg \in Message
  <2>1. task[i].state # None
    BY <1>3, StoreAssumption DEF Closes, Owns, States
  <2> QED BY <2>1, WholeHash DEF BudgetInv, EngineInv, Inv
<1>5. "pending" \in States \ {"active"}
  BY DEF States
<1>6. /\ SameClaims /\ TasksStay
      /\ \A j \in Ids : j # i => Budget(j)'
      /\ task[i].attempt = a
      /\ task'[i].state = "pending" /\ task'[i].msg = task[i].msg
      /\ Exists(i) /\ ~Final(i) /\ Exists(i)'
  <2>1. ClaimEnds(i, a, task[i].msg, "pending")
    BY <1>3, <1>4, <1>5, CloseOthers
  <2> QED BY <2>1 DEF ClaimEnds
<1>7. Settled(i)' \subseteq Settled(i)
  BY <1>6, CommittedShrinks DEF Settled, Committed
<1>8. Paid(i) <= Paid(i)'
  <2>1. Paid(i) \in Nat
    BY <1>6, PaidNat DEF BudgetInv, EngineInv
  <2>2. ~Final(i)'
    BY <1>6 DEF Final, In
  <2>3. Paid(i)' = Paid(i)
    BY <1>6, <2>2 DEF Paid
  <2> QED BY SMTT(30), <2>1, <2>3
<1>9. Budget(i)'
  <2>1. Budget(i) /\ task'[i].msg.retryCount <= task'[i].msg.maxRetry
    BY <1>6 DEF BudgetInv, Budget
  <2> QED BY <1>6, <1>7, <1>8, <2>1, BudgetStep DEF BudgetInv, EngineInv
<1> QED BY <1>6, <1>9 DEF StoreSide

\* Claim of a task: its new owner is not settled.
LEMMA ClaimSide ==
  ASSUME BudgetInv, Inv', NEW a \in Attempts, NEW x \in Times, Claim(a, x),
         \A b \in Attempts : Touched(b)' => Touched(b) \/ b = a
  PROVE  /\ issued[a] = None /\ Handles' = Handles \cup {a}
         /\ \A b \in Handles' : Exists(issued[b].id)'
         /\ \A j \in Ids : Budget(j)'
<1>1. PICK i \in Ids : ClaimOf(i, a, x)
  BY ClaimTakesPending DEF BudgetInv, EngineInv
<1>2. /\ task \in [Ids -> Hash]
      /\ issued \in [Attempts -> Handle \cup {None}]
  BY DEF BudgetInv, EngineInv, Inv, StoreTypeOK
<1>3. /\ task'[i].state = "active" /\ task'[i].attempt = a
      /\ task'[i].msg = task[i].msg
      /\ \A j \in Ids : j # i => task'[j] = task[j]
  BY <1>1, <1>2, HSetOwner DEF ClaimOf
<1>4. /\ issued[a] = None /\ task[i].msg \in Message /\ In(i, "pending")
      /\ issued' = [issued EXCEPT ![a] = [id |-> i, msg |-> task[i].msg,
                                          resolved |-> 0]]
  BY <1>1 DEF ClaimOf
<1>5. /\ issued'[a].id = i /\ issued'[a] # None
      /\ \A b \in Attempts : b # a => issued'[b] = issued[b]
  <2>1. issued'[a] = [id |-> i, msg |-> task[i].msg, resolved |-> 0]
    BY <1>2, <1>4
  <2>2. issued'[a] \in Handle
    BY SMTT(30), <1>4, <2>1 DEF Handle
  <2>3. issued'[a] # None
    BY <2>2, StoreAssumption
  <2> QED BY <1>2, <1>4, <2>1, <2>3
<1>6. Handles' = Handles \cup {a}
  BY <1>5 DEF Handles
<1>7. Exists(i) /\ ~Final(i) /\ Exists(i)' /\ ~Final(i)'
  <2>1. "pending" # None /\ "active" # None
    BY StoreAssumption DEF States
  <2> QED BY <1>3, <1>4, <2>1 DEF Exists, Final, In
<1>8. \A b \in Handles' : Exists(issued[b].id)'
  <2>1. \A b \in Handles : Exists(issued[b].id) /\ issued[b].id \in Ids
    BY <1>2 DEF BudgetInv, Offers, Handles, Handle
  <2>2. \A b \in Handles : issued'[b] = issued[b]
    BY <1>4, <1>5 DEF Handles
  <2>3. \A j \in Ids : Exists(j) => Exists(j)'
    BY <1>3, <1>7 DEF Exists
  <2> QED BY <1>5, <1>6, <1>7, <2>1, <2>2, <2>3 DEF Exists
<1>9. ASSUME NEW j \in Ids
      PROVE  Committed(j)' \ {a} \subseteq Committed(j)
  BY <1>5, <1>6 DEF Committed, Handles
<1>10. Budget(i)'
  <2>1. task[i].attempt = None
    BY <1>4 DEF BudgetInv, EngineInv, Inv, IndexesMatchState, Placed, In
  <2>2. None \notin Committed(i)
    BY StoreAssumption DEF Committed, Handles
  <2>3. Settled(i)' \subseteq Settled(i)
    BY <1>3, <1>9, <2>1, <2>2 DEF Settled
  <2>4. Paid(i) \in Nat
    BY <1>7, PaidNat DEF BudgetInv, EngineInv
  <2>5. Paid(i)' = Paid(i)
    BY <1>3, <1>7 DEF Paid
  <2>6. Paid(i) <= Paid(i)'
    BY SMTT(30), <2>4, <2>5
  <2>7. Budget(i) /\ task'[i].msg.retryCount <= task'[i].msg.maxRetry
    BY <1>3, <1>7 DEF BudgetInv, Budget
  <2> QED BY <1>7, <2>3, <2>6, <2>7, BudgetStep DEF BudgetInv, EngineInv
<1>11. ASSUME NEW j \in Ids, j # i
       PROVE  Budget(j)'
  <2>1. a \notin Committed(j)'
    BY <1>5, <1>11 DEF Committed
  <2>2. task'[j] = task[j]
    BY <1>3, <1>11
  <2>3. Settled(j)' \subseteq Settled(j)
    BY <1>9, <2>1, <2>2 DEF Settled
  <2>4. Exists(j)' <=> Exists(j)
    BY <2>2 DEF Exists
  <2>5. CASE Exists(j)
    <3>1. Paid(j)' = Paid(j)
      BY <2>2 DEF Paid, Final, In
    <3>2. Paid(j) \in Nat
      BY <2>5, PaidNat DEF BudgetInv, EngineInv
    <3>3. Paid(j) <= Paid(j)'
      BY SMTT(30), <3>1, <3>2
    <3>4. Budget(j) /\ task'[j].msg.retryCount <= task'[j].msg.maxRetry
      BY <2>2, <2>5 DEF BudgetInv, Budget
    <3> QED BY <2>3, <2>4, <2>5, <3>3, <3>4, BudgetStep DEF BudgetInv, EngineInv
  <2> QED BY <2>4, <2>5 DEF Budget
<1> QED BY <1>4, <1>6, <1>8, <1>10, <1>11
-----------------------------------------------------------------------------
(* Steps of the servers *)

\* The dispatchers keep or drop what they offer, and no handler is called.
Quiet ==
  /\ outcome' = outcome
  /\ \A s \in Servers : disp'[s].att \in {None, disp[s].att}

\* In a quiet step nothing is newly committed.
LEMMA QuietFewer ==
  ASSUME Quiet
  PROVE  Fewer
BY StoreAssumption DEF Quiet, Fewer, Touched

\* Claims of a step without a new claim still belong to tasks that exist.
LEMMA ClaimsStay ==
  ASSUME BudgetInv, TasksStay, SameClaims
  PROVE  \A a \in Handles' : Exists(issued[a].id)'
<1>1. ASSUME NEW a \in Handles
      PROVE  issued[a].id \in Ids /\ Exists(issued[a].id)
  BY DEF BudgetInv, Offers, EngineInv, Inv, StoreTypeOK, Handles, Handle
<1>2. ASSUME NEW a \in Handles
      PROVE  Exists(issued[a].id)'
  BY <1>1, <1>2 DEF SameClaims, TasksStay, Exists
<1> QED BY <1>2 DEF SameClaims

\* A quiet step keeps the invariant.
LEMMA QuietStep ==
  ASSUME BudgetInv, EngineInv', Quiet, StoreSide
  PROVE  BudgetInv'
<1>1. \A a \in Handles' : Exists(issued[a].id)'
  BY ClaimsStay DEF StoreSide
<1>2. Offers'
  BY SMTT(30), <1>1 DEF BudgetInv, Offers, Quiet, StoreSide, SameClaims
<1> QED BY <1>2 DEF BudgetInv, StoreSide

\* Moving on, a dispatcher drops what it offers.
LEMMA GotoQuiet ==
  ASSUME ServerInv, NEW s \in Servers, NEW step, Goto(s, step),
         outcome' = outcome
  PROVE  Quiet /\ \A t \in Servers : t # s => disp'[t] = disp[t]
BY DEF Goto, Quiet, ServerInv, ServerTypeOK

\* The steps of a dispatcher.
LEMMA DispatchBudget ==
  ASSUME BudgetInv, EngineInv', NEW s \in Servers, Dispatch(s)
  PROVE  BudgetInv'
<1> USE DEF BudgetInv, EngineInv
<1>1. CASE DispatchHead(s) \/ DispatchCount(s)
  <2>1. Quiet
    BY <1>1, GotoQuiet DEF DispatchHead, DispatchCount, NextTurn
  <2>2. UNCHANGED <<task, issued>>
    BY <1>1 DEF DispatchHead, DispatchCount, CallFails, storeVars
  <2> QED BY <2>1, <2>2, QuietFewer, SameStoreSide, QuietStep
<1>2. ASSUME NEW source \in {"scheduled", "retry"}, NEW next,
             DispatchMove(s, source, next)
      PROVE  BudgetInv'
  <2>1. Quiet
    BY <1>2, GotoQuiet DEF DispatchMove, NextTurn
  <2>2. CASE UNCHANGED storeVars
    BY <2>1, <2>2, QuietFewer, SameStoreSide, QuietStep DEF storeVars
  <2>3. CASE MoveReady(source, 0)
    <3>1. 0 \in Times
      BY SMTT(30), StoreAssumption DEF Times
    <3> QED BY <2>1, <2>3, <3>1, QuietFewer, MoveSide, QuietStep
  <2> QED BY <1>2, <2>2, <2>3 DEF DispatchMove, CallFails
<1>3. CASE DispatchClaim(s)
  <2>1. outcome' = outcome
    BY <1>3 DEF DispatchClaim
  <2>2. CASE UNCHANGED storeVars /\ NextTurn(s)
    BY <2>1, <2>2, GotoQuiet, QuietFewer, SameStoreSide, QuietStep
    DEF NextTurn, storeVars
  <2>3. ASSUME NEW a \in Attempts, Claim(a, LeaseTicks),
               \/ disp' = [disp EXCEPT ![s] = [at |-> "offer", att |-> a]]
               \/ NextTurn(s)
        PROVE  BudgetInv'
    <3>1. /\ \A t \in Servers : t # s => disp'[t] = disp[t]
          /\ disp'[s].att \in {None, a}
      <4>1. CASE disp' = [disp EXCEPT ![s] = [at |-> "offer", att |-> a]]
        BY <4>1 DEF ServerInv, ServerTypeOK
      <4>2. CASE NextTurn(s)
        BY <4>2 DEF NextTurn, Goto, ServerInv, ServerTypeOK
      <4> QED BY <2>3, <4>1, <4>2
    <3>2. \A b \in Attempts : Touched(b)' => Touched(b) \/ b = a
      BY <2>1, <3>1, StoreAssumption DEF Touched
    <3>3. LeaseTicks \in Times
      BY EngineAssumption
    <3>4. /\ issued[a] = None /\ Handles' = Handles \cup {a}
          /\ \A b \in Handles' : Exists(issued[b].id)'
          /\ \A j \in Ids : Budget(j)'
      BY <2>3, <3>2, <3>3, ClaimSide
    <3>5. a \notin Handles
      BY <3>4 DEF Handles
    <3>6. outcome[a] = "unrun" /\ \A t \in Servers : disp[t].att # a
      BY <3>5, StoreAssumption DEF Offers
    <3>7. Offers'
      BY SMTT(30), <2>1, <3>1, <3>4, <3>6 DEF Offers
    <3> QED BY <3>4, <3>7
  <2> QED BY <1>3, <2>2, <2>3 DEF DispatchClaim, CallFails
<1>4. ASSUME AtStep(s, "offer")
      PROVE  /\ disp[s].att \in Attempts /\ disp[s].att \in Handles
             /\ outcome[disp[s].att] = "unrun"
  BY <1>4 DEF AtStep, ServerInv, Offers, Handles
<1>5. CASE HandOff(s)
  <2>1. AtStep(s, "offer") /\ UNCHANGED storeVars
    BY <1>5 DEF HandOff
  <2>2. /\ disp'[s].att = None
        /\ \A t \in Servers : t # s => disp'[t] = disp[t]
    BY SMTT(30), <1>5 DEF HandOff, NextTurn, Goto, ServerInv, ServerTypeOK
  <2>3. \A a \in Attempts : a # disp[s].att => outcome'[a] = outcome[a]
    BY SMTT(30), <1>5 DEF HandOff, ServerInv, ServerTypeOK
  <2>4. Fewer
    BY SMTT(30), <2>2, <2>3, StoreAssumption DEF Fewer, Touched
  <2>5. StoreSide
    BY <2>1, <2>4, SameStoreSide DEF storeVars
  <2>6. \A a \in Handles' : Exists(issued[a].id)'
    BY <2>5, ClaimsStay DEF StoreSide
  <2>7. Handles' = Handles
    BY <2>5 DEF StoreSide, SameClaims
  <2>8. ASSUME NEW t \in Servers, disp'[t].att # None
        PROVE  /\ t # s /\ disp'[t].att = disp[t].att
               /\ disp[t].att \in Handles /\ outcome'[disp[t].att] = "unrun"
    <3>1. t # s /\ disp'[t].att = disp[t].att
      BY <2>2, <2>8
    <3>2. disp[t].att # disp[s].att
      BY <2>8, <3>1 DEF Offers
    <3> QED BY <2>3, <2>8, <3>1, <3>2 DEF Offers, Handles
  <2>9. Offers'
    <3>1. \A a \in Attempts : outcome'[a] # "unrun" => a \in Handles'
      BY <1>4, <2>1, <2>3, <2>7 DEF Offers
    <3>2. \A t \in Servers : disp'[t].att # None =>
            disp'[t].att \in Handles' /\ outcome'[disp'[t].att] = "unrun"
      BY <2>7, <2>8
    <3>3. \A t, u \in Servers :
            disp'[t].att # None /\ disp'[t].att = disp'[u].att => t = u
      BY SMTT(30), <2>8 DEF Offers
    <3> QED BY <2>6, <3>1, <3>2, <3>3 DEF Offers
  <2> QED BY <2>5, <2>9 DEF StoreSide
<1>6. CASE RequeueOffered(s)
  <2>1. PICK a : a = disp[s].att
    OBVIOUS
  <2>2. AtStep(s, "offer") /\ Goto(s, "done") /\ outcome' = outcome
    BY <1>6 DEF RequeueOffered
  <2>3. Quiet /\ \A t \in Servers : t # s => disp'[t] = disp[t]
    BY <2>2, GotoQuiet
  <2>4. CASE UNCHANGED storeVars
    BY <2>3, <2>4, QuietFewer, SameStoreSide, QuietStep DEF storeVars
  <2>5. CASE Requeue(a)
    <3>1. disp'[s].att = None
      BY <2>2 DEF Goto, ServerInv, ServerTypeOK
    <3>2. a \in Attempts /\ outcome[a] = "unrun"
      BY <1>4, <2>1, <2>2
    <3>3. \A t \in Servers : disp'[t].att # a
      BY SMTT(30), <2>1, <2>3, <3>1, <3>2, StoreAssumption DEF Offers
    <3>4. ~Touched(a)'
      BY <2>2, <3>2, <3>3 DEF Touched
    <3> QED BY <2>3, <2>5, <3>2, <3>4, QuietFewer, RequeueSide, QuietStep
  <2> QED BY <1>6, <2>1, <2>4, <2>5 DEF RequeueOffered, Refused, CallFails
<1> QED BY <1>1, <1>2, <1>3, <1>5, <1>6 DEF Dispatch

\* The steps of a worker.
LEMMA ProcessBudget ==
  ASSUME BudgetInv, EngineInv', NEW s \in Servers, NEW a \in Attempts,
         HandlerReturns(s, a) \/ Finish(s, a)
  PROVE  BudgetInv'
<1> USE DEF BudgetInv, EngineInv
<1>1. CASE HandlerReturns(s, a)
  <2>1. UNCHANGED <<storeVars, disp>> /\ outcome[a] = "running"
    BY <1>1 DEF HandlerReturns
  <2>2. \A b \in Attempts : outcome'[b] # "unrun" <=> outcome[b] # "unrun"
    BY SMTT(30), <1>1 DEF HandlerReturns, ServerInv, ServerTypeOK
  <2>3. Fewer
    BY <2>1, <2>2 DEF Fewer, Touched
  <2>4. StoreSide
    BY <2>1, <2>3, SameStoreSide DEF storeVars
  <2>5. \A b \in Handles' : Exists(issued[b].id)'
    BY <2>4, ClaimsStay DEF StoreSide
  <2>6. Handles' = Handles
    BY <2>4 DEF StoreSide, SameClaims
  <2>7. Offers'
    BY <2>1, <2>2, <2>5, <2>6 DEF Offers, Handles
  <2> QED BY <2>4, <2>7 DEF StoreSide
<1>2. CASE Finish(s, a)
  <2>1. Quiet
    BY <1>2 DEF Finish, Quiet
  <2>2. CASE UNCHANGED storeVars
    BY <2>1, <2>2, QuietFewer, SameStoreSide, QuietStep DEF storeVars
  <2>3. ASSUME NEW p, AckSuccess(a) \/ GiveUp(a, p)
        PROVE  BudgetInv'
    BY <2>1, <2>3, QuietFewer, GiveUpSide, QuietStep
  <2> QED BY <1>2, <2>2, <2>3 DEF Finish, Refused, CallFails
<1> QED BY <1>1, <1>2

\* The steps of a recovery loop.
LEMMA RecoverBudget ==
  ASSUME BudgetInv, EngineInv', NEW s \in Servers, Recover(s)
  PROVE  BudgetInv'
<1> USE DEF BudgetInv, EngineInv
<1>1. Quiet
  BY DEF Recover, RecoveryScan, RecoveryGet, RecoveryClose, Quiet
<1>2. CASE UNCHANGED storeVars
  BY <1>1, <1>2, QuietFewer, SameStoreSide, QuietStep DEF storeVars
<1>3. ASSUME rec[s] # None, rec[s].got # None, GiveUp(rec[s].got, FALSE)
      PROVE  BudgetInv'
  <2>1. rec[s].got \in Attempts
    BY <1>3 DEF ServerInv, ServerTypeOK
  <2> QED BY <1>1, <1>3, <2>1, QuietFewer, GiveUpSide, QuietStep
<1> QED BY <1>2, <1>3
        DEF Recover, RecoveryScan, RecoveryGet, RecoveryClose, Refused, CallFails

\* All other steps change neither Hashes nor claims, and call no handler.
LEMMA OtherBudget ==
  ASSUME BudgetInv, EngineInv', NEW s \in Servers,
         \/ UNCHANGED engineVars \/ EngineTick \/ Heartbeat(s)
         \/ Start(s) \/ Lifecycle(s) \/ ShutdownTimeout(s) \/ Crash(s)
         \/ requestStop(s, "stop") \/ requestStop(s, "shutdown")
  PROVE  BudgetInv'
<1>1. UNCHANGED <<task, issued>>
  BY DEF engineVars, storeVars, EngineTick, Tick, Heartbeat, HeartbeatTick,
         HeartbeatExtend, ExtendLease, extendLeaseScript, CallFails, Start,
         Lifecycle, StopCancel, ShutdownCancel, ShutdownReturn,
         ShutdownTimeout, Crash, requestStop, Cancel
<1>2. CASE UNCHANGED <<disp, outcome>>
  <2>1. Quiet
    BY <1>2 DEF Quiet
  <2> QED BY <1>1, <2>1, QuietFewer, SameStoreSide, QuietStep
          DEF EngineInv
<1>3. CASE Start(s) \/ Crash(s)
  <2>1. ASSUME NEW d, d.att = None, disp' = [disp EXCEPT ![s] = d],
               outcome' = outcome
        PROVE  Quiet
    BY <2>1 DEF Quiet, BudgetInv, EngineInv, ServerInv, ServerTypeOK
  <2>2. NewDispatcher.att = None /\ NoDispatcher.att = None
    BY DEF NewDispatcher, NoDispatcher
  <2>3. Start(s) => Quiet
    BY <2>1, <2>2 DEF Start
  <2>4. Crash(s) => Quiet
    BY <2>1, <2>2 DEF Crash
  <2>5. Quiet
    BY <1>3, <2>3, <2>4
  <2> QED BY <1>1, <2>5, QuietFewer, SameStoreSide, QuietStep
          DEF EngineInv
<1> QED BY <1>2, <1>3
        DEF engineVars, serverVars, EngineTick, Heartbeat, HeartbeatTick,
            HeartbeatExtend, Lifecycle, StopCancel, ShutdownCancel,
            ShutdownReturn, ShutdownTimeout, requestStop, Cancel

-----------------------------------------------------------------------------
(* Theorem *)

\* In the initial state no task exists.
LEMMA BudgetInit == EngineInit => BudgetInv
<1> SUFFICES ASSUME EngineInit PROVE BudgetInv
  OBVIOUS
<1>1. EngineInv
  BY EngineInitInv
<1>2. \A i \in Ids : ~Exists(i)
  BY DEF EngineInit, StoreInit, NoHash, Exists
<1>3. Handles = {}
  BY DEF EngineInit, StoreInit, Handles
<1>4. Offers
  BY <1>3 DEF EngineInit, NoDispatcher, Offers
<1> QED BY <1>1, <1>2, <1>4 DEF BudgetInv, Budget

\* Every step of the engine keeps the invariant.
LEMMA BudgetNext ==
  BudgetInv /\ EngineInv' /\ [EngineNext]_engineVars => BudgetInv'
<1> SUFFICES ASSUME BudgetInv, EngineInv', [EngineNext]_engineVars
             PROVE  BudgetInv'
  OBVIOUS
<1>1. CASE Produce
  <2>1. Quiet
    BY <1>1 DEF Produce, serverVars, Quiet
  <2>2. 0 \in Times
    BY SMTT(30), StoreAssumption DEF Times
  <2>3. PICK i \in Ids, p \in Payloads, n \in MaxRetries, r \in Ranks,
             at \in Times :
          \/ Enqueue(i, NewMessage(p, n), r)
          \/ Schedule(i, NewMessage(p, n), r, at)
    BY <1>1, <2>2 DEF Produce
  <2> QED BY <2>1, <2>3, QuietFewer, ProduceSide, QuietStep DEF EngineInv
<1>2. CASE EngineTick \/ UNCHANGED engineVars
  <2>1. UNCHANGED <<task, issued>> /\ Quiet
    BY <1>2 DEF EngineTick, Tick, engineVars, storeVars, serverVars, Quiet
  <2> QED BY <2>1, QuietFewer, SameStoreSide, QuietStep DEF EngineInv
<1> QED BY <1>1, <1>2, DispatchBudget, ProcessBudget, RecoverBudget, OtherBudget
        DEF EngineNext

\* The claims of a task that reached a worker are the settled ones and its
\* owner's, which is there only while the task has not ended.
LEMMA BudgetBounds ==
  ASSUME BudgetInv, NEW i \in Ids, Exists(i)
  PROVE  /\ task[i].msg.maxRetry + 1 \in Nat
         /\ Within(RunsOf(i), task[i].msg.maxRetry + 1)
<1>1. Inv
  BY DEF BudgetInv, EngineInv
<1>2. /\ Paid(i) \in Nat
      /\ task[i].msg.retryCount \in Nat /\ task[i].msg.maxRetry \in Nat
  BY <1>1, PaidNat
<1>3. /\ task[i].msg.retryCount <= task[i].msg.maxRetry
      /\ Within(Settled(i), Paid(i))
  BY DEF BudgetInv, Budget
<1>4. RunsOf(i) \subseteq Settled(i) \cup {task[i].attempt}
  BY DEF RunsOf, Settled, Committed, Touched
<1>5. PICK k \in Nat : k = task[i].msg.maxRetry + 1
  BY SMTT(30), <1>2
<1>6. CASE Final(i)
  <2>1. task[i].attempt = None
    BY <1>1, <1>6 DEF Inv, IndexesMatchState, Placed, Final, In
  <2>2. RunsOf(i) \subseteq Settled(i)
    BY <1>4, <2>1, StoreAssumption DEF RunsOf, Handles
  <2>3. Paid(i) <= k
    BY SMTT(30), <1>2, <1>3, <1>5, <1>6 DEF Paid
  <2>4. Within(RunsOf(i), k)
    BY <1>2, <1>3, <2>2, <2>3, SettledBound
  <2> QED BY <1>5, <2>4
<1>7. CASE ~Final(i)
  <2>1. Paid(i) + 1 <= k
    BY SMTT(30), <1>2, <1>3, <1>5, <1>7 DEF Paid
  <2>2. Within(RunsOf(i), k)
    BY <1>2, <1>3, <1>4, <2>1, SettledBound
  <2> QED BY <1>5, <2>2
<1> QED BY <1>6, <1>7

\* BudgetInv holds in every behaviour of the engine.
THEOREM EngineBudgetInvariant == EngineSpec => []BudgetInv
  BY BudgetInit, BudgetNext, EngineInvariant, PTL DEF EngineSpec
-----------------------------------------------------------------------------
(* What the steps of the servers do to claims and to tasks that have ended *)

\* Claims keep their task, and a claim that was ended stays ended.
ClaimsLast ==
  \A a \in Handles : /\ a \in Handles' /\ issued'[a].id = issued[a].id
                     /\ issued[a].resolved = 1 => issued'[a].resolved = 1

\* No task comes to its end: its Hash stays, or is that of a task under way.
NoneEnds == \A i \in Ids : task'[i] = task[i] \/ ~Final(i)'

\* A step that changes neither Hashes nor claims.
LEMMA SameNoneEnds ==
  ASSUME UNCHANGED <<task, issued>>
  PROVE  ClaimsLast /\ NoneEnds
BY DEF ClaimsLast, NoneEnds, Handles

\* Enqueue and Schedule.
LEMMA ProduceNoneEnds ==
  ASSUME Inv, Produce
  PROVE  ClaimsLast /\ NoneEnds
<1>1. PICK i \in Ids, p \in Payloads, n \in MaxRetries, r \in Ranks :
        \/ Enqueue(i, NewMessage(p, n), r)
        \/ \E at \in Times : Schedule(i, NewMessage(p, n), r, at)
  BY DEF Produce
<1>2. PICK st \in {"pending", "scheduled"} :
        task' = [task EXCEPT ![i] =
                   [msg |-> NewMessage(p, n), state |-> st, rank |-> r,
                    member |-> sequence + 1, attempt |-> None]]
  BY <1>1 DEF Enqueue, Schedule, enqueueScript, scheduleScript
<1>3. task'[i].state = st /\ \A j \in Ids : j # i => task'[j] = task[j]
  BY <1>2 DEF Inv, StoreTypeOK
<1>4. issued' = issued
  BY <1>1 DEF Enqueue, Schedule
<1> QED BY <1>3, <1>4 DEF ClaimsLast, NoneEnds, Handles, Final, In

\* One script of MoveReady.
LEMMA MoveNoneEnds ==
  ASSUME Inv, NEW source \in {"scheduled", "retry"}, MoveReady(source, 0)
  PROVE  ClaimsLast /\ NoneEnds
<1>1. 0 \in Times
  BY SMTT(30), StoreAssumption DEF Times
<1>2. PICK M \in SUBSET Ids : MoveReadyOf(M, source)
  BY <1>1, MoveReadyMoves
<1>3. task \in [Ids -> Hash] /\ issued' = issued
  BY <1>2 DEF Inv, StoreTypeOK, MoveReadyOf
<1>4. \A j \in Ids : j \notin M => task'[j] = task[j]
  BY <1>2 DEF MoveReadyOf
<1>5. \A j \in M : task'[j].state = "pending"
  BY <1>2, <1>3 DEF MoveReadyOf, Hash
<1> QED BY <1>3, <1>4, <1>5 DEF ClaimsLast, NoneEnds, Handles, Final, In

\* Claim: the claim that it makes is new.
LEMMA ClaimNoneEnds ==
  ASSUME Inv, NEW a \in Attempts, Claim(a, LeaseTicks)
  PROVE  ClaimsLast /\ NoneEnds /\ a \in Handles'
<1>1. PICK i \in Ids : ClaimOf(i, a, LeaseTicks)
  BY EngineAssumption, ClaimTakesPending
<1>2. task \in [Ids -> Hash] /\ issued \in [Attempts -> Handle \cup {None}]
  BY DEF Inv, StoreTypeOK
<1>3. task'[i].state = "active" /\ \A j \in Ids : j # i => task'[j] = task[j]
  BY <1>1, <1>2, HSetOwner DEF ClaimOf
<1>4. /\ issued[a] = None
      /\ issued'[a] = [id |-> i, msg |-> task[i].msg, resolved |-> 0]
      /\ \A b \in Attempts : b # a => issued'[b] = issued[b]
  BY <1>1, <1>2 DEF ClaimOf
<1>5. issued'[a] # None
  <2>1. issued'[a] \in Handle
    BY SMTT(30), <1>1, <1>4 DEF Handle, ClaimOf
  <2> QED BY <2>1, StoreAssumption
<1> QED BY <1>3, <1>4, <1>5 DEF ClaimsLast, NoneEnds, Handles, Final, In

\* A call that ends the claim of attempt a: AckSuccess completes the task,
\* GiveUp archives it only for good reason, Requeue does not end it.
Ends(i, a, p) ==
  /\ a \in Handles /\ i = issued[a].id
  /\ ClaimsLast /\ issued'[a].resolved = 1
  /\ \A j \in Ids : j # i => task'[j] = task[j]
  /\ AckSuccess(a) => In(i, "completed")'
  /\ Requeue(a) => ~Final(i)'
  /\ GiveUp(a, p) =>
       ~Final(i)' \/ (In(i, "archived")' /\ (p \/ ~CanRetry(task'[i].msg)))

\* The four calls that end a claim do it this way.
LEMMA CallEnds ==
  ASSUME Inv, NEW a \in Attempts, NEW p,
         AckSuccess(a) \/ GiveUp(a, p) \/ Requeue(a)
  PROVE  \E i \in Ids : Ends(i, a, p)
<1>1. a \in Handles
  BY DEF AckSuccess, GiveUp, Archive, ScheduleRetry, Requeue
<1>2. /\ issued \in [Attempts -> Handle \cup {None}]
      /\ issued[a] \in Handle
  BY <1>1 DEF Inv, StoreTypeOK, Handles
<1>3. PICK i \in Ids : i = issued[a].id
  BY <1>2 DEF Handle
<1>4. issued[a].msg \in Message
  BY <1>2 DEF Handle
<1> DEFINE Shared == /\ ClaimsLast /\ issued'[a].resolved = 1
                     /\ \A j \in Ids : j # i => task'[j] = task[j]
<1>5. ASSUME NEW m \in Message, NEW st \in States \ {"active"},
             Closes(i, a, m, st)
      PROVE  Shared /\ task'[i].state = st /\ task'[i].msg = m
  <2>1. Closed(i, m, st)
    BY <1>5, CloseShared
  <2>2. issued' = [issued EXCEPT ![a].resolved = @ + 1]
    BY <1>5 DEF Closes, Resolve
  <2>3. issued[a].resolved = 0
    BY <1>1, <1>3, <1>5 DEF Inv, ClaimResolvedOnce, Closes, Owns
  <2>4. issued'[a].resolved = 1 /\ issued'[a].id = issued[a].id
    BY SMTT(30), <1>2, <2>2, <2>3 DEF Handle
  <2>5. issued'[a] # None
    <3>1. issued'[a] \in Handle
      BY SMTT(30), <1>2, <2>2 DEF Handle
    <3> QED BY <3>1, StoreAssumption
  <2>6. \A b \in Attempts : b # a => issued'[b] = issued[b]
    BY <1>2, <2>2
  <2>7. ClaimsLast
    BY <2>4, <2>5, <2>6 DEF ClaimsLast, Handles
  <2> QED BY <2>1, <2>4, <2>7 DEF Closed
<1>6. {"completed", "archived", "retry", "pending"} \subseteq States \ {"active"}
  BY DEF States
<1>7. AckSuccess(a) => Shared /\ In(i, "completed")'
  <2> SUFFICES ASSUME AckSuccess(a) PROVE Shared /\ In(i, "completed")'
    OBVIOUS
  <2>1. Closes(i, a, issued[a].msg, "completed")
    BY <1>3 DEF AckSuccess, ackScript, Closes
  <2> QED BY <1>4, <1>5, <1>6, <2>1 DEF In
<1>8. Archive(a) => Shared /\ In(i, "archived")' /\ task'[i].msg = issued[a].msg
  <2> SUFFICES ASSUME Archive(a)
               PROVE  /\ Shared /\ In(i, "archived")'
                      /\ task'[i].msg = issued[a].msg
    OBVIOUS
  <2>1. Closes(i, a, issued[a].msg, "archived")
    BY <1>3 DEF Archive, archiveScript, Closes
  <2> QED BY <1>4, <1>5, <1>6, <2>1 DEF In
<1>9. ASSUME NEW at, ScheduleRetry(a, at)
      PROVE  Shared /\ ~Final(i)'
  <2>1. Closes(i, a, Retried(issued[a].msg), "retry")
    BY <1>3, <1>9 DEF ScheduleRetry, retryScript, Closes
  <2>2. Retried(issued[a].msg) \in Message
    BY SMTT(30), <1>4 DEF Retried, Message
  <2>3. Shared /\ task'[i].state = "retry"
    BY <1>5, <1>6, <2>1, <2>2
  <2> QED BY <2>3 DEF Final, In
<1>10. Requeue(a) => Shared /\ ~Final(i)'
  <2> SUFFICES ASSUME Requeue(a) PROVE Shared /\ ~Final(i)'
    OBVIOUS
  <2>1. Closes(i, a, task[i].msg, "pending")
    BY <1>3 DEF Requeue, requeueScript, Closes
  <2>2. task[i].state # None
    BY <2>1, StoreAssumption DEF Closes, Owns, States
  <2>3. task[i].msg \in Message
    BY <2>2, WholeHash DEF Inv
  <2>4. Shared /\ task'[i].state = "pending"
    BY <1>5, <1>6, <2>1, <2>3
  <2> QED BY <2>4 DEF Final, In
<1>11. GiveUp(a, p) =>
         /\ Shared
         /\ \/ ~Final(i)'
            \/ In(i, "archived")' /\ (p \/ ~CanRetry(task'[i].msg))
  <2>1. CASE p \/ ~CanRetry(issued[a].msg)
    BY <1>8, <2>1 DEF GiveUp
  <2>2. CASE ~(p \/ ~CanRetry(issued[a].msg))
    BY <1>9, <2>2 DEF GiveUp
  <2> QED BY <2>1, <2>2
<1>12. Shared
  BY <1>7, <1>10, <1>11
<1> HIDE DEF Shared
<1>13. /\ AckSuccess(a) => In(i, "completed")'
       /\ Requeue(a) => ~Final(i)'
       /\ GiveUp(a, p) =>
            \/ ~Final(i)'
            \/ In(i, "archived")' /\ (p \/ ~CanRetry(task'[i].msg))
  BY <1>7, <1>10, <1>11
<1> QED BY <1>1, <1>3, <1>12, <1>13 DEF Ends, Shared

-----------------------------------------------------------------------------
(* EndIsEarned *)

Earned(i) ==
  /\ In(i, "completed") => \E a \in RunsOf(i) : outcome[a] = "ok"
  /\ In(i, "archived") => \/ \E a \in RunsOf(i) : outcome[a] = "fatal"
                          \/ ~CanRetry(task[i].msg)

\* What a handler made of an attempt stays.
OutcomesLast ==
  \A a \in Attempts : outcome[a] \in {"ok", "fatal"} => outcome'[a] = outcome[a]

\* A task that had ended is left alone, and what ended it is remembered.
LEMMA EarnedLasts ==
  ASSUME ClaimsLast, OutcomesLast, NEW i \in Ids, Earned(i), task'[i] = task[i]
  PROVE  Earned(i)'
<1>1. ASSUME NEW a \in RunsOf(i), NEW o \in {"ok", "fatal"}, outcome[a] = o
      PROVE  a \in RunsOf(i)' /\ outcome'[a] = o
  BY <1>1 DEF RunsOf, ClaimsLast, OutcomesLast, Handles
<1> QED BY <1>1 DEF Earned, In

\* A step in which no task comes to its end.
LEMMA EarnedNoneEnds ==
  ASSUME EndIsEarned, ClaimsLast, OutcomesLast, NoneEnds
  PROVE  EndIsEarned'
<1>1. ASSUME NEW i \in Ids
      PROVE  Earned(i)'
  <2>1. CASE task'[i] = task[i]
    BY <2>1, EarnedLasts DEF EndIsEarned, Earned
  <2>2. CASE ~Final(i)'
    BY <2>2 DEF Earned, Final
  <2> QED BY <2>1, <2>2 DEF NoneEnds
<1> QED BY <1>1 DEF EndIsEarned, Earned

\* The call after a run, or recovery: AckSuccess only after a run that
\* returned nil, an archive for good only after one that failed for good.
LEMMA EarnedCall ==
  ASSUME BudgetInv, EndIsEarned, outcome' = outcome, NEW a \in Attempts,
         NEW p \in BOOLEAN,
         \/ AckSuccess(a) /\ outcome[a] = "ok"
         \/ GiveUp(a, p) /\ (p => outcome[a] = "fatal")
         \/ Requeue(a)
  PROVE  EndIsEarned'
<1>1. PICK i \in Ids : Ends(i, a, p)
  BY CallEnds DEF BudgetInv, EngineInv
<1>2. ClaimsLast /\ OutcomesLast /\ \A j \in Ids : j # i => task'[j] = task[j]
  BY <1>1 DEF Ends, OutcomesLast
<1>3. \A j \in Ids : j # i => Earned(j)'
  BY <1>2, EarnedLasts DEF EndIsEarned, Earned
<1>4. ASSUME outcome[a] \in {"ok", "fatal"}
      PROVE  a \in RunsOf(i)'
  BY <1>1, <1>4 DEF Ends, ClaimsLast, RunsOf
<1>5. Earned(i)'
  <2>1. CASE ~Final(i)'
    BY <2>1 DEF Earned, Final
  <2>2. CASE AckSuccess(a) /\ outcome[a] = "ok"
    <3>1. task'[i].state = "completed"
      BY <1>1, <2>2 DEF Ends, In
    <3> QED BY <1>4, <2>2, <3>1 DEF Earned, In
  <2>3. CASE GiveUp(a, p) /\ (p => outcome[a] = "fatal") /\ Final(i)'
    <3>1. task'[i].state = "archived" /\ (p \/ ~CanRetry(task'[i].msg))
      BY <1>1, <2>3 DEF Ends, In
    <3> QED BY <1>4, <2>3, <3>1 DEF Earned, In, CanRetry
  <2> QED BY <1>1, <2>1, <2>2, <2>3 DEF Ends
<1> QED BY <1>3, <1>5 DEF EndIsEarned, Earned

\* Every step keeps what EndIsEarned says: one case per action.
LEMMA EarnedNext ==
  BudgetInv /\ EndIsEarned /\ [EngineNext]_engineVars => EndIsEarned'
<1> SUFFICES ASSUME BudgetInv, EndIsEarned, [EngineNext]_engineVars
             PROVE  EndIsEarned'
  OBVIOUS
<1> USE DEF BudgetInv, EngineInv
<1>1. ASSUME outcome' = outcome PROVE OutcomesLast
  BY <1>1 DEF OutcomesLast
<1>2. ASSUME UNCHANGED <<task, issued, outcome>> PROVE EndIsEarned'
  BY <1>1, <1>2, SameNoneEnds, EarnedNoneEnds
<1>3. CASE Produce
  BY <1>1, <1>3, ProduceNoneEnds, EarnedNoneEnds DEF Produce, serverVars
<1>4. ASSUME NEW s \in Servers, Dispatch(s)
      PROVE  EndIsEarned'
  <2>1. CASE DispatchHead(s) \/ DispatchCount(s)
    BY <1>2, <2>1 DEF DispatchHead, DispatchCount, CallFails, storeVars
  <2>2. ASSUME NEW source \in {"scheduled", "retry"}, NEW next,
               DispatchMove(s, source, next)
        PROVE  EndIsEarned'
    <3>1. outcome' = outcome
      BY <2>2 DEF DispatchMove
    <3>2. CASE UNCHANGED storeVars
      BY <1>2, <3>1, <3>2 DEF storeVars
    <3>3. CASE MoveReady(source, 0)
      BY <1>1, <3>1, <3>3, MoveNoneEnds, EarnedNoneEnds
    <3> QED BY <2>2, <3>2, <3>3 DEF DispatchMove, CallFails
  <2>3. CASE DispatchClaim(s)
    <3>1. outcome' = outcome
      BY <2>3 DEF DispatchClaim
    <3>2. CASE UNCHANGED storeVars
      BY <1>2, <3>1, <3>2 DEF storeVars
    <3>3. ASSUME NEW a \in Attempts, Claim(a, LeaseTicks)
          PROVE  EndIsEarned'
      BY <1>1, <3>1, <3>3, ClaimNoneEnds, EarnedNoneEnds
    <3> QED BY <2>3, <3>2, <3>3 DEF DispatchClaim, CallFails
  <2>4. CASE HandOff(s)
    <3>1. UNCHANGED <<task, issued>>
      BY <2>4 DEF HandOff, storeVars
    <3>2. disp[s].att \in Attempts /\ outcome[disp[s].att] = "unrun"
      BY <2>4 DEF HandOff, AtStep, ServerInv, Offers, Handles
    <3>3. OutcomesLast
      BY <2>4, <3>2 DEF HandOff, OutcomesLast, ServerInv, ServerTypeOK
    <3> QED BY <3>1, <3>3, SameNoneEnds, EarnedNoneEnds
  <2>5. CASE RequeueOffered(s)
    <3>1. outcome' = outcome /\ disp[s].att \in Attempts
      BY <2>5 DEF RequeueOffered, AtStep, ServerInv, ServerTypeOK
    <3>2. CASE UNCHANGED storeVars
      BY <1>2, <3>1, <3>2 DEF storeVars
    <3>3. CASE Requeue(disp[s].att)
      BY <3>1, <3>3, EarnedCall
    <3> QED BY <2>5, <3>2, <3>3 DEF RequeueOffered, Refused, CallFails
  <2> QED BY <1>4, <2>1, <2>2, <2>3, <2>4, <2>5 DEF Dispatch
<1>5. ASSUME NEW s \in Servers, NEW a \in Attempts, HandlerReturns(s, a)
      PROVE  EndIsEarned'
  <2>1. UNCHANGED <<task, issued>>
    BY <1>5 DEF HandlerReturns, storeVars
  <2>2. OutcomesLast
    BY <1>5 DEF HandlerReturns, OutcomesLast, ServerInv, ServerTypeOK
  <2> QED BY <2>1, <2>2, SameNoneEnds, EarnedNoneEnds
<1>6. ASSUME NEW s \in Servers, NEW a \in Attempts, Finish(s, a)
      PROVE  EndIsEarned'
  <2>1. outcome' = outcome /\ (outcome[a] = "fatal") \in BOOLEAN
    BY <1>6 DEF Finish
  <2>2. CASE UNCHANGED storeVars
    BY <1>2, <2>1, <2>2 DEF storeVars
  <2>3. CASE outcome[a] = "ok" /\ AckSuccess(a)
    BY <2>1, <2>3, EarnedCall
  <2>4. CASE GiveUp(a, outcome[a] = "fatal")
    BY <2>1, <2>4, EarnedCall
  <2> QED BY <1>6, <2>2, <2>3, <2>4 DEF Finish, Refused, CallFails
<1>7. ASSUME NEW s \in Servers, Recover(s)
      PROVE  EndIsEarned'
  <2>1. outcome' = outcome
    BY <1>7 DEF Recover, RecoveryScan, RecoveryGet, RecoveryClose
  <2>2. CASE UNCHANGED storeVars
    BY <1>2, <2>1, <2>2 DEF storeVars
  <2>3. ASSUME rec[s] # None, rec[s].got # None, GiveUp(rec[s].got, FALSE)
        PROVE  EndIsEarned'
    <3>1. rec[s].got \in Attempts
      BY <2>3 DEF ServerInv, ServerTypeOK
    <3> QED BY <2>1, <2>3, <3>1, EarnedCall
  <2> QED BY <1>7, <2>2, <2>3 DEF Recover, RecoveryScan, RecoveryGet,
                                  RecoveryClose, Refused, CallFails
<1>8. CASE EngineTick \/ UNCHANGED engineVars
  BY <1>2, <1>8 DEF EngineTick, Tick, engineVars, storeVars, serverVars
<1>9. ASSUME NEW s \in Servers,
             \/ Heartbeat(s) \/ Start(s) \/ Lifecycle(s) \/ ShutdownTimeout(s)
             \/ Crash(s) \/ requestStop(s, "stop") \/ requestStop(s, "shutdown")
      PROVE  EndIsEarned'
  <2>1. UNCHANGED <<task, issued, outcome>>
    BY <1>9 DEF storeVars, Heartbeat, HeartbeatTick, HeartbeatExtend,
                ExtendLease, extendLeaseScript, CallFails, Start, Lifecycle,
                StopCancel, ShutdownCancel, ShutdownReturn, ShutdownTimeout,
                Crash, requestStop, Cancel
  <2> QED BY <1>2, <2>1
<1> QED BY <1>3, <1>4, <1>5, <1>6, <1>7, <1>8, <1>9 DEF EngineNext

\* For any numbers of servers, tasks, faults and stops: a task is completed
\* only after a handler returned nil for it, and archived only after one failed
\* for good or when its retries are used up (process, recoveryLoop).
THEOREM EngineEndIsEarned == EngineSpec => []EndIsEarned
<1>1. EngineInit => EndIsEarned
  BY SMTT(30), StoreAssumption
  DEF EngineInit, StoreInit, NoHash, EndIsEarned, In, States
<1> QED BY <1>1, EarnedNext, EngineBudgetInvariant, PTL DEF EngineSpec

-----------------------------------------------------------------------------
(* CleanShutdown *)

Ended(s) == life[s] \in {"cancelled", "closed"}

\* A claim that a dispatcher got is ended, or somebody in the server still has
\* it in hand.
InHand(s, a) == issued[a].resolved = 1 \/ a \in work[s] \/ disp[s].att = a

\* Only a cancelled context cuts work short; without that, and without faults,
\* the context ends after the work, and no claim is dropped on the way.
Clean(s) ==
  /\ mine[s] \subseteq Handles
  /\ cut[s] => Ended(s)
  /\ faults = 0 /\ ~cut[s] => /\ Ended(s) => WorkDone(s)
                              /\ \A a \in mine[s] : InHand(s, a)

AllClean == \A s \in Servers : Clean(s)

\* A fault is not forgotten.
FaultsLast == faults' = 0 => faults = 0

\* The step is one of server s; the others keep what they have.
StepOf(s) ==
  \A t \in Servers : t # s =>
    /\ life'[t] = life[t] /\ cut'[t] = cut[t] /\ mine'[t] = mine[t]
    /\ disp'[t] = disp[t] /\ work'[t] = work[t]

\* A server that does nothing stays clean, whatever others do to its claims.
LEMMA IdleClean ==
  ASSUME ClaimsLast, FaultsLast, NEW t \in Servers, Clean(t),
         life'[t] = life[t], cut'[t] = cut[t], mine'[t] = mine[t],
         disp'[t] = disp[t], work'[t] = work[t]
  PROVE  Clean(t)'
BY DEF Clean, Ended, WorkDone, InHand, ClaimsLast, FaultsLast

\* It remains to look at the server that takes the step.
LEMMA StepClean ==
  ASSUME AllClean, ClaimsLast, FaultsLast, NEW s \in Servers, StepOf(s),
         Clean(s)'
  PROVE  AllClean'
<1>1. ASSUME NEW t \in Servers, t # s
      PROVE  Clean(t)'
  BY <1>1, IdleClean DEF StepOf, AllClean
<1> QED BY <1>1 DEF AllClean

\* The steps of dispatcher and workers, while they are at work, keep every
\* claim in hand.
LEMMA BusyClean ==
  ASSUME AllClean, ClaimsLast, FaultsLast, NEW s \in Servers, StepOf(s),
         ~WorkDone(s), life' = life, cut' = cut, mine'[s] \subseteq Handles',
         faults' = 0 /\ ~cut[s] => \A a \in mine'[s] : InHand(s, a)'
  PROVE  AllClean'
<1>1. Clean(s)'
  BY DEF AllClean, Clean, Ended, FaultsLast
<1> QED BY <1>1, StepClean

\* A fault changes the count.
LEMMA FaultCounts ==
  ASSUME ServerInv, Fault
  PROVE  faults' # 0
BY SMTT(30), EngineAssumption DEF ServerInv, ServerTypeOK, Fault

\* The call of a busy server fails for no fault of Redis only because somebody
\* else has ended the claim.
LEMMA RefusedEnded ==
  ASSUME Inv, ServerInv, AllClean, NEW s \in Servers, NEW a \in Handles,
         Refused(s, a), faults' = 0, ~cut[s], ~WorkDone(s)
  PROVE  issued[a].resolved = 1
<1>1. ~Fault
  BY FaultCounts
<1>2. ~(life[s] = "cancelled" /\ NoFault)
  BY DEF AllClean, Clean, Ended, NoFault
<1>3. ~Owns(issued[a].id, a)
  BY <1>1, <1>2 DEF Refused, CallFails
<1>4. issued[a].id \in Ids /\ a # None
  BY StoreAssumption DEF Inv, StoreTypeOK, Handles, Handle
<1>5. task[issued[a].id].attempt # a
  BY <1>3, <1>4 DEF Inv, IndexesMatchState, Placed, In, Owns
<1> QED BY <1>5 DEF Inv, ClaimResolvedOnce

\* A dispatcher that moves on with nothing in its hands.
LEMMA GotoClean ==
  ASSUME ServerInv, AllClean, ClaimsLast, FaultsLast, NEW s \in Servers,
         NEW step, Goto(s, step), disp[s].at \notin {"offer", "done"},
         UNCHANGED <<life, cut, mine, work>>
  PROVE  AllClean'
<1>1. StepOf(s)
  BY DEF StepOf, Goto, ServerInv, ServerTypeOK
<1>2. disp[s].att = None
  BY DEF ServerInv
<1>3. \A a \in mine[s] : a \in Handles /\ a \in Handles' /\ a # None
  BY StoreAssumption DEF AllClean, Clean, ClaimsLast, Handles
<1>4. faults' = 0 /\ ~cut[s] => \A a \in mine'[s] : InHand(s, a)'
  BY <1>2, <1>3 DEF AllClean, Clean, InHand, ClaimsLast, FaultsLast
<1> QED BY <1>1, <1>3, <1>4, BusyClean DEF WorkDone

\* The steps of a dispatcher.
LEMMA DispatchClean ==
  ASSUME BudgetInv, AllClean, NEW s \in Servers, Dispatch(s)
  PROVE  AllClean'
<1> USE DEF BudgetInv, EngineInv
<1>1. FaultsLast
  BY FaultCounts DEF FaultsLast, Dispatch, DispatchHead, DispatchMove,
     DispatchCount, DispatchClaim, HandOff, RequeueOffered, Refused, CallFails,
     NoFault
<1>2. UNCHANGED <<life, cut>>
  BY DEF Dispatch, DispatchHead, DispatchMove, DispatchCount, DispatchClaim,
         HandOff, RequeueOffered
<1>3. CASE DispatchHead(s) \/ DispatchCount(s)
  <2>1. ClaimsLast
    BY <1>3, SameNoneEnds DEF DispatchHead, DispatchCount, CallFails, storeVars
  <2>2. PICK step : Goto(s, step)
    BY <1>3 DEF DispatchHead, DispatchCount, NextTurn
  <2>3. disp[s].at \notin {"offer", "done"} /\ UNCHANGED <<mine, work>>
    BY <1>3 DEF DispatchHead, DispatchCount, AtStep
  <2> QED BY <1>1, <1>2, <2>1, <2>2, <2>3, GotoClean
<1>4. ASSUME NEW source \in {"scheduled", "retry"}, NEW next,
             DispatchMove(s, source, next)
      PROVE  AllClean'
  <2>1. ClaimsLast
    <3>1. CASE UNCHANGED storeVars
      BY <3>1, SameNoneEnds DEF storeVars
    <3>2. CASE MoveReady(source, 0)
      BY <3>2, MoveNoneEnds
    <3> QED BY <1>4, <3>1, <3>2 DEF DispatchMove, CallFails
  <2>2. PICK step : Goto(s, step)
    BY <1>4 DEF DispatchMove, NextTurn
  <2>3. disp[s].at \notin {"offer", "done"} /\ UNCHANGED <<mine, work>>
    BY <1>4 DEF DispatchMove, AtStep
  <2> QED BY <1>1, <1>2, <2>1, <2>2, <2>3, GotoClean
<1>5. CASE DispatchClaim(s)
  <2>1. disp[s].at \notin {"offer", "done"} /\ work' = work
    BY <1>5 DEF DispatchClaim, AtStep
  <2>2. ASSUME UNCHANGED storeVars, NextTurn(s), UNCHANGED mine
        PROVE  AllClean'
    BY <1>1, <1>2, <2>1, <2>2, SameNoneEnds, GotoClean DEF storeVars, NextTurn
  <2>3. ASSUME NEW a \in Attempts, Claim(a, LeaseTicks), NextTurn(s),
               UNCHANGED mine
        PROVE  AllClean'
    BY <1>1, <1>2, <2>1, <2>3, ClaimNoneEnds, GotoClean DEF NextTurn
  <2>4. ASSUME NEW a \in Attempts, Claim(a, LeaseTicks),
               disp' = [disp EXCEPT ![s] = [at |-> "offer", att |-> a]],
               mine' = [mine EXCEPT ![s] = @ \cup {a}]
        PROVE  AllClean'
    <3>1. ClaimsLast /\ a \in Handles'
      BY <2>4, ClaimNoneEnds
    <3>2. mine'[s] = mine[s] \cup {a} /\ disp'[s].att = a /\ disp[s].att = None
      BY <2>1, <2>4 DEF ServerInv, ServerTypeOK
    <3>3. StepOf(s)
      BY <1>2, <2>1, <2>4 DEF StepOf, ServerInv, ServerTypeOK
    <3>4. \A b \in mine[s] : b \in Handles /\ b \in Handles' /\ b # None
      BY <3>1, StoreAssumption DEF AllClean, Clean, ClaimsLast, Handles
    <3>5. faults' = 0 /\ ~cut[s] => \A b \in mine'[s] : InHand(s, b)'
      BY <1>1, <2>1, <3>1, <3>2, <3>4
      DEF AllClean, Clean, InHand, ClaimsLast, FaultsLast
    <3> QED BY <1>1, <1>2, <2>1, <3>1, <3>2, <3>3, <3>4, <3>5, BusyClean
            DEF WorkDone
  <2> QED BY <1>5, <2>2, <2>3, <2>4 DEF DispatchClaim, CallFails
<1>6. CASE HandOff(s)
  <2>1. ClaimsLast
    BY <1>6, SameNoneEnds DEF HandOff, storeVars
  <2>2. /\ work'[s] = work[s] \cup {disp[s].att} /\ mine' = mine
        /\ disp[s].at = "offer"
    BY <1>6 DEF HandOff, AtStep, ServerInv, ServerTypeOK
  <2>3. StepOf(s)
    BY <1>2, <1>6 DEF StepOf, HandOff, NextTurn, Goto, ServerInv, ServerTypeOK
  <2>4. \A b \in mine[s] : b \in Handles /\ b \in Handles'
    BY <2>1 DEF AllClean, Clean, ClaimsLast
  <2>5. faults' = 0 /\ ~cut[s] => \A b \in mine'[s] : InHand(s, b)'
    BY <1>1, <2>1, <2>2, <2>4
    DEF AllClean, Clean, InHand, ClaimsLast, FaultsLast
  <2> QED BY <1>1, <1>2, <2>1, <2>2, <2>3, <2>4, <2>5, BusyClean DEF WorkDone
<1>7. CASE RequeueOffered(s)
  <2>1. PICK a \in Attempts : a = disp[s].att
    BY <1>7 DEF RequeueOffered, AtStep, ServerInv, ServerTypeOK
  <2>2. /\ Requeue(a) \/ Refused(s, a)
        /\ disp[s].at = "offer" /\ UNCHANGED <<mine, work>>
    BY <1>7, <2>1 DEF RequeueOffered, AtStep
  <2>3. a \in Handles
    BY <2>1, <2>2 DEF Offers, ServerInv
  <2>4. StepOf(s)
    BY <1>2, <1>7 DEF StepOf, RequeueOffered, Goto, ServerInv, ServerTypeOK
  <2>5. /\ ClaimsLast
        /\ faults' = 0 /\ ~cut[s] => issued'[a].resolved = 1
    <3>1. CASE Requeue(a)
      <4>1. PICK i \in Ids : Ends(i, a, FALSE)
        BY <3>1, CallEnds
      <4> QED BY <4>1 DEF Ends
    <3>2. CASE Refused(s, a)
      <4>1. ~WorkDone(s)
        BY <2>2 DEF WorkDone
      <4>2. faults' = 0 /\ ~cut[s] => issued[a].resolved = 1
        BY <2>3, <3>2, <4>1, RefusedEnded
      <4>3. UNCHANGED <<task, issued>>
        BY <3>2 DEF Refused, CallFails, storeVars
      <4> QED BY <4>2, <4>3, SameNoneEnds
    <3> QED BY <2>2, <3>1, <3>2
  <2>6. \A b \in mine[s] : b \in Handles /\ b \in Handles'
    BY <2>5 DEF AllClean, Clean, ClaimsLast
  <2>7. faults' = 0 /\ ~cut[s] => \A b \in mine'[s] : InHand(s, b)'
    BY <1>1, <2>1, <2>2, <2>5, <2>6
    DEF AllClean, Clean, InHand, ClaimsLast, FaultsLast
  <2> QED BY <1>1, <1>2, <2>2, <2>4, <2>5, <2>6, <2>7, BusyClean DEF WorkDone
<1> QED BY <1>3, <1>4, <1>5, <1>6, <1>7 DEF Dispatch

\* The steps of a worker.
LEMMA ProcessClean ==
  ASSUME BudgetInv, AllClean, NEW s \in Servers, NEW a \in Attempts,
         HandlerReturns(s, a) \/ Finish(s, a)
  PROVE  AllClean'
<1> USE DEF BudgetInv, EngineInv
<1>1. CASE HandlerReturns(s, a)
  <2>1. ClaimsLast /\ FaultsLast /\ UNCHANGED <<life, cut, mine, disp, work>>
    BY <1>1, SameNoneEnds DEF HandlerReturns, storeVars, FaultsLast
  <2> QED BY <2>1, IdleClean DEF AllClean
<1>2. CASE Finish(s, a)
  <2>1. FaultsLast
    BY <1>2, FaultCounts DEF FaultsLast, Finish, GiveUp, Answer, Refused,
       CallFails, NoFault
  <2>2. UNCHANGED <<life, cut, mine, disp>>
    BY <1>2 DEF Finish
  <2>3. ~WorkDone(s) /\ work'[s] = work[s] \ {a} /\ StepOf(s)
    BY <1>2, <2>2 DEF Finish, WorkDone, StepOf, ServerInv, ServerTypeOK
  <2>4. /\ ClaimsLast
        /\ a \in Handles /\ faults' = 0 /\ ~cut[s] => issued'[a].resolved = 1
    <3>1. ASSUME AckSuccess(a) \/ GiveUp(a, outcome[a] = "fatal")
          PROVE  ClaimsLast /\ issued'[a].resolved = 1
      <4>1. PICK i \in Ids : Ends(i, a, outcome[a] = "fatal")
        BY <3>1, CallEnds
      <4> QED BY <4>1 DEF Ends
    <3>2. ASSUME Refused(s, a)
          PROVE  /\ ClaimsLast
                 /\ a \in Handles /\ faults' = 0 /\ ~cut[s] =>
                      issued'[a].resolved = 1
      <4>1. a \in Handles /\ faults' = 0 /\ ~cut[s] => issued[a].resolved = 1
        BY <2>3, <3>2, RefusedEnded
      <4>2. UNCHANGED <<task, issued>>
        BY <3>2 DEF Refused, CallFails, storeVars
      <4> QED BY <4>1, <4>2, SameNoneEnds
    <3> QED BY <1>2, <3>1, <3>2 DEF Finish
  <2>5. \A b \in mine[s] : b \in Handles /\ b \in Handles'
    BY <2>4 DEF AllClean, Clean, ClaimsLast
  <2>6. faults' = 0 /\ ~cut[s] => \A b \in mine'[s] : InHand(s, b)'
    BY <2>1, <2>2, <2>3, <2>4, <2>5
    DEF AllClean, Clean, InHand, ClaimsLast, FaultsLast
  <2> QED BY <2>1, <2>2, <2>3, <2>4, <2>5, <2>6, BusyClean
<1> QED BY <1>1, <1>2

\* The steps of a recovery loop, and those of no server: the claims of others
\* may be ended, none is dropped.
LEMMA RecoverClean ==
  ASSUME BudgetInv, AllClean, NEW s \in Servers, Recover(s)
  PROVE  AllClean'
<1> USE DEF BudgetInv, EngineInv
<1>1. UNCHANGED <<life, cut, mine, disp, work>>
  BY DEF Recover, RecoveryScan, RecoveryGet, RecoveryClose
<1>2. FaultsLast
  BY FaultCounts DEF FaultsLast, Recover, RecoveryScan, RecoveryGet,
     RecoveryClose, GiveUp, Answer, Refused, CallFails, NoFault
<1>3. ClaimsLast
  <2>1. CASE UNCHANGED storeVars
    BY <2>1, SameNoneEnds DEF storeVars
  <2>2. ASSUME rec[s] # None, rec[s].got # None, GiveUp(rec[s].got, FALSE)
        PROVE  ClaimsLast
    <3>1. rec[s].got \in Attempts
      BY <2>2 DEF ServerInv, ServerTypeOK
    <3>2. PICK i \in Ids : Ends(i, rec[s].got, FALSE)
      BY <2>2, <3>1, CallEnds
    <3> QED BY <3>2 DEF Ends
  <2> QED BY <2>1, <2>2 DEF Recover, RecoveryScan, RecoveryGet, RecoveryClose,
                            Refused, CallFails
<1> QED BY <1>1, <1>2, <1>3, IdleClean DEF AllClean

\* Start, Stop, Shutdown and the end of a process.
LEMMA LifecycleClean ==
  ASSUME BudgetInv, AllClean, NEW s \in Servers,
         \/ Start(s) \/ Lifecycle(s) \/ ShutdownTimeout(s) \/ Crash(s)
         \/ requestStop(s, "stop") \/ requestStop(s, "shutdown")
  PROVE  AllClean'
<1> USE DEF BudgetInv, EngineInv
<1>1. ClaimsLast
  BY SameNoneEnds DEF storeVars, Start, Lifecycle, StopCancel, ShutdownCancel,
     ShutdownReturn, ShutdownTimeout, Crash, requestStop, Cancel
<1>2. FaultsLast
  BY FaultCounts DEF FaultsLast, Start, Lifecycle, StopCancel, ShutdownCancel,
     ShutdownReturn, ShutdownTimeout, Crash, requestStop, Cancel
<1>3. Clean(s)
  BY DEF AllClean
<1>4. CASE Start(s)
  <2>1. StepOf(s) /\ life'[s] = "running" /\ cut'[s] = FALSE /\ mine'[s] = {}
    BY <1>4 DEF Start, StepOf, ServerInv, ServerTypeOK
  <2>2. Clean(s)'
    BY <2>1 DEF Clean, Ended
  <2> QED BY <1>1, <1>2, <2>1, <2>2, StepClean
<1>5. CASE Crash(s)
  <2>1. StepOf(s) /\ life'[s] = "new" /\ cut'[s] = FALSE /\ mine'[s] = {}
    BY <1>5 DEF Crash, StepOf, ServerInv, ServerTypeOK
  <2>2. Clean(s)'
    BY <2>1 DEF Clean, Ended
  <2> QED BY <1>1, <1>2, <2>1, <2>2, StepClean
<1>6. ASSUME Cancel(s), ~Ended(s)
      PROVE  AllClean'
  <2>1. /\ StepOf(s) /\ life'[s] = "cancelled" /\ cut'[s] = ~WorkDone(s)
        /\ UNCHANGED <<mine, disp, work>>
    BY <1>6 DEF Cancel, StepOf, ServerInv, ServerTypeOK
  <2>2. WorkDone(s)' <=> WorkDone(s)
    BY <2>1 DEF WorkDone
  <2>3. mine'[s] \subseteq Handles' /\ (cut'[s] => Ended(s)')
    BY <1>1, <1>3, <2>1 DEF Clean, ClaimsLast, Ended
  <2>4. faults' = 0 => \A a \in mine'[s] : InHand(s, a)'
    BY <1>1, <1>2, <1>3, <1>6, <2>1
    DEF Clean, InHand, ClaimsLast, FaultsLast
  <2>5. Clean(s)'
    BY <2>1, <2>2, <2>3, <2>4 DEF Clean
  <2> QED BY <1>1, <1>2, <2>1, <2>5, StepClean
<1>7. CASE StopCancel(s) \/ ShutdownCancel(s) \/ ShutdownTimeout(s)
  BY <1>6, <1>7 DEF StopCancel, ShutdownCancel, ShutdownTimeout, Ended
<1>8. ASSUME NEW to \in {"stop", "shutdown"}, requestStop(s, to)
      PROVE  AllClean'
  <2>1. /\ StepOf(s) /\ life[s] = "running" /\ life'[s] = to
        /\ UNCHANGED <<cut, mine, disp, work>>
    BY <1>8 DEF requestStop, StepOf, ServerInv, ServerTypeOK
  <2>2. ~cut[s] /\ ~Ended(s)'
    BY <1>3, <2>1 DEF Clean, Ended
  <2>3. Clean(s)'
    BY <1>1, <1>2, <1>3, <2>1, <2>2
    DEF Clean, InHand, ClaimsLast, FaultsLast
  <2> QED BY <1>1, <1>2, <2>1, <2>3, StepClean
<1>9. CASE ShutdownReturn(s)
  <2>1. /\ StepOf(s) /\ Ended(s) /\ Ended(s)' /\ WorkDone(s)
        /\ UNCHANGED <<cut, mine, disp, work>>
    BY <1>9 DEF ShutdownReturn, StepOf, Ended, ServerInv, ServerTypeOK
  <2>2. Clean(s)'
    BY <1>1, <1>2, <1>3, <2>1
    DEF Clean, InHand, ClaimsLast, FaultsLast, WorkDone
  <2> QED BY <1>1, <1>2, <2>1, <2>2, StepClean
<1> QED BY <1>4, <1>5, <1>7, <1>8, <1>9 DEF Lifecycle

\* Every step of the engine keeps every server clean.
LEMMA CleanNext ==
  BudgetInv /\ AllClean /\ [EngineNext]_engineVars => AllClean'
<1> SUFFICES ASSUME BudgetInv, AllClean, [EngineNext]_engineVars
             PROVE  AllClean'
  OBVIOUS
<1>1. ASSUME ClaimsLast, FaultsLast, UNCHANGED <<life, cut, mine, disp, work>>
      PROVE  AllClean'
  BY <1>1, IdleClean DEF AllClean
<1>2. CASE Produce
  BY <1>1, <1>2, ProduceNoneEnds
  DEF Produce, serverVars, FaultsLast, BudgetInv, EngineInv
<1>3. CASE EngineTick \/ UNCHANGED engineVars
  BY <1>1, <1>3, SameNoneEnds
  DEF EngineTick, Tick, engineVars, storeVars, serverVars, FaultsLast
<1>4. ASSUME NEW s \in Servers, Heartbeat(s)
      PROVE  AllClean'
  <2>1. UNCHANGED <<task, issued, life, cut, mine, disp, work>>
    BY <1>4 DEF Heartbeat, HeartbeatTick, HeartbeatExtend, ExtendLease,
                extendLeaseScript, CallFails, storeVars
  <2>2. FaultsLast
    BY <1>4, FaultCounts DEF Heartbeat, HeartbeatTick, HeartbeatExtend,
       CallFails, NoFault, FaultsLast, BudgetInv, EngineInv
  <2> QED BY <1>1, <2>1, <2>2, SameNoneEnds
<1> QED BY <1>2, <1>3, <1>4, DispatchClean, ProcessClean, RecoverClean,
           LifecycleClean DEF EngineNext

\* For any numbers of servers and tasks: when Shutdown returned nil, did not
\* cut work short and no call failed, every claim of that server is ended
\* (Shutdown, dispatch, process).
THEOREM EngineCleanShutdown == EngineSpec => []CleanShutdown
<1>1. EngineInit => AllClean
  BY DEF EngineInit, AllClean, Clean, Ended
<1>2. EngineInv /\ AllClean => CleanShutdown
  <2> SUFFICES ASSUME EngineInv, AllClean, NEW s \in Servers,
                      life[s] = "closed", ~cut[s], faults = 0,
                      NEW a \in mine[s]
               PROVE  issued[a].resolved = 1
    BY DEF CleanShutdown
  <2>1. WorkDone(s) /\ InHand(s, a) /\ a # None
    BY StoreAssumption DEF AllClean, Clean, Ended, Handles
  <2>2. disp[s].att = None /\ work[s] = {}
    BY <2>1 DEF WorkDone, EngineInv, ServerInv
  <2> QED BY <2>1, <2>2 DEF InHand
<1> QED BY <1>1, <1>2, CleanNext, EngineBudgetInvariant, EngineInvariant, PTL
        DEF EngineSpec
=============================================================================
