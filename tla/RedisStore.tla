----------------------------- MODULE RedisStore -----------------------------
(***************************************************************************)
(* The Redis task store of internal/redisstore/rdb.go, for one queue.       *)
(*                                                                         *)
(* Every key of a queue carries the same hash tag and no script touches two *)
(* queues, so the queues of a deployment are independent copies of this     *)
(* module.  A Lua script runs atomically in Redis: one script is one        *)
(* action.  A Go method that makes two round trips (ReplayDeadLetter,       *)
(* MoveReady) is two actions, and anything may happen in between.           *)
(*                                                                         *)
(* Time.  A ZSET score is kept relative to the present: scheduled[i] = 2    *)
(* means "due two ticks from now", 0 means "due".  Tick brings every score  *)
(* one nearer.  The ages of archived tasks are counted the other way.  The  *)
(* clock that a caller passes to a script is a parameter of the action, so  *)
(* callers with different clocks are included.                              *)
(*                                                                         *)
(* Lists.  No operation reads the order of the pending and active Lists     *)
(* (claims follow pending_rank), so a List is the number of occurrences of  *)
(* every ID: LREM key 1 id takes away one, and a duplicate stays visible.   *)
(***************************************************************************)
EXTENDS Integers, FiniteSets

CONSTANTS
  Ids,          \* task IDs that clients of the queue use
  Attempts,     \* values of newAttemptID: 128 random bits, taken as unique
  Payloads,     \* what tells two task messages with the same ID apart
  Ranks,        \* scores that taskRank yields
  MaxRetries,   \* values of TaskMessage.MaxRetry
  Admins,       \* callers that may be inside ReplayDeadLetter
  Horizon,      \* scores and ages are kept within 0 .. Horizon
  BatchLimit,   \* the limit argument of MoveReady and CleanupDeadLetters
  MaxSequence,  \* bound on the INCR counter: how many tasks are created
  None          \* a missing hash field, ZSET member or message

VARIABLES
  task,         \* the task Hashes
  pending,      \* List
  pendingRank,  \* ZSET pending_rank, members "<sequence>:<id>"
  scheduled,    \* ZSET, score RunAt
  retry,        \* ZSET, score retry_at
  active,       \* List
  lease,        \* ZSET, score lease expiry
  archived,     \* ZSET, score archive time
  sequence,     \* counter
  issued,       \* the message every Claim returned to its caller
  replaying     \* the message a ReplayDeadLetter call has read, not yet written

redis == <<task, pending, pendingRank, scheduled, retry, active, lease,
           archived, sequence>>
storeVars == <<task, pending, pendingRank, scheduled, retry, active, lease,
               archived, sequence, issued, replaying>>

-----------------------------------------------------------------------------
(* Data *)

\* The JSON message.  Type, queue and time fields play no part in what the
\* store does with it.
Message == [payload : Payloads, maxRetry : MaxRetries, retryCount : Nat]

States == {"scheduled", "pending", "active", "retry", "archived", "completed"}

\* rank_member is "<sequence>:<id>"; the ID is the key, so the field is the
\* sequence number.
Hash == [msg : Message \cup {None}, state : States \cup {None},
         rank : Ranks \cup {None}, member : Nat \cup {None},
         attempt : Attempts \cup {None}]

NoHash == [msg |-> None, state |-> None, rank |-> None, member |-> None,
           attempt |-> None]

Times == 0 .. Horizon

\* A claimed message in the hands of a caller, and how often a call with its
\* attempt has ended the claim.
Handle == [id : Ids, msg : Message, resolved : Nat]

\* What ReplayDeadLetter has read.
DeadLetter == [id : Ids, msg : Message]

ASSUME StoreAssumption ==
  /\ Ranks \subseteq Int
  /\ MaxRetries \subseteq Nat
  /\ Horizon \in Nat
  /\ BatchLimit \in Nat \ {0}
  /\ MaxSequence \in Nat
  /\ None \notin Int
  /\ None \notin States
  /\ None \notin Attempts
  /\ None \notin Message
  /\ None \notin Handle
  /\ None \notin DeadLetter

RankEntry(i, r, n) == [score |-> r, seq |-> n, id |-> i]

\* Mutant: the last created comes first among equals.
BeforeLastFirst(e, f) ==
  e.score < f.score \/ (e.score = f.score /\ e.seq >= f.seq)

\* ZRANGE order of pending_rank: by score, then by member, which starts with
\* the zero-padded sequence number.
Before(e, f) == e.score < f.score \/ (e.score = f.score /\ e.seq <= f.seq)

StoreTypeOK ==
  /\ task \in [Ids -> Hash]
  /\ pending \in [Ids -> Nat]
  /\ pendingRank \subseteq [score : Ranks, seq : Nat, id : Ids]
  /\ scheduled \in [Ids -> Times \cup {None}]
  /\ retry \in [Ids -> Times \cup {None}]
  /\ active \in [Ids -> Nat]
  /\ lease \in [Ids -> Times \cup {None}]
  /\ archived \in [Ids -> Times \cup {None}]
  /\ sequence \in 0 .. MaxSequence
  /\ issued \in [Attempts -> Handle \cup {None}]
  /\ replaying \in [Admins -> DeadLetter \cup {None}]

StoreInit ==
  /\ task = [i \in Ids |-> NoHash]
  /\ pending = [i \in Ids |-> 0]
  /\ pendingRank = {}
  /\ scheduled = [i \in Ids |-> None]
  /\ retry = [i \in Ids |-> None]
  /\ active = [i \in Ids |-> 0]
  /\ lease = [i \in Ids |-> None]
  /\ archived = [i \in Ids |-> None]
  /\ sequence = 0
  /\ issued = [a \in Attempts |-> None]
  /\ replaying = [d \in Admins |-> None]

-----------------------------------------------------------------------------
(* Redis commands.  M is a set of IDs: a script that loops over IDs issues   *)
(* the command once for each of them.                                        *)

Push(list, M) == [i \in Ids |-> IF i \in M THEN list[i] + 1 ELSE list[i]]

LRem(list, M) ==
  [i \in Ids |-> IF i \in M /\ list[i] > 0 THEN list[i] - 1 ELSE list[i]]

ZAdd(z, M, s) == [i \in Ids |-> IF i \in M THEN s ELSE z[i]]

ZRem(z, M) == [i \in Ids |-> IF i \in M THEN None ELSE z[i]]

\* ZADD pending_rank with the rank and rank_member of the Hash.  Both fields
\* are written once, together, and a sequence number is never reused, so the
\* member cannot already be there with another score.
RankAdd(M) ==
  pendingRank \cup {RankEntry(i, task[i].rank, task[i].member) : i \in M}

\* Mutant: a completed task does not count.
ExistsUnfinished(i) == task[i].state \notin {None, "completed"}

Exists(i) == task[i].state # None

\* The first IDs of ZRANGEBYSCORE z -inf cut, at most BatchLimit of them;
\* members with equal scores come in any order.
Batch(D, z) ==
  {M \in SUBSET D : /\ Cardinality(M) <= BatchLimit
                    /\ M = D \/ Cardinality(M) = BatchLimit
                    /\ \A i \in M, j \in D \ M : z[i] <= z[j]}

Due(z, now) == {i \in Ids : z[i] # None /\ z[i] <= now}

-----------------------------------------------------------------------------
(* Lua scripts *)

enqueueScript(i, m, r) ==
  /\ ~Exists(i)
  /\ sequence < MaxSequence
  /\ sequence' = sequence + 1
  /\ task' = [task EXCEPT ![i] =
                [msg |-> m, state |-> "pending", rank |-> r,
                 member |-> sequence + 1, attempt |-> None]]
  /\ pending' = Push(pending, {i})
  /\ pendingRank' = pendingRank \cup {RankEntry(i, r, sequence + 1)}
  /\ UNCHANGED <<scheduled, retry, active, lease, archived>>

scheduleScript(i, m, r, at) ==
  /\ ~Exists(i)
  /\ sequence < MaxSequence
  /\ sequence' = sequence + 1
  /\ task' = [task EXCEPT ![i] =
                [msg |-> m, state |-> "scheduled", rank |-> r,
                 member |-> sequence + 1, attempt |-> None]]
  /\ scheduled' = ZAdd(scheduled, {i}, at)
  /\ UNCHANGED <<pending, pendingRank, retry, active, lease, archived>>

\* Mutant: the retry is counted in the Hash when the task is claimed.
claimScriptCounts(e, a, expiry) ==
  LET i == e.id IN
  /\ pendingRank' = pendingRank \ {e}
  /\ pending' = LRem(pending, {i})
  /\ task' = [task EXCEPT ![i].state = "active", ![i].attempt = a,
                          ![i].msg.retryCount = @ + 1]
  /\ active' = Push(active, {i})
  /\ lease' = ZAdd(lease, {i}, expiry)
  /\ UNCHANGED <<scheduled, retry, archived, sequence>>

\* The Hash that e names has e's member as its rank_member.  If not, the script
\* takes the whole member for an ID, under which there is nothing.
Names(e) == task[e.id].member = e.seq

\* e is the first entry of pending_rank.  Without a message in the Hash the
\* script returns {0, ""}, and the entry is gone.
claimScript(e, a, expiry) ==
  LET i == e.id IN
  /\ pendingRank' = pendingRank \ {e}
  /\ pending' = IF Names(e) THEN LRem(pending, {i}) ELSE pending
  /\ IF Names(e) /\ task[i].msg # None
     THEN /\ task' = [task EXCEPT ![i].state = "active", ![i].attempt = a]
          /\ active' = Push(active, {i})
          /\ lease' = ZAdd(lease, {i}, expiry)
     ELSE UNCHANGED <<task, active, lease>>
  /\ UNCHANGED <<scheduled, retry, archived, sequence>>

\* What Requeue, Replay and MoveReady share: LPUSH pending, ZADD pending_rank.
ToPending(M) ==
  /\ pending' = Push(pending, M)
  /\ pendingRank' = RankAdd(M)

\* An ID of the ZSET whose Hash has no rank would be dropped, and a missing
\* rank_member replaced by the ID; no Hash is ever without them (NoPartialHash,
\* IndexesMatchState), here or in requeueScript and replayArchivedScript.
moveReadyScript(source, now) ==
  LET z == IF source = "scheduled" THEN scheduled ELSE retry IN
  \E M \in Batch(Due(z, now), z) :
    /\ M # {}
    /\ task' = [i \in Ids |-> IF i \in M
                              THEN [task[i] EXCEPT !.state = "pending"]
                              ELSE task[i]]
    /\ ToPending(M)
    /\ scheduled' = IF source = "scheduled" THEN ZRem(scheduled, M)
                                            ELSE scheduled
    /\ retry' = IF source = "retry" THEN ZRem(retry, M) ELSE retry
    /\ UNCHANGED <<active, lease, archived, sequence>>

\* Mutant: the attempt is not compared.
OwnsAny(i, a) == task[i].state = "active"

\* The fence of ack, retry, archive and requeue: the task is active and the
\* attempt is the one that the last Claim stored.
Owns(i, a) == task[i].state = "active" /\ task[i].attempt = a

\* LREM active, ZREM lease, HSET msg and state, HDEL attempt_id.
Release(i, m, st) ==
  /\ active' = LRem(active, {i})
  /\ lease' = ZRem(lease, {i})
  /\ task' = [task EXCEPT ![i].msg = m, ![i].state = st, ![i].attempt = None]

ackScript(i, a, m) ==
  /\ Owns(i, a)
  /\ Release(i, m, "completed")
  /\ UNCHANGED <<pending, pendingRank, scheduled, retry, archived, sequence>>

retryScript(i, a, m, at) ==
  /\ Owns(i, a)
  /\ Release(i, m, "retry")
  /\ retry' = ZAdd(retry, {i}, at)
  /\ UNCHANGED <<pending, pendingRank, scheduled, archived, sequence>>

archiveScript(i, a, m) ==
  /\ Owns(i, a)
  /\ Release(i, m, "archived")
  /\ archived' = ZAdd(archived, {i}, 0)
  /\ UNCHANGED <<pending, pendingRank, scheduled, retry, sequence>>

requeueScript(i, a) ==
  /\ Owns(i, a)
  /\ Release(i, task[i].msg, "pending")
  /\ ToPending({i})
  /\ UNCHANGED <<scheduled, retry, archived, sequence>>

replayArchivedScript(i, m) ==
  /\ task[i].state = "archived"
  /\ archived[i] # None
  /\ archived' = ZRem(archived, {i})
  /\ task' = [task EXCEPT ![i].msg = m, ![i].state = "pending"]
  /\ ToPending({i})
  /\ UNCHANGED <<scheduled, retry, active, lease, sequence>>

\* Mutant: HDEL of msg and state in place of DEL.
deleteArchivedScriptFields(i) ==
  /\ task[i].state = "archived"
  /\ archived[i] # None
  /\ archived' = ZRem(archived, {i})
  /\ task' = [task EXCEPT ![i].msg = None, ![i].state = None]
  /\ UNCHANGED <<pending, pendingRank, scheduled, retry, active, lease,
                 sequence>>

\* Mutant: the task is marked as completed in place of DEL.
deleteArchivedScriptMarks(i) ==
  /\ task[i].state = "archived"
  /\ archived' = ZRem(archived, {i})
  /\ task' = [task EXCEPT ![i].state = "completed"]
  /\ UNCHANGED <<pending, pendingRank, scheduled, retry, active, lease,
                 sequence>>

deleteArchivedScript(i) ==
  /\ task[i].state = "archived"
  /\ archived[i] # None
  /\ archived' = ZRem(archived, {i})
  /\ task' = [task EXCEPT ![i] = NoHash]
  /\ UNCHANGED <<pending, pendingRank, scheduled, retry, active, lease,
                 sequence>>

\* Archive times at or before the cut are ages of at least age; the oldest
\* come first.
cleanupArchivedScript(age) ==
  LET old == {i \in Ids : /\ archived[i] # None /\ archived[i] >= age
                          /\ task[i].state = "archived"}
      rank == [i \in old |-> -archived[i]]
  IN \E M \in Batch(old, rank) :
       /\ M # {}
       /\ archived' = ZRem(archived, M)
       /\ task' = [i \in Ids |-> IF i \in M THEN NoHash ELSE task[i]]
       /\ UNCHANGED <<pending, pendingRank, scheduled, retry, active, lease,
                      sequence>>

\* Mutant: ZADD whatever the state, as ExtendLease once did.
extendLeaseScriptAlways(S, expiry) ==
  /\ lease' = [i \in Ids |->
       IF \E a \in S : issued[a].id = i THEN expiry ELSE lease[i]]
  /\ UNCHANGED <<task, pending, pendingRank, scheduled, retry, active,
                 archived, sequence>>

\* One call for a set S of attempts.  A task that is no longer active loses
\* its lease entry; one that another attempt owns is left alone.
extendLeaseScript(S, expiry) ==
  LET holders(i) == {a \in S : issued[a].id = i} IN
  /\ lease' = [i \in Ids |->
       IF holders(i) # {} /\ task[i].state # "active" THEN None
       ELSE IF \E a \in holders(i) : Owns(i, a) THEN expiry
       ELSE lease[i]]
  /\ UNCHANGED <<task, pending, pendingRank, scheduled, retry, active,
                 archived, sequence>>

-----------------------------------------------------------------------------
(* Store methods.  A call that fails its guard returns an error and changes  *)
(* nothing, so it needs no action.  A caller may repeat a call, or make it   *)
(* long after its Claim, with the attempt it was given: any issued attempt   *)
(* may be presented at any time.                                             *)

Enqueue(i, m, r) == enqueueScript(i, m, r) /\ UNCHANGED <<issued, replaying>>

Schedule(i, m, r, at) ==
  scheduleScript(i, m, r, at) /\ UNCHANGED <<issued, replaying>>

Claim(a, expiry) ==
  /\ issued[a] = None
  /\ \E e \in pendingRank :
       /\ \A f \in pendingRank : Before(e, f)
       /\ claimScript(e, a, expiry)
       /\ issued' = IF Names(e) /\ task[e.id].msg # None
                    THEN [issued EXCEPT ![a] = [id |-> e.id,
                                                msg |-> task[e.id].msg,
                                                resolved |-> 0]]
                    ELSE issued
  /\ UNCHANGED replaying

\* One script call of MoveReady, which makes one for scheduled, one for retry.
MoveReady(source, now) ==
  moveReadyScript(source, now) /\ UNCHANGED <<issued, replaying>>

Handles == {a \in Attempts : issued[a] # None}

\* The call returned nil: its attempt has ended the claim.
Resolve(a) ==
  /\ issued' = [issued EXCEPT ![a].resolved = @ + 1]
  /\ UNCHANGED replaying

AckSuccess(a) ==
  /\ a \in Handles
  /\ ackScript(issued[a].id, a, issued[a].msg)
  /\ Resolve(a)

\* Mutant: one retry more than MaxRetry.
CanRetryOnceMore(m) == m.retryCount <= m.maxRetry

\* Both callers of ScheduleRetry, process and recoveryLoop, compare
\* RetryCount with MaxRetry and increment the message first.
CanRetry(m) == m.retryCount < m.maxRetry

\* Mutant: RetryCount is counted down.
RetriedDown(m) == [m EXCEPT !.retryCount = @ - 1]

Retried(m) == [m EXCEPT !.retryCount = @ + 1]

ScheduleRetry(a, at) ==
  /\ a \in Handles
  /\ retryScript(issued[a].id, a, Retried(issued[a].msg), at)
  /\ Resolve(a)

Archive(a) ==
  /\ a \in Handles
  /\ archiveScript(issued[a].id, a, issued[a].msg)
  /\ Resolve(a)

Requeue(a) ==
  /\ a \in Handles
  /\ requeueScript(issued[a].id, a)
  /\ Resolve(a)

ExtendLease(S, expiry) ==
  /\ S \subseteq Handles
  /\ extendLeaseScript(S, expiry)
  /\ UNCHANGED <<issued, replaying>>

\* ReplayDeadLetter, first round trip: GetDeadLetter reads the message.
GetDeadLetter(d, i) ==
  /\ replaying[d] = None
  /\ task[i].state = "archived"
  /\ replaying' = [replaying EXCEPT ![d] = [id |-> i, msg |-> task[i].msg]]
  /\ UNCHANGED <<redis, issued>>

\* Second round trip: the message that was read goes back with its retry
\* metadata reset, if the task is archived now.
ReplayDeadLetter(d) ==
  /\ replaying[d] # None
  /\ LET i == replaying[d].id
         m == [replaying[d].msg EXCEPT !.retryCount = 0]
     IN \/ replayArchivedScript(i, m)
        \/ /\ task[i].state # "archived" \/ archived[i] = None
           /\ UNCHANGED redis
  /\ replaying' = [replaying EXCEPT ![d] = None]
  /\ UNCHANGED issued

DeleteDeadLetter(i) ==
  deleteArchivedScript(i) /\ UNCHANGED <<issued, replaying>>

CleanupDeadLetters(age) ==
  cleanupArchivedScript(age) /\ UNCHANGED <<issued, replaying>>

\* Time passes: every score comes one tick nearer, every archived task ages.
Tick ==
  LET nearer(z) == [i \in Ids |-> IF z[i] # None /\ z[i] > 0 THEN z[i] - 1
                                  ELSE z[i]]
      older(z) == [i \in Ids |-> IF z[i] # None /\ z[i] < Horizon
                                 THEN z[i] + 1 ELSE z[i]]
  IN /\ scheduled' = nearer(scheduled)
     /\ retry' = nearer(retry)
     /\ lease' = nearer(lease)
     /\ archived' = older(archived)
     /\ UNCHANGED <<task, pending, pendingRank, active, sequence, issued,
                    replaying>>

NewMessage(p, n) == [payload |-> p, maxRetry |-> n, retryCount |-> 0]

StoreNext ==
  \/ \E i \in Ids, p \in Payloads, n \in MaxRetries, r \in Ranks :
       \/ Enqueue(i, NewMessage(p, n), r)
       \/ \E at \in Times : Schedule(i, NewMessage(p, n), r, at)
  \/ \E a \in Attempts :
       \/ \E expiry \in Times : Claim(a, expiry)
       \/ AckSuccess(a)
       \/ /\ a \in Handles /\ CanRetry(issued[a].msg)
          /\ \E at \in Times : ScheduleRetry(a, at)
       \/ Archive(a)
       \/ Requeue(a)
  \/ \E source \in {"scheduled", "retry"}, now \in Times :
       MoveReady(source, now)
  \/ \E S \in SUBSET Handles, expiry \in Times : ExtendLease(S, expiry)
  \/ \E d \in Admins : \/ \E i \in Ids : GetDeadLetter(d, i)
                       \/ ReplayDeadLetter(d)
  \/ \E i \in Ids : DeleteDeadLetter(i)
  \/ \E age \in Times : CleanupDeadLetters(age)
  \/ Tick

StoreSpec == StoreInit /\ [][StoreNext]_storeVars

-----------------------------------------------------------------------------
(* Properties *)

In(i, st) == task[i].state = st

Placed(i) ==
  /\ pending[i] = IF In(i, "pending") THEN 1 ELSE 0
  /\ active[i] = IF In(i, "active") THEN 1 ELSE 0
  /\ scheduled[i] # None <=> In(i, "scheduled")
  /\ retry[i] # None <=> In(i, "retry")
  /\ lease[i] # None <=> In(i, "active")
  /\ archived[i] # None <=> In(i, "archived")
  /\ task[i].attempt # None <=> In(i, "active")

\* Every task is in exactly the structures its Hash state names, once: a
\* pending task is once in the pending List and once in pending_rank, under
\* its own rank_member; an active one once in the active List and in the lease
\* ZSET; a scheduled, retry or archived one in that ZSET; no other entry
\* exists.  A task missing from its structure would be lost for ever, one in
\* two structures would run twice, and a lease entry of a finished task would
\* fill the first page of ExpiredIDs and starve recovery.
IndexesMatchState ==
  /\ \A i \in Ids : Placed(i)
  /\ pendingRank = {RankEntry(i, task[i].rank, task[i].member) :
                      i \in {j \in Ids : In(j, "pending")}}

\* A task Hash exists with all its fields or not at all: no late HSET of a
\* closing script, MoveReady or replay brings back part of a Hash that a
\* deletion removed (claimScript would drop such a task, and the ID could
\* never be enqueued again).
NoPartialHash ==
  \A i \in Ids :
    \/ task[i] = NoHash
    \/ /\ task[i].msg \in Message /\ task[i].state \in States
       /\ task[i].rank \in Ranks /\ task[i].member \in Nat

\* The fence of the four closing scripts: each claim is ended by at most one
\* successful call, and the attempt is the owner of its task exactly until
\* then.  Neither a stale worker, nor a recovery that read an older attempt,
\* nor a repeated call ends somebody else's claim.
ClaimResolvedOnce ==
  \A a \in Handles :
    issued[a].resolved = IF task[issued[a].id].attempt = a THEN 0 ELSE 1

\* While a task is active its Hash still holds the message that the claim
\* returned, so what recovery reads with Get is what the worker was given, and
\* whoever closes the claim counts the retry once.
OwnerHoldsMessage ==
  \A i \in Ids : In(i, "active") =>
    /\ task[i].attempt \in Handles
    /\ issued[task[i].attempt].id = i
    /\ issued[task[i].attempt].msg = task[i].msg

\* Claim takes the task that ranks first by priority and creation time, and
\* the one created first among equals, also when tasks re-enter pending from
\* retry, schedule, requeue or replay.
ClaimsInOrder ==
  [][\A i, j \in Ids :
       In(i, "pending") /\ task'[i].state = "active" /\ In(j, "pending") =>
         \/ task[i].rank < task[j].rank
         \/ task[i].rank = task[j].rank /\ task[i].member <= task[j].member
    ]_storeVars

\* A completed task stays as it is: no late worker, recovery, heartbeat,
\* replay or clean-up touches it again.
CompletedIsFinal ==
  [][\A i \in Ids : In(i, "completed") => task'[i] = task[i]]_storeVars

\* An archived task that a replay returns to pending is still the task that
\* was archived: only its retry metadata is reset.
ReplayKeepsTask ==
  [][\A i \in Ids : In(i, "archived") /\ task'[i].state = "pending" =>
       task'[i].msg = [task[i].msg EXCEPT !.retryCount = 0]]_storeVars

-----------------------------------------------------------------------------
(* Refinement *)

Contract == INSTANCE TaskContract WITH
  status <- [i \in Ids |-> IF task[i].state = None THEN "absent"
                           ELSE task[i].state],
  owner <- [i \in Ids |-> task[i].attempt],
  spent <- {a \in Handles : issued[a].resolved # 0}

\* The store implements the contract: seen through the Hash states and the
\* attempt_id fields alone, every script is one legal transition of the task
\* state machine, made by the owner where a claim ends, or changes nothing.
ImplementsContract == Contract!ContractSpec
=============================================================================
