-------------------------- MODULE RedisStoreProofs --------------------------
(***************************************************************************)
(* The invariants of RedisStore hold for every value of its constants, and  *)
(* so do its action properties and the refinement of TaskContract.          *)
(*                                                                         *)
(* The conjunction of the store's invariants is inductive, no part of it    *)
(* is: that a claim is ended once needs that the indexes are faithful (a    *)
(* second entry could be claimed while the first is active), which needs    *)
(* that no Hash is partial.  There is a lemma for every method.             *)
(***************************************************************************)
EXTENDS RedisStore, TLAPS

\* The inductive invariant.
Inv == /\ StoreTypeOK
       /\ NoPartialHash
       /\ IndexesMatchState
       /\ ClaimResolvedOnce
       /\ OwnerHoldsMessage

-----------------------------------------------------------------------------
(* What a step that concerns one task leaves alone. *)

Others(i) ==
  /\ \A j \in Ids : j # i =>
       /\ task'[j] = task[j]
       /\ pending'[j] = pending[j] /\ active'[j] = active[j]
       /\ scheduled'[j] = scheduled[j] /\ retry'[j] = retry[j]
       /\ lease'[j] = lease[j] /\ archived'[j] = archived[j]
  /\ \A e \in pendingRank \cup pendingRank' : e.id # i =>
       (e \in pendingRank' <=> e \in pendingRank)

\* Most leaves are first-order and left to Zenon; one that needs arithmetic or
\* records cites the SMT solver.
USE ZenonT(30)

\* HSET state and attempt_id changes those fields of one Hash.
LEMMA HSetOwner ==
  ASSUME task \in [Ids -> Hash], NEW i \in Ids, NEW a \in Attempts,
         task' = [task EXCEPT ![i].state = "active", ![i].attempt = a]
  PROVE  /\ task' \in [Ids -> Hash]
         /\ \A j \in Ids : j # i => task'[j] = task[j]
         /\ task'[i].state = "active" /\ task'[i].attempt = a
         /\ task'[i].msg = task[i].msg /\ task'[i].rank = task[i].rank
         /\ task'[i].member = task[i].member
<1>1. task' \in [Ids -> Hash]
  <2>1. [task[i] EXCEPT !.state = "active", !.attempt = a] \in Hash
    BY DEF Hash, States
  <2>2. task' = [task EXCEPT ![i] = [task[i] EXCEPT !.state = "active",
                                                    !.attempt = a]]
    OBVIOUS
  <2> QED BY <2>1, <2>2
<1>2. \A j \in Ids : j # i => task'[j] = task[j]
  BY DEF Hash
<1>3. task'[i].state = "active" /\ task'[i].attempt = a
  BY DEF Hash
<1>4. /\ task'[i].msg = task[i].msg /\ task'[i].rank = task[i].rank
      /\ task'[i].member = task[i].member
  BY DEF Hash
<1> QED BY <1>1, <1>2, <1>3, <1>4

\* HSET msg, state and HDEL attempt_id changes those fields of one Hash.
LEMMA HSetClosed ==
  ASSUME task \in [Ids -> Hash], NEW i \in Ids, NEW st \in States,
         NEW m \in Message,
         task' = [task EXCEPT ![i].msg = m, ![i].state = st,
                              ![i].attempt = None]
  PROVE  /\ task' \in [Ids -> Hash]
         /\ \A j \in Ids : j # i => task'[j] = task[j]
         /\ task'[i].state = st /\ task'[i].attempt = None
         /\ task'[i].msg = m /\ task'[i].rank = task[i].rank
         /\ task'[i].member = task[i].member
<1>1. task' \in [Ids -> Hash]
  <2>1. [task[i] EXCEPT !.msg = m, !.state = st, !.attempt = None] \in Hash
    BY DEF Hash
  <2>2. task' = [task EXCEPT ![i] = [task[i] EXCEPT !.msg = m, !.state = st,
                                                    !.attempt = None]]
    OBVIOUS
  <2> QED BY <2>1, <2>2
<1>2. \A j \in Ids : j # i => task'[j] = task[j]
  BY DEF Hash
<1>3. task'[i].state = st /\ task'[i].attempt = None
  BY SMTT(30) DEF Hash
<1>4. /\ task'[i].msg = m /\ task'[i].rank = task[i].rank
      /\ task'[i].member = task[i].member
  BY SMTT(30) DEF Hash
<1> QED BY <1>1, <1>2, <1>3, <1>4

\* pending_rank holds the entry of task i exactly when i is pending.
RankedIn(i, f, R) ==
  \A e : e \in R /\ e.id = i <=>
         f[i].state = "pending" /\ e = RankEntry(i, f[i].rank, f[i].member)

Ranked(i) == RankedIn(i, task, pendingRank)

\* Entry by entry, or as one set: two ways to say that pending_rank holds
\* exactly the entries of the pending tasks.
LEMMA RankedAll ==
  ASSUME NEW f, NEW R
  PROVE  (\A i \in Ids : RankedIn(i, f, R)) /\ (\A e \in R : e.id \in Ids)
           <=> R = {RankEntry(i, f[i].rank, f[i].member) :
                      i \in {j \in Ids : f[j].state = "pending"}}
  BY SMTT(30) DEF RankedIn, RankEntry

\* The entry of one task, from IndexesMatchState.
LEMMA RankedNow ==
  ASSUME IndexesMatchState, NEW i \in Ids
  PROVE  Ranked(i)
  BY RankedAll DEF IndexesMatchState, Ranked, In

\* A task with a state has all the other fields too.
LEMMA WholeHash ==
  ASSUME NoPartialHash, NEW i \in Ids, task[i].state # None
  PROVE  /\ task[i].msg \in Message /\ task[i].state \in States
         /\ task[i].rank \in Ranks /\ task[i].member \in Nat
<1>1. task[i] # NoHash
  BY SMTT(30) DEF NoHash
<1> QED BY <1>1 DEF NoPartialHash

\* Requeue and a replay put the entry of the task back into pending_rank.
LEMMA RankedAgain ==
  ASSUME NEW i \in Ids, Ranked(i), ~In(i, "pending"),
         task'[i].state = "pending", task'[i].rank = task[i].rank,
         task'[i].member = task[i].member,
         pendingRank' = pendingRank
           \cup {RankEntry(i, task[i].rank, task[i].member)}
  PROVE  Ranked(i)'
<1>1. \A e \in pendingRank : e.id # i
  BY DEF Ranked, RankedIn, In
<1>2. RankEntry(i, task[i].rank, task[i].member).id = i
  BY DEF RankEntry
<1> QED BY <1>1, <1>2 DEF Ranked, RankedIn

\* A step on one task keeps the indexes of all others in place.
LEMMA OneTaskPlaced ==
  ASSUME IndexesMatchState, NEW i \in Ids, Others(i), Placed(i)', Ranked(i)',
         \A e \in pendingRank' : e.id \in Ids
  PROVE  IndexesMatchState'
<1>1. (\A j \in Ids : Placed(j))'
  BY SMTT(30) DEF IndexesMatchState, Others, Placed, In
<1>2. ASSUME NEW j \in Ids PROVE Ranked(j)'
  <2>1. CASE j # i
    <3>1. Ranked(j)
      BY RankedNow
    <3>2. \A e : e.id = j => (e \in pendingRank <=> e \in pendingRank')
      BY <2>1 DEF Others
    <3> QED BY SMTT(30), <3>1, <3>2, <2>1 DEF Ranked, RankedIn, Others, RankEntry
  <2> QED BY <2>1
<1>3. (pendingRank = {RankEntry(j, task[j].rank, task[j].member) :
                       j \in {k \in Ids : In(k, "pending")}})'
  BY <1>2, RankedAll DEF Ranked, In
<1> QED BY <1>1, <1>3 DEF IndexesMatchState

\* A step that gives no task a new owner and ends no claim.
LEMMA SameOwners ==
  ASSUME StoreTypeOK, ClaimResolvedOnce, OwnerHoldsMessage, issued' = issued,
         \A i \in Ids : /\ task'[i].attempt = task[i].attempt
                        /\ In(i, "active")' => /\ In(i, "active")
                                               /\ task'[i].msg = task[i].msg
  PROVE  ClaimResolvedOnce' /\ OwnerHoldsMessage'
<1>1. ClaimResolvedOnce'
  BY SMTT(30) DEF StoreTypeOK, ClaimResolvedOnce, Handles, Handle
<1>2. OwnerHoldsMessage'
  BY SMTT(30) DEF OwnerHoldsMessage, Handles
<1> QED BY <1>1, <1>2

-----------------------------------------------------------------------------
(* Claim. *)

\* Claim, with the task it takes.
ClaimOf(i, a, x) ==
  /\ In(i, "pending") /\ task[i].msg \in Message /\ issued[a] = None
  /\ task' = [task EXCEPT ![i].state = "active", ![i].attempt = a]
  /\ pendingRank' = pendingRank \ {RankEntry(i, task[i].rank, task[i].member)}
  /\ \A f \in pendingRank :
       Before(RankEntry(i, task[i].rank, task[i].member), f)
  /\ pending' = LRem(pending, {i})
  /\ active' = Push(active, {i})
  /\ lease' = ZAdd(lease, {i}, x)
  /\ UNCHANGED <<scheduled, retry, archived, sequence, replaying>>
  /\ issued' = [issued EXCEPT ![a] = [id |-> i, msg |-> task[i].msg,
                                      resolved |-> 0]]

\* The entry that Claim removes names a pending task, under its rank_member.
LEMMA ClaimTakesPending ==
  ASSUME Inv, NEW a \in Attempts, NEW x \in Times, Claim(a, x)
  PROVE  \E i \in Ids : ClaimOf(i, a, x)
<1>1. PICK e \in pendingRank :
        /\ \A f \in pendingRank : Before(e, f)
        /\ claimScript(e, a, x)
        /\ issued' = IF Names(e) /\ task[e.id].msg # None
                     THEN [issued EXCEPT ![a] = [id |-> e.id,
                                                 msg |-> task[e.id].msg,
                                                 resolved |-> 0]]
                     ELSE issued
  BY DEF Claim
<1>2. PICK i \in Ids : /\ In(i, "pending")
                       /\ e = RankEntry(i, task[i].rank, task[i].member)
  BY DEF Inv, IndexesMatchState
<1>3. e.id = i /\ e.seq = task[i].member
  BY <1>2 DEF RankEntry
<1>4. task[i].msg \in Message /\ task[i].msg # None
  BY SMTT(30), <1>2, StoreAssumption DEF Inv, NoPartialHash, NoHash, In, States
<1>5. issued[a] = None /\ UNCHANGED replaying
  BY DEF Claim
<1>6. ClaimOf(i, a, x)
  BY <1>1, <1>2, <1>3, <1>4, <1>5 DEF claimScript, ClaimOf, Names
<1> QED BY <1>6

\* Claim keeps it: the new owner is an attempt that was never issued.
LEMMA ClaimInv ==
  ASSUME Inv, NEW a \in Attempts, NEW x \in Times, Claim(a, x)
  PROVE  Inv'
<1>1. PICK i \in Ids : ClaimOf(i, a, x)
  BY ClaimTakesPending
<1>2. /\ task' \in [Ids -> Hash]
      /\ \A j \in Ids : j # i => task'[j] = task[j]
      /\ task'[i].state = "active" /\ task'[i].attempt = a
      /\ task'[i].msg = task[i].msg /\ task'[i].rank = task[i].rank
      /\ task'[i].member = task[i].member
  <2>1. /\ task \in [Ids -> Hash]
        /\ task' = [task EXCEPT ![i].state = "active", ![i].attempt = a]
    BY <1>1 DEF Inv, StoreTypeOK, ClaimOf
  <2> QED BY <2>1, HSetOwner
<1> USE StoreAssumption DEF ClaimOf
<1>3. /\ issued' \in [Attempts -> Handle \cup {None}]
      /\ \A b \in Attempts : b # a => issued'[b] = issued[b]
      /\ issued'[a] = [id |-> i, msg |-> task[i].msg, resolved |-> 0]
      /\ issued'[a] \in Handle
  BY SMTT(30), <1>1 DEF Inv, StoreTypeOK, Handle
<1>4. StoreTypeOK'
  BY SMTT(30), <1>1, <1>2, <1>3 DEF Inv, StoreTypeOK, Push, LRem, ZAdd
<1>5. NoPartialHash'
  BY SMTT(30), <1>1, <1>2 DEF Inv, NoPartialHash, NoHash, States, In
<1>6. Others(i)
  BY SMTT(30), <1>1, <1>2 DEF Inv, StoreTypeOK, Others, Push, LRem, ZAdd, RankEntry
<1>7. Placed(i)'
  BY SMTT(30), <1>1, <1>2
  DEF Inv, StoreTypeOK, IndexesMatchState, Placed, In, Push, LRem, ZAdd, Times
<1>8. Ranked(i)'
  <2>1. Ranked(i)
    BY RankedNow DEF Inv
  <2> QED BY <1>1, <1>2, <2>1 DEF Ranked, RankedIn, In
<1>9. IndexesMatchState'
  BY <1>4, <1>6, <1>7, <1>8, OneTaskPlaced DEF Inv, StoreTypeOK
<1>10. \A j \in Ids : task[j].attempt # a
  BY SMTT(30), <1>1 DEF Inv, OwnerHoldsMessage, IndexesMatchState, Placed, Handles
<1>11. ClaimResolvedOnce'
  <2> SUFFICES ASSUME NEW b \in Handles'
               PROVE  (issued[b].resolved =
                         IF task[issued[b].id].attempt = b THEN 0 ELSE 1)'
    BY DEF ClaimResolvedOnce
  <2>1. CASE b = a
    BY SMTT(30), <1>2, <1>3, <2>1
  <2>2. CASE b # a
    <3>1. b \in Handles /\ issued'[b] = issued[b] /\ issued[b].id \in Ids
      BY <1>3, <2>2 DEF Handles, Inv, StoreTypeOK, Handle
    <3>2. task[i].attempt = None /\ b # None
      BY <1>1, <3>1 DEF Inv, IndexesMatchState, Placed, In, Handles
    <3> QED BY SMTT(30), <1>2, <2>2, <3>1, <3>2 DEF Inv, ClaimResolvedOnce
  <2> QED BY <2>1, <2>2
<1>12. OwnerHoldsMessage'
  <2> SUFFICES ASSUME NEW j \in Ids, In(j, "active")'
               PROVE  /\ task'[j].attempt \in Handles'
                      /\ issued'[task'[j].attempt].id = j
                      /\ issued'[task'[j].attempt].msg = task'[j].msg
    BY DEF OwnerHoldsMessage
  <2>1. CASE j = i
    BY SMTT(30), <1>2, <1>3, <2>1 DEF Handles
  <2>2. CASE j # i
    <3>1. /\ task'[j] = task[j] /\ In(j, "active") /\ task[j].attempt # a
          /\ task[j].attempt \in Handles
      BY <1>2, <1>10, <2>2 DEF Inv, OwnerHoldsMessage, In
    <3>2. issued'[task[j].attempt] = issued[task[j].attempt]
      BY <1>3, <3>1 DEF Handles
    <3> QED BY SMTT(30), <3>1, <3>2 DEF Inv, OwnerHoldsMessage, Handles
  <2> QED BY <2>1, <2>2
<1> QED BY <1>4, <1>5, <1>9, <1>11, <1>12 DEF Inv

-----------------------------------------------------------------------------
(* The four scripts that end a claim. *)

Closes(i, a, m, st) ==
  /\ a \in Handles /\ i = issued[a].id
  /\ Owns(i, a)
  /\ Release(i, m, st)
  /\ Resolve(a)

\* What they share: the Hash, the active List, the lease, the owner.
Closed(i, m, st) ==
  /\ task' \in [Ids -> Hash]
  /\ issued' \in [Attempts -> Handle \cup {None}]
  /\ active' \in [Ids -> Nat] /\ lease' \in [Ids -> Times \cup {None}]
  /\ task'[i].state = st /\ task'[i].attempt = None
  /\ task'[i].msg = m /\ task'[i].rank = task[i].rank
  /\ task'[i].member = task[i].member
  /\ active'[i] = 0 /\ lease'[i] = None
  /\ \A j \in Ids : j # i => /\ task'[j] = task[j]
                             /\ active'[j] = active[j] /\ lease'[j] = lease[j]

\* What ack, retry, archive and requeue have in common: the owner's claim ends,
\* every other task and claim stays as it is.
LEMMA CloseShared ==
  ASSUME Inv, NEW a \in Attempts, NEW i \in Ids, NEW m \in Message,
         NEW st \in States \ {"active"}, Closes(i, a, m, st)
  PROVE  /\ Closed(i, m, st)
         /\ NoPartialHash' /\ ClaimResolvedOnce' /\ OwnerHoldsMessage'
<1>1. /\ task' \in [Ids -> Hash]
      /\ \A j \in Ids : j # i => task'[j] = task[j]
      /\ task'[i].state = st /\ task'[i].attempt = None
      /\ task'[i].msg = m /\ task'[i].rank = task[i].rank
      /\ task'[i].member = task[i].member
  <2>1. /\ task \in [Ids -> Hash]
        /\ task' = [task EXCEPT ![i].msg = m, ![i].state = st,
                                ![i].attempt = None]
    BY DEF Inv, StoreTypeOK, Closes, Release
  <2> QED BY <2>1, HSetClosed
<1> USE StoreAssumption
<1>2. /\ issued[a] \in Handle /\ issued[a].id = i
      /\ task[i].attempt = a /\ In(i, "active")
      /\ issued' = [issued EXCEPT ![a].resolved = @ + 1]
  BY DEF Inv, StoreTypeOK, Closes, Handles, Owns, In, Resolve
<1>3. /\ issued' \in [Attempts -> Handle \cup {None}]
      /\ \A b \in Attempts : b # a => issued'[b] = issued[b]
      /\ issued'[a].id = i /\ issued'[a].resolved = issued[a].resolved + 1
      /\ issued'[a] \in Handle
  BY SMTT(30), <1>2 DEF Inv, StoreTypeOK, Handle
<1>4. /\ active' \in [Ids -> Nat] /\ lease' \in [Ids -> Times \cup {None}]
      /\ active'[i] = 0 /\ lease'[i] = None
      /\ \A j \in Ids : j # i => active'[j] = active[j] /\ lease'[j] = lease[j]
  BY SMTT(30), <1>2 DEF Inv, StoreTypeOK, Closes, Release, LRem, ZRem,
              IndexesMatchState, Placed
<1>5. NoPartialHash'
  BY SMTT(30), <1>1, <1>2 DEF Inv, NoPartialHash, NoHash, States, In
<1>6. ClaimResolvedOnce'
  <2> SUFFICES ASSUME NEW b \in Handles'
               PROVE  (issued[b].resolved =
                         IF task[issued[b].id].attempt = b THEN 0 ELSE 1)'
    BY DEF ClaimResolvedOnce
  <2>1. CASE b = a
    <3>1. issued[a].resolved = 0
      BY <1>2 DEF Inv, ClaimResolvedOnce, Closes
    <3> QED BY SMTT(30), <1>1, <1>2, <1>3, <2>1, <3>1
  <2>2. CASE b # a
    <3>1. b \in Handles /\ issued'[b] = issued[b] /\ issued[b].id \in Ids
      BY <1>3, <2>2 DEF Handles, Inv, StoreTypeOK, Handle
    <3>2. b # None
      BY <3>1 DEF Handles
    <3> QED BY SMTT(30), <1>1, <1>2, <2>2, <3>1, <3>2 DEF Inv, ClaimResolvedOnce
  <2> QED BY <2>1, <2>2
<1>7. OwnerHoldsMessage'
  <2> SUFFICES ASSUME NEW j \in Ids, In(j, "active")'
               PROVE  /\ task'[j].attempt \in Handles'
                      /\ issued'[task'[j].attempt].id = j
                      /\ issued'[task'[j].attempt].msg = task'[j].msg
    BY DEF OwnerHoldsMessage
  <2>1. j # i /\ task'[j] = task[j]
    BY <1>1 DEF In
  <2>2. /\ In(j, "active") /\ task[j].attempt \in Handles
        /\ issued[task[j].attempt].id = j
        /\ issued[task[j].attempt].msg = task[j].msg
    BY <2>1 DEF Inv, OwnerHoldsMessage, In
  <2>3. task[j].attempt # a
    BY <1>2, <2>1, <2>2
  <2> QED BY <1>3, <2>1, <2>2, <2>3 DEF Handles
<1>8. Closed(i, m, st)
  BY <1>1, <1>3, <1>4 DEF Closed
<1> QED BY <1>5, <1>6, <1>7, <1>8

\* AckSuccess keeps the invariant.
LEMMA AckInv ==
  ASSUME Inv, NEW a \in Attempts, AckSuccess(a)
  PROVE  Inv'
<1>1. PICK i \in Ids : i = issued[a].id
  BY StoreAssumption DEF Inv, StoreTypeOK, AckSuccess, Handles, Handle
<1>2. issued[a].msg \in Message /\ "completed" \in States \ {"active"}
  BY StoreAssumption DEF Inv, StoreTypeOK, AckSuccess, Handles, Handle, States
<1>3. Closes(i, a, issued[a].msg, "completed")
  BY <1>1 DEF AckSuccess, ackScript, Closes
<1>4. UNCHANGED <<pending, pendingRank, scheduled, retry, archived, sequence,
                  replaying>>
  BY DEF AckSuccess, ackScript, Resolve
<1>5. /\ Closed(i, issued[a].msg, "completed")
      /\ NoPartialHash' /\ ClaimResolvedOnce' /\ OwnerHoldsMessage'
  BY <1>2, <1>3, CloseShared
<1>6. StoreTypeOK'
  BY <1>4, <1>5 DEF Inv, StoreTypeOK, Closed
<1>7. In(i, "active") /\ Placed(i) /\ Ranked(i)
  BY <1>3, RankedNow DEF Inv, IndexesMatchState, Closes, Owns, In
<1>8. Others(i)
  BY <1>4, <1>5 DEF Others, Closed
<1>9. Placed(i)'
  BY <1>4, <1>5, <1>7 DEF Placed, In, Closed
<1>10. Ranked(i)'
  BY <1>4, <1>5, <1>7 DEF Ranked, RankedIn, In, Closed
<1>11. IndexesMatchState'
  BY <1>6, <1>8, <1>9, <1>10, OneTaskPlaced DEF Inv, StoreTypeOK
<1> QED BY <1>5, <1>6, <1>11 DEF Inv

\* ScheduleRetry keeps the invariant.
LEMMA RetryInv ==
  ASSUME Inv, NEW a \in Attempts, NEW at \in Times, ScheduleRetry(a, at)
  PROVE  Inv'
<1>1. PICK i \in Ids : i = issued[a].id
  BY StoreAssumption DEF Inv, StoreTypeOK, ScheduleRetry, Handles, Handle
<1>2. Retried(issued[a].msg) \in Message /\ "retry" \in States \ {"active"}
  <2>1. issued[a].msg \in Message
    BY StoreAssumption DEF Inv, StoreTypeOK, ScheduleRetry, Handles, Handle
  <2> QED BY SMTT(30), <2>1 DEF Retried, Message, States
<1>3. Closes(i, a, Retried(issued[a].msg), "retry")
  BY <1>1 DEF ScheduleRetry, retryScript, Closes
<1>4. /\ UNCHANGED <<pending, pendingRank, scheduled, archived, sequence,
                     replaying>>
      /\ retry' = ZAdd(retry, {i}, at)
  BY <1>1 DEF ScheduleRetry, retryScript, Resolve
<1>5. /\ Closed(i, Retried(issued[a].msg), "retry")
      /\ NoPartialHash' /\ ClaimResolvedOnce' /\ OwnerHoldsMessage'
  BY <1>2, <1>3, CloseShared
<1>6. StoreTypeOK'
  BY <1>4, <1>5 DEF Inv, StoreTypeOK, Closed, ZAdd
<1>7. In(i, "active") /\ Placed(i) /\ Ranked(i)
  BY <1>3, RankedNow DEF Inv, IndexesMatchState, Closes, Owns, In
<1>8. Others(i)
  BY <1>4, <1>5 DEF Others, Closed, ZAdd
<1>9. Placed(i)'
  <2>1. retry'[i] = at /\ at # None
    BY SMTT(30), <1>4, StoreAssumption DEF ZAdd, Times
  <2>2. pending[i] = 0 /\ scheduled[i] = None /\ archived[i] = None
    BY <1>7 DEF Placed, In
  <2>3. pending'[i] = 0 /\ scheduled'[i] = None /\ archived'[i] = None
    BY <1>4, <2>2
  <2> QED BY <1>5, <2>1, <2>3 DEF Placed, In, Closed
<1>10. Ranked(i)'
  BY <1>4, <1>5, <1>7 DEF Ranked, RankedIn, In, Closed
<1>11. IndexesMatchState'
  BY <1>6, <1>8, <1>9, <1>10, OneTaskPlaced DEF Inv, StoreTypeOK
<1> QED BY <1>5, <1>6, <1>11 DEF Inv

\* Archive keeps the invariant.
LEMMA ArchiveInv ==
  ASSUME Inv, NEW a \in Attempts, Archive(a)
  PROVE  Inv'
<1>1. PICK i \in Ids : i = issued[a].id
  BY StoreAssumption DEF Inv, StoreTypeOK, Archive, Handles, Handle
<1>2. issued[a].msg \in Message /\ "archived" \in States \ {"active"}
  BY StoreAssumption DEF Inv, StoreTypeOK, Archive, Handles, Handle, States
<1>3. Closes(i, a, issued[a].msg, "archived")
  BY <1>1 DEF Archive, archiveScript, Closes
<1>4. /\ UNCHANGED <<pending, pendingRank, scheduled, retry, sequence,
                     replaying>>
      /\ archived' = ZAdd(archived, {i}, 0)
  BY <1>1 DEF Archive, archiveScript, Resolve
<1>5. /\ Closed(i, issued[a].msg, "archived")
      /\ NoPartialHash' /\ ClaimResolvedOnce' /\ OwnerHoldsMessage'
  BY <1>2, <1>3, CloseShared
<1>6. StoreTypeOK'
  BY SMTT(30), <1>4, <1>5, StoreAssumption DEF Inv, StoreTypeOK, Closed, ZAdd, Times
<1>7. In(i, "active") /\ Placed(i) /\ Ranked(i)
  BY <1>3, RankedNow DEF Inv, IndexesMatchState, Closes, Owns, In
<1>8. Others(i)
  BY <1>4, <1>5 DEF Others, Closed, ZAdd
<1>9. Placed(i)'
  <2>1. archived'[i] = 0 /\ 0 # None
    BY SMTT(30), <1>4, StoreAssumption DEF ZAdd, Times
  <2>2. pending[i] = 0 /\ scheduled[i] = None /\ retry[i] = None
    BY <1>7 DEF Placed, In
  <2>3. pending'[i] = 0 /\ scheduled'[i] = None /\ retry'[i] = None
    BY <1>4, <2>2
  <2> QED BY <1>5, <2>1, <2>3 DEF Placed, In, Closed
<1>10. Ranked(i)'
  BY <1>4, <1>5, <1>7 DEF Ranked, RankedIn, In, Closed
<1>11. IndexesMatchState'
  BY <1>6, <1>8, <1>9, <1>10, OneTaskPlaced DEF Inv, StoreTypeOK
<1> QED BY <1>5, <1>6, <1>11 DEF Inv

\* Requeue keeps the invariant: the task is pending under its own entry again.
LEMMA RequeueInv ==
  ASSUME Inv, NEW a \in Attempts, Requeue(a)
  PROVE  Inv'
<1>1. PICK i \in Ids : i = issued[a].id
  BY StoreAssumption DEF Inv, StoreTypeOK, Requeue, Handles, Handle
<1>2. /\ In(i, "active") /\ task[i].msg \in Message
      /\ task[i].rank \in Ranks /\ task[i].member \in Nat
      /\ "pending" \in States \ {"active"}
  BY SMTT(30), <1>1, StoreAssumption
  DEF Inv, NoPartialHash, NoHash, Requeue, requeueScript, Owns, In, States
<1>3. Closes(i, a, task[i].msg, "pending")
  BY <1>1 DEF Requeue, requeueScript, Closes
<1>4. /\ UNCHANGED <<scheduled, retry, archived, sequence, replaying>>
      /\ pending' = Push(pending, {i})
      /\ pendingRank' = pendingRank
           \cup {RankEntry(i, task[i].rank, task[i].member)}
  BY <1>1 DEF Requeue, requeueScript, Resolve, ToPending, RankAdd
<1>5. /\ Closed(i, task[i].msg, "pending")
      /\ NoPartialHash' /\ ClaimResolvedOnce' /\ OwnerHoldsMessage'
  BY <1>2, <1>3, CloseShared
<1>6. StoreTypeOK'
  <2>1. pending' \in [Ids -> Nat]
    BY SMTT(30), <1>4 DEF Inv, StoreTypeOK, Push
  <2>2. \A e \in pendingRank' : e \in [score : Ranks, seq : Nat, id : Ids]
    BY SMTT(30), <1>2, <1>4 DEF Inv, StoreTypeOK, RankEntry
  <2> QED BY <1>4, <1>5, <2>1, <2>2 DEF Inv, StoreTypeOK, Closed
<1>7. Placed(i) /\ Ranked(i)
  BY RankedNow DEF Inv, IndexesMatchState
<1>8. Others(i)
  BY SMTT(30), <1>4, <1>5 DEF Inv, StoreTypeOK, Others, Closed, Push, RankEntry
<1>9. Placed(i)'
  <2>1. /\ pending[i] = 0 /\ scheduled[i] = None /\ retry[i] = None
        /\ archived[i] = None
    BY <1>2, <1>7 DEF Placed, In
  <2>2. /\ pending'[i] = 1 /\ scheduled'[i] = None /\ retry'[i] = None
        /\ archived'[i] = None
    BY SMTT(30), <1>4, <2>1 DEF Push
  <2> QED BY <1>5, <2>2 DEF Placed, In, Closed
<1>10. Ranked(i)'
  <2>1. ~In(i, "pending")
    BY <1>2 DEF In
  <2> QED BY <1>4, <1>5, <1>7, <2>1, RankedAgain DEF Closed
<1>11. IndexesMatchState'
  BY <1>6, <1>8, <1>9, <1>10, OneTaskPlaced DEF Inv, StoreTypeOK
<1> QED BY <1>5, <1>6, <1>11 DEF Inv

-----------------------------------------------------------------------------
(* The initial state, and the methods that neither begin nor end a claim. *)

\* An empty Redis satisfies the invariant.
LEMMA InitInv == StoreInit => Inv
<1> SUFFICES ASSUME StoreInit PROVE Inv
  OBVIOUS
<1> USE StoreAssumption DEF StoreInit, NoHash
<1>1. StoreTypeOK
  BY SMTT(30) DEF StoreTypeOK, Hash, Times
<1>2. NoPartialHash
  BY DEF NoPartialHash
<1>3. IndexesMatchState
  BY DEF IndexesMatchState, Placed, In, States
<1>4. ClaimResolvedOnce /\ OwnerHoldsMessage
  BY DEF ClaimResolvedOnce, OwnerHoldsMessage, Handles, In, States
<1> QED BY <1>1, <1>2, <1>3, <1>4 DEF Inv

\* Enqueue keeps it: the task is new, and so is its sequence number.
LEMMA EnqueueInv ==
  ASSUME Inv, NEW i \in Ids, NEW m \in Message, NEW r \in Ranks,
         Enqueue(i, m, r)
  PROVE  Inv'
<1> USE StoreAssumption DEF Inv, Enqueue, enqueueScript
<1>1. StoreTypeOK'
  BY SMTT(30) DEF StoreTypeOK, Times, Push, RankEntry, Hash, States
<1>2. NoPartialHash'
  BY SMTT(30) DEF StoreTypeOK, NoPartialHash, Hash, States
<1>3. ~In(i, "active") /\ task[i].attempt = None /\ ~In(i, "pending")
  BY DEF Exists, In, States, IndexesMatchState, Placed
<1>4. task'[i] = [msg |-> m, state |-> "pending", rank |-> r,
                 member |-> sequence + 1, attempt |-> None]
  BY DEF StoreTypeOK
<1>5. Others(i)
  BY SMTT(30) DEF Others, StoreTypeOK, Push, RankEntry
<1>6. Placed(i)'
  BY SMTT(30), <1>3, <1>4
  DEF StoreTypeOK, IndexesMatchState, Placed, In, Exists, Push, States
<1>7. Ranked(i)'
  <2>1. Ranked(i)
    BY RankedNow
  <2> QED BY SMTT(30), <1>3, <1>4, <2>1 DEF Ranked, RankedIn, RankEntry, In
<1>8. IndexesMatchState'
  BY SMTT(30), <1>1, <1>5, <1>6, <1>7, OneTaskPlaced DEF StoreTypeOK
<1>9. ClaimResolvedOnce' /\ OwnerHoldsMessage'
  BY SMTT(30), <1>3, <1>4, <1>5, SameOwners DEF Others, In
<1> QED BY <1>1, <1>2, <1>8, <1>9

\* Schedule keeps it.
LEMMA ScheduleInv ==
  ASSUME Inv, NEW i \in Ids, NEW m \in Message, NEW r \in Ranks,
         NEW at \in Times, Schedule(i, m, r, at)
  PROVE  Inv'
<1> USE StoreAssumption DEF Inv, Schedule, scheduleScript
<1>1. StoreTypeOK'
  BY SMTT(30) DEF StoreTypeOK, Times, ZAdd, Hash, States
<1>2. NoPartialHash'
  BY SMTT(30) DEF StoreTypeOK, NoPartialHash, Hash, States
<1>3. ~In(i, "active") /\ task[i].attempt = None /\ ~In(i, "pending")
  BY DEF Exists, In, States, IndexesMatchState, Placed
<1>4. task'[i] = [msg |-> m, state |-> "scheduled", rank |-> r,
                 member |-> sequence + 1, attempt |-> None]
  BY DEF StoreTypeOK
<1>5. Others(i)
  BY DEF Others, StoreTypeOK, ZAdd
<1>6. Placed(i)'
  BY SMTT(30), <1>3, <1>4
  DEF StoreTypeOK, IndexesMatchState, Placed, In, Exists, ZAdd, States, Times
<1>7. Ranked(i)'
  <2>1. Ranked(i)
    BY RankedNow
  <2> QED BY SMTT(30), <1>3, <1>4, <2>1 DEF Ranked, RankedIn, In
<1>8. IndexesMatchState'
  BY SMTT(30), <1>1, <1>5, <1>6, <1>7, OneTaskPlaced DEF StoreTypeOK
<1>9. ClaimResolvedOnce' /\ OwnerHoldsMessage'
  BY SMTT(30), <1>3, <1>4, <1>5, SameOwners DEF Others, In
<1> QED BY <1>1, <1>2, <1>8, <1>9

-----------------------------------------------------------------------------
(* Dead letters. *)

\* The first round trip of a replay reads a whole message.
LEMMA GetDeadLetterInv ==
  ASSUME Inv, NEW d \in Admins, NEW i \in Ids, GetDeadLetter(d, i)
  PROVE  Inv'
<1>1. task[i].msg \in Message
  <2>1. task[i].state # None
    BY StoreAssumption DEF GetDeadLetter, States
  <2> QED BY <2>1, WholeHash DEF Inv
<1>2. /\ UNCHANGED redis /\ UNCHANGED issued
      /\ replaying' = [replaying EXCEPT ![d] = [id |-> i, msg |-> task[i].msg]]
  BY DEF GetDeadLetter
<1>3. StoreTypeOK'
  BY <1>1, <1>2 DEF Inv, StoreTypeOK, redis, DeadLetter
<1>4. (NoPartialHash /\ IndexesMatchState)'
  BY SMTT(30), <1>2 DEF Inv, redis, NoPartialHash, IndexesMatchState, Placed, In
<1>5. (ClaimResolvedOnce /\ OwnerHoldsMessage)'
  BY <1>2 DEF Inv, redis, ClaimResolvedOnce, OwnerHoldsMessage, Handles, In
<1> QED BY <1>3, <1>4, <1>5 DEF Inv

\* HSET msg and state changes those fields of one Hash.
LEMMA HSetPending ==
  ASSUME task \in [Ids -> Hash], NEW i \in Ids, NEW m \in Message,
         task' = [task EXCEPT ![i].msg = m, ![i].state = "pending"]
  PROVE  /\ task' \in [Ids -> Hash]
         /\ \A j \in Ids : j # i => task'[j] = task[j]
         /\ task'[i].state = "pending" /\ task'[i].attempt = task[i].attempt
         /\ task'[i].msg = m /\ task'[i].rank = task[i].rank
         /\ task'[i].member = task[i].member
<1>1. task' \in [Ids -> Hash]
  <2>1. [task[i] EXCEPT !.msg = m, !.state = "pending"] \in Hash
    BY DEF Hash, States
  <2>2. task' = [task EXCEPT ![i] = [task[i] EXCEPT !.msg = m,
                                                    !.state = "pending"]]
    OBVIOUS
  <2> QED BY <2>1, <2>2
<1>2. \A j \in Ids : j # i => task'[j] = task[j]
  BY DEF Hash
<1>3. task'[i].state = "pending" /\ task'[i].attempt = task[i].attempt
  BY DEF Hash
<1>4. /\ task'[i].msg = m /\ task'[i].rank = task[i].rank
      /\ task'[i].member = task[i].member
  BY SMTT(30) DEF Hash
<1> QED BY <1>1, <1>2, <1>3, <1>4

\* The second round trip of a replay keeps the invariant.
LEMMA ReplayInv ==
  ASSUME Inv, NEW d \in Admins, ReplayDeadLetter(d)
  PROVE  Inv'
<1> DEFINE m == [replaying[d].msg EXCEPT !.retryCount = 0]
<1>1. PICK i \in Ids : i = replaying[d].id
  BY StoreAssumption DEF Inv, StoreTypeOK, ReplayDeadLetter, DeadLetter
<1>2. m \in Message
  <2>1. replaying[d].msg \in Message
    BY StoreAssumption DEF Inv, StoreTypeOK, ReplayDeadLetter, DeadLetter
  <2> QED BY <2>1 DEF Message
<1>3. /\ issued' = issued
      /\ replaying' = [replaying EXCEPT ![d] = None]
      /\ replayArchivedScript(i, m) \/ UNCHANGED redis
  BY <1>1 DEF ReplayDeadLetter
<1> HIDE DEF m
<1>4. CASE UNCHANGED redis
  <2>1. StoreTypeOK'
    BY <1>3, <1>4 DEF Inv, StoreTypeOK, redis
  <2>2. (NoPartialHash /\ IndexesMatchState)'
    BY SMTT(30), <1>4 DEF Inv, redis, NoPartialHash, IndexesMatchState, Placed, In
  <2>3. (ClaimResolvedOnce /\ OwnerHoldsMessage)'
    BY <1>3, <1>4
    DEF Inv, redis, ClaimResolvedOnce, OwnerHoldsMessage, Handles, In
  <2> QED BY <2>1, <2>2, <2>3 DEF Inv
<1>5. CASE replayArchivedScript(i, m)
  <2>1. /\ task' \in [Ids -> Hash]
        /\ \A j \in Ids : j # i => task'[j] = task[j]
        /\ task'[i].state = "pending" /\ task'[i].attempt = task[i].attempt
        /\ task'[i].msg = m /\ task'[i].rank = task[i].rank
        /\ task'[i].member = task[i].member
    <3>1. /\ task \in [Ids -> Hash]
          /\ task' = [task EXCEPT ![i].msg = m, ![i].state = "pending"]
      BY <1>5 DEF Inv, StoreTypeOK, replayArchivedScript
    <3> QED BY <1>2, <3>1, HSetPending
  <2>2. /\ In(i, "archived") /\ archived' = ZRem(archived, {i})
        /\ UNCHANGED <<scheduled, retry, active, lease, sequence>>
        /\ pending' = Push(pending, {i})
        /\ pendingRank' = pendingRank
             \cup {RankEntry(i, task[i].rank, task[i].member)}
    BY <1>5 DEF replayArchivedScript, ToPending, RankAdd, In
  <2>3. task[i].rank \in Ranks /\ task[i].member \in Nat
    <3>1. task[i].state # None
      BY <2>2, StoreAssumption DEF In, States
    <3> QED BY <3>1, WholeHash DEF Inv
  <2>4. StoreTypeOK'
    <3>1. pending' \in [Ids -> Nat] /\ archived' \in [Ids -> Times \cup {None}]
      BY SMTT(30), <2>2 DEF Inv, StoreTypeOK, Push, ZRem
    <3>2. \A e \in pendingRank' : e \in [score : Ranks, seq : Nat, id : Ids]
      BY SMTT(30), <2>2, <2>3 DEF Inv, StoreTypeOK, RankEntry
    <3> QED BY <1>3, <2>1, <2>2, <3>1, <3>2 DEF Inv, StoreTypeOK
  <2>5. NoPartialHash'
    BY SMTT(30), <1>2, <2>1, <2>2, <2>3, StoreAssumption
    DEF Inv, NoPartialHash, NoHash, In, States
  <2>6. Placed(i) /\ Ranked(i)
    BY RankedNow DEF Inv, IndexesMatchState
  <2>7. Others(i)
    <3>1. \A j \in Ids : j # i => /\ pending'[j] = pending[j]
                                  /\ archived'[j] = archived[j]
      BY <2>2 DEF Push, ZRem
    <3>2. \A e \in pendingRank' : e.id # i => e \in pendingRank
      BY SMTT(30), <2>2 DEF RankEntry
    <3> QED BY <2>1, <2>2, <3>1, <3>2 DEF Others
  <2>8. Placed(i)'
    <3>1. /\ pending[i] = 0 /\ scheduled[i] = None /\ retry[i] = None
          /\ active[i] = 0 /\ lease[i] = None
      BY <2>2, <2>6 DEF Placed, In
    <3>2. pending'[i] = 1 /\ archived'[i] = None
      BY SMTT(30), <2>2, <3>1 DEF Push, ZRem
    <3> QED BY <2>1, <2>2, <2>6, <3>1, <3>2 DEF Placed, In
  <2>9. Ranked(i)'
    <3>1. ~In(i, "pending")
      BY <2>2 DEF In
    <3> QED BY <2>1, <2>2, <2>6, <3>1, RankedAgain
  <2>10. IndexesMatchState'
    BY <2>4, <2>7, <2>8, <2>9, OneTaskPlaced DEF Inv, StoreTypeOK
  <2>11. ClaimResolvedOnce' /\ OwnerHoldsMessage'
    BY <1>3, <2>1, SameOwners DEF Inv, In
  <2> QED BY <2>4, <2>5, <2>10, <2>11 DEF Inv
<1> QED BY <1>3, <1>4, <1>5

\* DeleteDeadLetter keeps the invariant: an archived task has no owner.
LEMMA DeleteInv ==
  ASSUME Inv, NEW i \in Ids, DeleteDeadLetter(i)
  PROVE  Inv'
<1> USE StoreAssumption
<1>1. /\ In(i, "archived") /\ archived' = ZRem(archived, {i})
      /\ task' = [task EXCEPT ![i] = NoHash]
      /\ UNCHANGED <<pending, pendingRank, scheduled, retry, active, lease,
                     sequence, issued, replaying>>
  BY DEF DeleteDeadLetter, deleteArchivedScript, In
<1>2. /\ task'[i] = NoHash
      /\ \A j \in Ids : j # i => task'[j] = task[j]
  BY <1>1 DEF Inv, StoreTypeOK
<1>3. StoreTypeOK'
  BY <1>1 DEF Inv, StoreTypeOK, ZRem, Hash, NoHash
<1>4. NoPartialHash'
  BY <1>2 DEF Inv, NoPartialHash
<1>5. Placed(i) /\ Ranked(i)
  BY RankedNow DEF Inv, IndexesMatchState
<1>6. Others(i)
  BY <1>1, <1>2 DEF Inv, StoreTypeOK, Others, ZRem
<1>7. Placed(i)'
  BY SMTT(30), <1>1, <1>2, <1>5 DEF Placed, In, ZRem, NoHash, States
<1>8. Ranked(i)'
  <2>1. task[i].state # "pending" /\ task'[i].state # "pending"
    BY SMTT(30), <1>1, <1>2 DEF In, NoHash, States
  <2> QED BY <1>1, <1>5, <2>1 DEF Ranked, RankedIn
<1>9. IndexesMatchState'
  BY <1>3, <1>6, <1>7, <1>8, OneTaskPlaced DEF Inv, StoreTypeOK
<1>10. task[i].attempt = None /\ task'[i].attempt = None /\ ~In(i, "active")'
  BY SMTT(30), <1>1, <1>2, <1>5 DEF Placed, In, NoHash, States
<1>11. ClaimResolvedOnce' /\ OwnerHoldsMessage'
  BY <1>1, <1>2, <1>10, SameOwners DEF Inv, In
<1> QED BY <1>3, <1>4, <1>9, <1>11 DEF Inv

\* CleanupDeadLetters keeps the invariant.
LEMMA CleanupInv ==
  ASSUME Inv, NEW age \in Times, CleanupDeadLetters(age)
  PROVE  Inv'
<1> USE StoreAssumption
<1>1. PICK M \in SUBSET Ids :
        /\ \A i \in M : In(i, "archived")
        /\ archived' = ZRem(archived, M)
        /\ task' = [i \in Ids |-> IF i \in M THEN NoHash ELSE task[i]]
        /\ UNCHANGED <<pending, pendingRank, scheduled, retry, active, lease,
                       sequence, issued, replaying>>
  BY DEF CleanupDeadLetters, cleanupArchivedScript, Batch, In
<1>2. StoreTypeOK'
  BY <1>1 DEF Inv, StoreTypeOK, ZRem, Hash, NoHash
<1>3. NoPartialHash'
  BY <1>1 DEF Inv, NoPartialHash
<1>4. ASSUME NEW j \in Ids PROVE Placed(j)'
  <2>1. Placed(j)
    BY DEF Inv, IndexesMatchState
  <2> QED BY <1>1, <2>1 DEF Placed, In, ZRem, NoHash, States
<1>5. \A j \in Ids : task'[j].state = "pending" <=> In(j, "pending")
  BY <1>1 DEF In, NoHash, States
<1>6. \A j \in Ids : In(j, "pending") => task'[j] = task[j]
  BY <1>1 DEF In
<1>7. IndexesMatchState'
  BY <1>1, <1>4, <1>5, <1>6 DEF Inv, IndexesMatchState, In
<1>8. \A j \in Ids : /\ task'[j].attempt = task[j].attempt
                     /\ In(j, "active")' => /\ In(j, "active")
                                            /\ task'[j].msg = task[j].msg
  <2> SUFFICES ASSUME NEW j \in Ids
               PROVE  /\ task'[j].attempt = task[j].attempt
                      /\ In(j, "active")' => /\ In(j, "active")
                                             /\ task'[j].msg = task[j].msg
    OBVIOUS
  <2>1. Placed(j)
    BY DEF Inv, IndexesMatchState
  <2> QED BY <1>1, <2>1 DEF Placed, In, NoHash, States
<1>9. ClaimResolvedOnce' /\ OwnerHoldsMessage'
  BY <1>1, <1>8, SameOwners DEF Inv
<1> QED BY <1>2, <1>3, <1>7, <1>9 DEF Inv

-----------------------------------------------------------------------------
(* Time: MoveReady, leases and the clock. *)

\* MoveReady, with the set of tasks it moves.
MoveReadyOf(M, source) ==
  /\ \A i \in M : In(i, source)
  /\ task' = [i \in Ids |-> IF i \in M
                            THEN [task[i] EXCEPT !.state = "pending"]
                            ELSE task[i]]
  /\ pending' = Push(pending, M)
  /\ pendingRank' = RankAdd(M)
  /\ scheduled' = IF source = "scheduled" THEN ZRem(scheduled, M)
                                          ELSE scheduled
  /\ retry' = IF source = "retry" THEN ZRem(retry, M) ELSE retry
  /\ UNCHANGED <<active, lease, archived, sequence, issued, replaying>>

\* MoveReady takes a set of tasks from one waiting state to pending.
LEMMA MoveReadyMoves ==
  ASSUME Inv, NEW source \in {"scheduled", "retry"}, NEW now \in Times,
         MoveReady(source, now)
  PROVE  \E M \in SUBSET Ids : MoveReadyOf(M, source)
<1> DEFINE z == IF source = "scheduled" THEN scheduled ELSE retry
<1>1. PICK M \in Batch(Due(z, now), z) :
        /\ task' = [i \in Ids |-> IF i \in M
                                  THEN [task[i] EXCEPT !.state = "pending"]
                                  ELSE task[i]]
        /\ ToPending(M)
        /\ scheduled' = IF source = "scheduled" THEN ZRem(scheduled, M)
                                                ELSE scheduled
        /\ retry' = IF source = "retry" THEN ZRem(retry, M) ELSE retry
        /\ UNCHANGED <<active, lease, archived, sequence>>
  BY DEF MoveReady, moveReadyScript
<1>2. \A i \in M : i \in Ids /\ z[i] # None
  BY DEF Batch, Due
<1>3. \A i \in M : In(i, source)
  BY <1>2 DEF Inv, IndexesMatchState, Placed
<1>4. UNCHANGED <<issued, replaying>>
  BY DEF MoveReady
<1>5. MoveReadyOf(M, source)
  BY <1>1, <1>3, <1>4 DEF MoveReadyOf, ToPending
<1> QED BY <1>2, <1>5

\* MoveReady keeps the invariant.
LEMMA MoveReadyInv ==
  ASSUME Inv, NEW source \in {"scheduled", "retry"}, NEW now \in Times,
         MoveReady(source, now)
  PROVE  Inv'
<1> USE StoreAssumption
<1>1. PICK M \in SUBSET Ids : MoveReadyOf(M, source)
  BY MoveReadyMoves
<1>2. ASSUME NEW j \in Ids
      PROVE  /\ task'[j] \in Hash
             /\ task'[j].state = IF j \in M THEN "pending" ELSE task[j].state
             /\ task'[j].msg = task[j].msg /\ task'[j].rank = task[j].rank
             /\ task'[j].member = task[j].member
             /\ task'[j].attempt = task[j].attempt
             /\ j \notin M => task'[j] = task[j]
  <2>1. task[j] \in Hash
    BY DEF Inv, StoreTypeOK
  <2>2. CASE j \in M
    BY <1>1, <2>1, <2>2 DEF MoveReadyOf, Hash, States
  <2>3. CASE j \notin M
    BY <1>1, <2>1, <2>3 DEF MoveReadyOf
  <2> QED BY <2>2, <2>3
<1>3. \A j \in M : task[j].rank \in Ranks /\ task[j].member \in Nat
  BY SMTT(30), <1>1 DEF Inv, NoPartialHash, NoHash, MoveReadyOf, In, States
<1>4. StoreTypeOK'
  <2>1. task' \in [Ids -> Hash]
    BY <1>1, <1>2 DEF MoveReadyOf
  <2> QED BY SMTT(30), <1>1, <1>3, <2>1
          DEF MoveReadyOf, Inv, StoreTypeOK, ZRem, Push, RankAdd, RankEntry
<1>5. NoPartialHash'
  BY SMTT(30), <1>1, <1>2 DEF Inv, NoPartialHash, NoHash, MoveReadyOf, In, States
<1>6. ASSUME NEW j \in Ids PROVE Placed(j)'
  <2>1. Placed(j)
    BY DEF Inv, IndexesMatchState
  <2>2. CASE j \in M
    <3>1. /\ task'[j].state = "pending" /\ task[j].state = source
          /\ task'[j].attempt = task[j].attempt
      BY <1>1, <1>2, <2>2 DEF MoveReadyOf, In
    <3>2. pending'[j] = 1 /\ UNCHANGED <<active, lease, archived>>
      BY SMTT(30), <1>1, <2>1, <2>2, <3>1
      DEF MoveReadyOf, Inv, StoreTypeOK, Placed, In, Push
    <3>3. scheduled'[j] = None /\ retry'[j] = None
      BY <1>1, <2>1, <2>2, <3>1 DEF MoveReadyOf, Placed, In, ZRem
    <3> QED BY <2>1, <3>1, <3>2, <3>3 DEF Placed, In
  <2>3. CASE j \notin M
    BY <1>1, <1>2, <2>1, <2>3 DEF MoveReadyOf, Placed, In, ZRem, Push
  <2> QED BY <2>2, <2>3
<1>7. (pendingRank = {RankEntry(j, task[j].rank, task[j].member) :
                       j \in {k \in Ids : In(k, "pending")}})'
  BY SMTT(30), <1>1, <1>2 DEF MoveReadyOf, Inv, IndexesMatchState, In, RankAdd
<1>8. ClaimResolvedOnce' /\ OwnerHoldsMessage'
  <2>1. \A j \in Ids : In(j, "active")' => In(j, "active")
    BY <1>2 DEF In
  <2> QED BY <1>1, <1>2, <2>1, SameOwners DEF Inv, MoveReadyOf
<1> QED BY <1>4, <1>5, <1>6, <1>7, <1>8 DEF Inv, IndexesMatchState

\* A step that changes scores only, and no member of a ZSET.
LEMMA ScoresOnly ==
  ASSUME Inv, StoreTypeOK',
         UNCHANGED <<task, pending, pendingRank, active, issued>>,
         \A i \in Ids : /\ scheduled'[i] # None <=> scheduled[i] # None
                        /\ retry'[i] # None <=> retry[i] # None
                        /\ lease'[i] # None <=> lease[i] # None
                        /\ archived'[i] # None <=> archived[i] # None
  PROVE  Inv'
<1>1. NoPartialHash'
  BY DEF Inv, NoPartialHash
<1>2. IndexesMatchState'
  BY SMTT(30) DEF Inv, IndexesMatchState, Placed, In
<1>3. (ClaimResolvedOnce /\ OwnerHoldsMessage)'
  BY DEF Inv, ClaimResolvedOnce, OwnerHoldsMessage, Handles, In
<1> QED BY <1>1, <1>2, <1>3 DEF Inv

\* ExtendLease changes scores of active tasks only.
LEMMA ExtendLeaseInv ==
  ASSUME Inv, NEW S \in SUBSET Handles, NEW x \in Times, ExtendLease(S, x)
  PROVE  Inv'
<1> USE StoreAssumption DEF ExtendLease, extendLeaseScript
<1>1. \A i \in Ids : lease'[i] # None <=> lease[i] # None
  BY SMTT(30) DEF Inv, IndexesMatchState, Placed, In, Owns, Times
<1>2. StoreTypeOK'
  BY DEF Inv, StoreTypeOK
<1> QED BY <1>1, <1>2, ScoresOnly

\* The passing of time changes scores only.
LEMMA TickInv ==
  ASSUME Inv, Tick
  PROVE  Inv'
<1> USE StoreAssumption DEF Tick
<1>1. StoreTypeOK'
  BY SMTT(30) DEF Inv, StoreTypeOK, Times
<1>2. \A i \in Ids : /\ scheduled'[i] # None <=> scheduled[i] # None
                     /\ retry'[i] # None <=> retry[i] # None
                     /\ lease'[i] # None <=> lease[i] # None
                     /\ archived'[i] # None <=> archived[i] # None
  BY SMTT(30) DEF Inv, StoreTypeOK, Times
<1> QED BY <1>1, <1>2, ScoresOnly

-----------------------------------------------------------------------------
(* Theorems *)

\* Every step of the store keeps the inductive invariant: one case per method.
LEMMA StepInv == Inv /\ [StoreNext]_storeVars => Inv'
<1> SUFFICES ASSUME Inv, [StoreNext]_storeVars PROVE Inv'
  OBVIOUS
<1>1. ASSUME NEW i \in Ids, NEW p \in Payloads, NEW n \in MaxRetries
      PROVE  NewMessage(p, n) \in Message
  BY DEF NewMessage, Message
<1>2. CASE \E i \in Ids, p \in Payloads, n \in MaxRetries, r \in Ranks :
             \/ Enqueue(i, NewMessage(p, n), r)
             \/ \E at \in Times : Schedule(i, NewMessage(p, n), r, at)
  BY <1>1, <1>2, EnqueueInv, ScheduleInv
<1>3. CASE \E a \in Attempts :
             \/ \E expiry \in Times : Claim(a, expiry)
             \/ AckSuccess(a)
             \/ \E at \in Times : ScheduleRetry(a, at)
             \/ Archive(a)
             \/ Requeue(a)
  BY <1>3, ClaimInv, AckInv, RetryInv, ArchiveInv, RequeueInv
<1>4. CASE \E source \in {"scheduled", "retry"}, now \in Times :
             MoveReady(source, now)
  BY <1>4, MoveReadyInv
<1>5. CASE \E S \in SUBSET Handles, expiry \in Times : ExtendLease(S, expiry)
  BY <1>5, ExtendLeaseInv
<1>6. CASE \E d \in Admins : \/ \E i \in Ids : GetDeadLetter(d, i)
                             \/ ReplayDeadLetter(d)
  BY <1>6, GetDeadLetterInv, ReplayInv
<1>7. CASE \E i \in Ids : DeleteDeadLetter(i)
  BY <1>7, DeleteInv
<1>8. CASE \E age \in Times : CleanupDeadLetters(age)
  BY <1>8, CleanupInv
<1>9. CASE Tick
  BY <1>9, TickInv
<1>10. CASE UNCHANGED storeVars
  <2>1. StoreTypeOK'
    BY <1>10 DEF Inv, storeVars, StoreTypeOK
  <2> QED BY <1>10, <2>1, ScoresOnly DEF storeVars
<1> QED BY <1>2, <1>3, <1>4, <1>5, <1>6, <1>7, <1>8, <1>9, <1>10 DEF StoreNext

\* The inductive invariant holds in every behaviour of the store.
THEOREM StoreInvariant == StoreSpec => []Inv
  BY InitInv, StepInv, PTL DEF StoreSpec

\* Type correctness of the store (StoreTypeOK).
THEOREM StoreTyped == StoreSpec => []StoreTypeOK
  BY StoreInvariant, PTL DEF Inv

\* Lists, ZSETs and Hash states agree in every reachable state, for any number
\* of tasks, claims, callers and clocks.
THEOREM StoreConsistent == StoreSpec => []IndexesMatchState
  BY StoreInvariant, PTL DEF Inv

\* No Hash is ever left with some of its fields, not by a replay that races
\* with a deletion either.
THEOREM StoreNoPartialHash == StoreSpec => []NoPartialHash
  BY StoreInvariant, PTL DEF Inv

\* The attempt fence: every claim is ended at most once, by its own attempt.
THEOREM StoreFenced == StoreSpec => []ClaimResolvedOnce
  BY StoreInvariant, PTL DEF Inv

\* The Hash of an active task holds the message that its owner was given.
THEOREM StoreOwnerHoldsMessage == StoreSpec => []OwnerHoldsMessage
  BY StoreInvariant, PTL DEF Inv

-----------------------------------------------------------------------------
(* What a step of the store may do, and that it implements TaskContract.  Every *)
(* step is of one of seven kinds; the action properties and the refinement are  *)
(* each a matter of going through the kinds.                                    *)

\* The kinds of steps: Enqueue or Schedule, replay, deletion of dead letters,
\* MoveReady, Claim and the end of a claim.
Creates(i, st) ==
  /\ ~Exists(i) /\ st \in {"pending", "scheduled"}
  /\ task'[i].state = st /\ task'[i].attempt = None
  /\ \A j \in Ids : j # i => task'[j] = task[j]
  /\ UNCHANGED issued

Replays(i) ==
  /\ In(i, "archived")
  /\ task'[i].state = "pending" /\ task'[i].attempt = task[i].attempt
  /\ \A j \in Ids : j # i => task'[j] = task[j]
  /\ UNCHANGED issued

Forgets(M) ==
  /\ \A i \in M : In(i, "archived")
  /\ task' = [i \in Ids |-> IF i \in M THEN NoHash ELSE task[i]]
  /\ UNCHANGED issued

Closings == States \ {"active", "scheduled"}

StepKind ==
  \/ \E i \in Ids, st \in {"pending", "scheduled"} : Creates(i, st)
  \/ \E M \in SUBSET Ids, source \in {"scheduled", "retry"} :
       MoveReadyOf(M, source)
  \/ \E i \in Ids, a \in Attempts, x \in Times : ClaimOf(i, a, x)
  \/ \E i \in Ids, a \in Attempts, m \in Message, st \in Closings :
       Closes(i, a, m, st)
  \/ \E i \in Ids : Replays(i)
  \/ \E M \in SUBSET Ids : Forgets(M)
  \/ UNCHANGED <<task, issued>>

\* The four calls that end a claim.
LEMMA CloseKind ==
  ASSUME Inv, NEW a \in Attempts,
         \/ AckSuccess(a)
         \/ \E at \in Times : ScheduleRetry(a, at)
         \/ Archive(a)
         \/ Requeue(a)
  PROVE  \E i \in Ids, m \in Message, st \in Closings : Closes(i, a, m, st)
<1>1. a \in Handles
  BY DEF AckSuccess, ScheduleRetry, Archive, Requeue
<1>2. PICK i \in Ids : i = issued[a].id
  BY <1>1, StoreAssumption DEF Inv, StoreTypeOK, Handles, Handle
<1>3. issued[a].msg \in Message
  BY <1>1, StoreAssumption DEF Inv, StoreTypeOK, Handles, Handle
<1>4. Retried(issued[a].msg) \in Message
  BY SMTT(30), <1>3 DEF Retried, Message
<1>5. {"completed", "retry", "archived", "pending"} \subseteq Closings
  BY DEF Closings, States
<1>6. CASE AckSuccess(a)
  <2>1. Closes(i, a, issued[a].msg, "completed")
    BY <1>2, <1>6 DEF AckSuccess, ackScript, Closes
  <2> QED BY <1>3, <1>5, <2>1
<1>7. CASE \E at \in Times : ScheduleRetry(a, at)
  <2>1. Closes(i, a, Retried(issued[a].msg), "retry")
    BY <1>2, <1>7 DEF ScheduleRetry, retryScript, Closes
  <2> QED BY <1>4, <1>5, <2>1
<1>8. CASE Archive(a)
  <2>1. Closes(i, a, issued[a].msg, "archived")
    BY <1>2, <1>8 DEF Archive, archiveScript, Closes
  <2> QED BY <1>3, <1>5, <2>1
<1>9. CASE Requeue(a)
  <2>1. Closes(i, a, task[i].msg, "pending")
    BY <1>2, <1>9 DEF Requeue, requeueScript, Closes
  <2>2. task[i].msg \in Message
    BY SMTT(30), <2>1, StoreAssumption DEF Inv, NoPartialHash, NoHash, Closes, Owns
  <2> QED BY <1>5, <2>1, <2>2
<1> QED BY <1>6, <1>7, <1>8, <1>9

\* Every step of the store is of one of the kinds above.
LEMMA EveryStepHasKind ==
  ASSUME Inv, [StoreNext]_storeVars
  PROVE  StepKind
<1>1. CASE \E i \in Ids, p \in Payloads, n \in MaxRetries, r \in Ranks :
             \/ Enqueue(i, NewMessage(p, n), r)
             \/ \E at \in Times : Schedule(i, NewMessage(p, n), r, at)
  <2>1. PICK i \in Ids, p \in Payloads, n \in MaxRetries, r \in Ranks :
          \/ Enqueue(i, NewMessage(p, n), r)
          \/ \E at \in Times : Schedule(i, NewMessage(p, n), r, at)
    BY <1>1
  <2>2. PICK st \in {"pending", "scheduled"}, k \in {sequence + 1} :
          /\ task' = [task EXCEPT ![i] =
                        [msg |-> NewMessage(p, n), state |-> st, rank |-> r,
                         member |-> k, attempt |-> None]]
          /\ ~Exists(i) /\ UNCHANGED issued
    BY <2>1 DEF Enqueue, enqueueScript, Schedule, scheduleScript
  <2>3. DOMAIN task = Ids
    BY DEF Inv, StoreTypeOK
  <2>4. Creates(i, st)
    BY <2>2, <2>3 DEF Creates
  <2> QED BY <2>2, <2>4 DEF StepKind
<1>2. CASE \E a \in Attempts, x \in Times : Claim(a, x)
  BY <1>2, ClaimTakesPending DEF StepKind
<1>3. CASE \E a \in Attempts : \/ AckSuccess(a)
                               \/ \E at \in Times : ScheduleRetry(a, at)
                               \/ Archive(a)
                               \/ Requeue(a)
  BY <1>3, CloseKind DEF StepKind
<1>4. CASE \E source \in {"scheduled", "retry"}, now \in Times :
             MoveReady(source, now)
  BY <1>4, MoveReadyMoves DEF StepKind
<1>5. CASE \E S \in SUBSET Handles, x \in Times : ExtendLease(S, x)
  BY <1>5 DEF StepKind, ExtendLease, extendLeaseScript
<1>6. CASE \E d \in Admins, i \in Ids : GetDeadLetter(d, i)
  BY <1>6 DEF StepKind, GetDeadLetter, redis
<1>7. CASE \E d \in Admins : ReplayDeadLetter(d)
  <2>1. PICK d \in Admins : ReplayDeadLetter(d)
    BY <1>7
  <2>2. PICK i \in Ids : i = replaying[d].id
    BY <2>1, StoreAssumption DEF Inv, StoreTypeOK, ReplayDeadLetter, DeadLetter
  <2>3. Replays(i) \/ UNCHANGED <<task, issued>>
    BY SMTT(30), <2>1, <2>2
    DEF ReplayDeadLetter, replayArchivedScript, Replays, redis,
                      Inv, StoreTypeOK, Hash, In
  <2> QED BY <2>3 DEF StepKind
<1>8. CASE \E i \in Ids : DeleteDeadLetter(i)
  <2>1. PICK i \in Ids : DeleteDeadLetter(i)
    BY <1>8
  <2>2. Forgets({i})
    BY <2>1 DEF DeleteDeadLetter, deleteArchivedScript, Forgets, In, Inv,
                StoreTypeOK
  <2> QED BY <2>2 DEF StepKind
<1>9. CASE \E age \in Times : CleanupDeadLetters(age)
  <2>1. PICK M \in SUBSET Ids : Forgets(M)
    BY <1>9 DEF CleanupDeadLetters, cleanupArchivedScript, Batch, Forgets, In
  <2> QED BY <2>1 DEF StepKind
<1>10. CASE Tick
  BY <1>10 DEF Tick, StepKind
<1>11. CASE UNCHANGED storeVars
  BY <1>11 DEF storeVars, StepKind
<1> QED BY <1>1, <1>2, <1>3, <1>4, <1>5, <1>6, <1>7, <1>8, <1>9, <1>10, <1>11
        DEF StoreNext

-----------------------------------------------------------------------------
(* Action properties *)

\* No step changes the Hash of a completed task.
THEOREM StoreCompletedIsFinal == StoreSpec => CompletedIsFinal
<1>1. ASSUME Inv, [StoreNext]_storeVars, NEW i \in Ids, In(i, "completed")
      PROVE  task'[i] = task[i]
  <2>1. StepKind
    BY <1>1, EveryStepHasKind
  <2>2. ASSUME NEW j \in Ids, NEW st \in {"pending", "scheduled"},
               Creates(j, st)
        PROVE  task'[i] = task[i]
    BY <1>1, <2>2, StoreAssumption DEF Creates, Exists, In, States
  <2>3. ASSUME NEW M \in SUBSET Ids, NEW source \in {"scheduled", "retry"},
               MoveReadyOf(M, source)
        PROVE  task'[i] = task[i]
    BY <1>1, <2>3 DEF MoveReadyOf, In
  <2>4. ASSUME NEW j \in Ids, NEW a \in Attempts, NEW x \in Times,
               ClaimOf(j, a, x)
        PROVE  task'[i] = task[i]
    BY <1>1, <2>4 DEF ClaimOf, In, Inv, StoreTypeOK
  <2>5. ASSUME NEW j \in Ids, NEW a \in Attempts, NEW m \in Message,
               NEW st \in Closings, Closes(j, a, m, st)
        PROVE  task'[i] = task[i]
    BY <1>1, <2>5 DEF Closes, Owns, Release, In, Inv, StoreTypeOK
  <2>6. ASSUME NEW j \in Ids, Replays(j)
        PROVE  task'[i] = task[i]
    BY <1>1, <2>6 DEF Replays, In
  <2>7. ASSUME NEW M \in SUBSET Ids, Forgets(M)
        PROVE  task'[i] = task[i]
    BY <1>1, <2>7 DEF Forgets, In
  <2> QED BY <2>1, <2>2, <2>3, <2>4, <2>5, <2>6, <2>7 DEF StepKind
<1>2. Inv /\ [StoreNext]_storeVars
        => [\A i \in Ids : In(i, "completed") => task'[i] = task[i]]_storeVars
  BY <1>1
<1> QED BY <1>2, StoreInvariant, PTL DEF StoreSpec, CompletedIsFinal

\* A task that a step takes from pending to active ranks before, or with, every
\* other pending task: only Claim does so, and pending_rank is faithful.
THEOREM StoreClaimsInOrder == StoreSpec => ClaimsInOrder
<1>1. ASSUME Inv, [StoreNext]_storeVars, NEW i \in Ids, NEW j \in Ids,
             In(i, "pending"), task'[i].state = "active", In(j, "pending")
      PROVE  \/ task[i].rank < task[j].rank
             \/ task[i].rank = task[j].rank /\ task[i].member <= task[j].member
  <2>1. StepKind
    BY <1>1, EveryStepHasKind
  <2>2. ASSUME NEW k \in Ids, NEW st \in {"pending", "scheduled"},
               Creates(k, st)
        PROVE  FALSE
    BY <1>1, <2>2, StoreAssumption DEF Creates, In
  <2>3. ASSUME NEW M \in SUBSET Ids, NEW source \in {"scheduled", "retry"},
               MoveReadyOf(M, source)
        PROVE  FALSE
    BY <1>1, <2>3 DEF MoveReadyOf, In
  <2>4. ASSUME NEW k \in Ids, NEW a \in Attempts, NEW x \in Times,
               ClaimOf(k, a, x)
        PROVE  \/ task[i].rank < task[j].rank
               \/ task[i].rank = task[j].rank /\ task[i].member <= task[j].member
    <3>1. k = i
      BY <1>1, <2>4 DEF ClaimOf, In, Inv, StoreTypeOK
    <3>2. RankEntry(j, task[j].rank, task[j].member) \in pendingRank
      BY <1>1 DEF Inv, IndexesMatchState
    <3>3. Before(RankEntry(i, task[i].rank, task[i].member),
                 RankEntry(j, task[j].rank, task[j].member))
      BY <2>4, <3>1, <3>2 DEF ClaimOf
    <3> QED BY <3>3 DEF Before, RankEntry
  <2>5. ASSUME NEW k \in Ids, NEW a \in Attempts, NEW m \in Message,
               NEW st \in Closings, Closes(k, a, m, st)
        PROVE  FALSE
    BY <1>1, <2>5 DEF Closes, Owns, Release, In, Inv, StoreTypeOK
  <2>6. ASSUME NEW k \in Ids, Replays(k)
        PROVE  FALSE
    BY <1>1, <2>6 DEF Replays, In
  <2>7. ASSUME NEW M \in SUBSET Ids, Forgets(M)
        PROVE  FALSE
    BY <1>1, <2>7 DEF Forgets, In
  <2>8. ~UNCHANGED <<task, issued>>
    BY <1>1 DEF In
  <2> QED BY <2>1, <2>2, <2>3, <2>4, <2>5, <2>6, <2>7, <2>8 DEF StepKind
<1>2. Inv /\ [StoreNext]_storeVars
        => [\A i, j \in Ids :
              In(i, "pending") /\ task'[i].state = "active" /\ In(j, "pending") =>
                \/ task[i].rank < task[j].rank
                \/ task[i].rank = task[j].rank /\ task[i].member <= task[j].member
           ]_storeVars
  BY <1>1
<1> QED BY <1>2, StoreInvariant, PTL DEF StoreSpec, ClaimsInOrder

-----------------------------------------------------------------------------
(* Refinement *)

status == [i \in Ids |-> IF task[i].state = None THEN "absent" ELSE task[i].state]
owner == [i \in Ids |-> task[i].attempt]
spent == {a \in Handles : issued[a].resolved # 0}

\* A step of the store is a step of the contract or leaves it as it is: one
\* case per kind.
LEMMA ContractStep ==
  ASSUME Inv, [StoreNext]_storeVars
  PROVE  [Contract!ContractNext]_(Contract!contractVars)
<1> USE DEF status, owner, spent
<1>1. StepKind
  BY EveryStepHasKind
<1>2. ASSUME NEW i \in Ids, NEW st \in {"pending", "scheduled"}, Creates(i, st)
      PROVE  Contract!Create(i, st)
  <2>1. task[i].attempt = None
    BY <1>2, StoreAssumption
    DEF Creates, Exists, Inv, IndexesMatchState, Placed, In, States
  <2>2. status' = [status EXCEPT ![i] = st]
    BY <1>2, StoreAssumption DEF Creates, Exists, States
  <2>3. owner' = owner /\ spent' = spent
    BY <1>2, <2>1 DEF Creates, Handles
  <2>4. status[i] = "absent"
    BY <1>2 DEF Creates, Exists
  <2> QED BY <2>2, <2>3, <2>4 DEF Contract!Create
<1>3. ASSUME NEW M \in SUBSET Ids, NEW source \in {"scheduled", "retry"},
             MoveReadyOf(M, source)
      PROVE  Contract!MakeReady(M)
  <2>1. \A i \in M : status[i] \in {"scheduled", "retry"}
    BY <1>3, StoreAssumption DEF MoveReadyOf, In, Exists, States
  <2>2. ASSUME NEW i \in Ids
        PROVE  /\ task'[i].state = IF i \in M THEN "pending" ELSE task[i].state
               /\ task'[i].attempt = task[i].attempt
    BY SMTT(30), <1>3 DEF MoveReadyOf, Inv, StoreTypeOK, Hash
  <2>3. status' = [i \in Ids |-> IF i \in M THEN "pending" ELSE status[i]]
    BY <2>2, StoreAssumption DEF Exists, States
  <2>4. owner' = owner /\ spent' = spent
    BY <1>3, <2>2 DEF MoveReadyOf, Handles
  <2> QED BY <2>1, <2>3, <2>4 DEF Contract!MakeReady
<1>4. ASSUME NEW i \in Ids, NEW a \in Attempts, NEW x \in Times,
             ClaimOf(i, a, x)
      PROVE  Contract!Take(i, a)
  <2>1. /\ \A j \in Ids : j # i => task'[j] = task[j]
        /\ task'[i].state = "active" /\ task'[i].attempt = a
    <3>1. /\ task \in [Ids -> Hash]
          /\ task' = [task EXCEPT ![i].state = "active", ![i].attempt = a]
      BY <1>4 DEF Inv, StoreTypeOK, ClaimOf
    <3> QED BY <3>1, HSetOwner
  <2>2. status[i] = "pending"
    BY <1>4, StoreAssumption DEF ClaimOf, In, Exists, States
  <2>3. a \notin Handles
    BY <1>4 DEF ClaimOf, Handles
  <2>4. \A j \in Ids : owner[j] # a
    BY SMTT(30), <2>3, StoreAssumption
    DEF Inv, IndexesMatchState, Placed, OwnerHoldsMessage
  <2>5. status' = [status EXCEPT ![i] = "active"]
    BY <2>1, StoreAssumption DEF Exists, States
  <2>6. owner' = [owner EXCEPT ![i] = a]
    BY <2>1
  <2>7. spent' = spent
    <3>1. /\ \A b \in Attempts : b # a => issued'[b] = issued[b]
          /\ issued'[a].resolved = 0 /\ issued[a] = None
      BY <1>4 DEF ClaimOf, Inv, StoreTypeOK
    <3> QED BY <3>1 DEF Handles
  <2> QED BY <2>2, <2>3, <2>4, <2>5, <2>6, <2>7 DEF Contract!Take
<1>5. ASSUME NEW i \in Ids, NEW a \in Attempts, NEW m \in Message,
             NEW st \in Closings, Closes(i, a, m, st)
      PROVE  Contract!Close(i, a, st)
  <2>1. Closed(i, m, st)
    BY <1>5, CloseShared DEF Closings
  <2>2. status[i] = "active" /\ owner[i] = a
    BY <1>5, StoreAssumption DEF Closes, Owns, Exists, States
  <2>3. st \in {"completed", "retry", "archived", "pending"}
    BY DEF Closings, States
  <2>4. status' = [status EXCEPT ![i] = st]
    BY <2>1, StoreAssumption DEF Closed, Exists, Closings
  <2>5. owner' = [owner EXCEPT ![i] = None]
    BY <2>1 DEF Closed
  <2>6. spent' = spent \cup {a}
    <3>1. /\ a \in Handles /\ issued[a] \in Handle
          /\ issued' = [issued EXCEPT ![a].resolved = @ + 1]
      BY <1>5 DEF Closes, Resolve, Inv, StoreTypeOK, Handles
    <3>2. /\ \A b \in Attempts : b # a => issued'[b] = issued[b]
          /\ issued'[a].resolved = issued[a].resolved + 1
          /\ issued'[a] \in Handle
      BY SMTT(30), <3>1 DEF Inv, StoreTypeOK, Handle
    <3>3. issued[a].resolved \in Nat
      BY <3>1 DEF Handle
    <3> QED BY SMTT(30), <3>1, <3>2, <3>3, StoreAssumption DEF Handles
  <2> QED BY <2>2, <2>3, <2>4, <2>5, <2>6 DEF Contract!Close
<1>6. ASSUME NEW i \in Ids, Replays(i)
      PROVE  Contract!Replay(i)
  <2>1. status[i] = "archived"
    BY <1>6, StoreAssumption DEF Replays, In, Exists, States
  <2>2. status' = [status EXCEPT ![i] = "pending"]
    BY <1>6, StoreAssumption DEF Replays, Exists, States
  <2>3. owner' = owner /\ spent' = spent
    BY <1>6 DEF Replays, Handles
  <2> QED BY <2>1, <2>2, <2>3 DEF Contract!Replay
<1>7. ASSUME NEW M \in SUBSET Ids, Forgets(M)
      PROVE  Contract!Forget(M)
  <2>1. \A i \in M : status[i] = "archived" /\ task[i].attempt = None
    BY <1>7, StoreAssumption
    DEF Forgets, In, Exists, States, Inv, IndexesMatchState, Placed
  <2>2. status' = [i \in Ids |-> IF i \in M THEN "absent" ELSE status[i]]
    BY <1>7, StoreAssumption DEF Forgets, Exists, NoHash
  <2>3. owner' = owner /\ spent' = spent
    BY <1>7, <2>1 DEF Forgets, Handles, NoHash
  <2> QED BY <2>1, <2>2, <2>3 DEF Contract!Forget
<1>8. ASSUME UNCHANGED <<task, issued>>
      PROVE  UNCHANGED Contract!contractVars
  BY <1>8 DEF Contract!contractVars, Exists, Handles
<1>9. Closings = {"completed", "retry", "archived", "pending"}
  BY DEF Closings, States
<1> QED BY SMTT(30), <1>1, <1>2, <1>3, <1>4, <1>5, <1>6, <1>7, <1>8, <1>9
        DEF StepKind, Contract!ContractNext

\* The store implements the task contract.
THEOREM StoreImplementsContract == StoreSpec => ImplementsContract
<1>1. StoreInit => Contract!ContractInit
  <2> SUFFICES ASSUME StoreInit PROVE Contract!ContractInit
    OBVIOUS
  <2> QED BY DEF StoreInit, Contract!ContractInit, NoHash, Exists, Handles
<1>2. Inv /\ [StoreNext]_storeVars
        => [Contract!ContractNext]_(Contract!contractVars)
  BY ContractStep
<1> QED BY <1>1, <1>2, StoreInvariant, PTL
        DEF StoreSpec, ImplementsContract, Contract!ContractSpec
=============================================================================
