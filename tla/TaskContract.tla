---------------------------- MODULE TaskContract ----------------------------
(***************************************************************************)
(* What the store promises to its callers (storage/storage.go and the state *)
(* diagram of docs/redis-state-machine.md), without Lists, ZSETs, ranks or  *)
(* leases: every ID has one status, an active task has one owner, only the  *)
(* owner's attempt ends the claim, and an attempt that has ended a claim    *)
(* never owns a task again.                                                 *)
(***************************************************************************)
CONSTANTS Ids, Attempts, None

VARIABLES
  status,   \* "absent" or a state of model.TaskState, by ID
  owner,    \* the attempt that holds an active task
  spent     \* attempts whose claim has ended

contractVars == <<status, owner, spent>>

ContractInit ==
  /\ status = [i \in Ids |-> "absent"]
  /\ owner = [i \in Ids |-> None]
  /\ spent = {}

\* Enqueue or Schedule of an ID that does not exist.
Create(i, st) ==
  /\ status[i] = "absent"
  /\ st \in {"pending", "scheduled"}
  /\ status' = [status EXCEPT ![i] = st]
  /\ UNCHANGED <<owner, spent>>

\* MoveReady takes some waiting tasks to pending.
MakeReady(M) ==
  /\ \A i \in M : status[i] \in {"scheduled", "retry"}
  /\ status' = [i \in Ids |-> IF i \in M THEN "pending" ELSE status[i]]
  /\ UNCHANGED <<owner, spent>>

\* Claim gives a pending task to an attempt that has never been used.
Take(i, a) ==
  /\ status[i] = "pending"
  /\ a \notin spent
  /\ \A j \in Ids : owner[j] # a
  /\ status' = [status EXCEPT ![i] = "active"]
  /\ owner' = [owner EXCEPT ![i] = a]
  /\ UNCHANGED spent

\* AckSuccess, ScheduleRetry, Archive or Requeue by the owner.
Close(i, a, st) ==
  /\ status[i] = "active"
  /\ owner[i] = a
  /\ st \in {"completed", "retry", "archived", "pending"}
  /\ status' = [status EXCEPT ![i] = st]
  /\ owner' = [owner EXCEPT ![i] = None]
  /\ spent' = spent \cup {a}

\* ReplayDeadLetter.
Replay(i) ==
  /\ status[i] = "archived"
  /\ status' = [status EXCEPT ![i] = "pending"]
  /\ UNCHANGED <<owner, spent>>

\* DeleteDeadLetter and CleanupDeadLetters.
Forget(M) ==
  /\ \A i \in M : status[i] = "archived"
  /\ status' = [i \in Ids |-> IF i \in M THEN "absent" ELSE status[i]]
  /\ UNCHANGED <<owner, spent>>

ContractNext ==
  \/ \E i \in Ids, st \in {"pending", "scheduled"} : Create(i, st)
  \/ \E M \in SUBSET Ids : MakeReady(M) \/ Forget(M)
  \/ \E i \in Ids, a \in Attempts :
       \/ Take(i, a)
       \/ \E st \in {"completed", "retry", "archived", "pending"} :
            Close(i, a, st)
  \/ \E i \in Ids : Replay(i)

ContractSpec == ContractInit /\ [][ContractNext]_contractVars
=============================================================================
