---------------------------- MODULE TimerContract ----------------------------
(***************************************************************************)
(* What TimeWheel (internal/timer/timer.go) promises to those who call      *)
(* Schedule: a callback runs at most once, not before its time, after those *)
(* that are due earlier or were scheduled earlier for the same time, and    *)
(* not at all once it has been cancelled.                                   *)
(***************************************************************************)
EXTENDS Integers

CONSTANTS
  Events,   \* the calls of Schedule
  MaxTime   \* bound on the time; no event is due later

VARIABLES
  status,   \* "new", "queued", "cancelled" or "ran"
  at,       \* when an event is due
  order,    \* its place among the calls of Schedule
  calls,    \* how many there were
  now

contractVars == <<status, at, order, calls, now>>

ContractInit ==
  /\ status = [e \in Events |-> "new"]
  /\ at = [e \in Events |-> 0]
  /\ order = [e \in Events |-> 0]
  /\ calls = 0
  /\ now = 0

Schedule(e, time) ==
  /\ status[e] = "new"
  /\ status' = [status EXCEPT ![e] = "queued"]
  /\ at' = [at EXCEPT ![e] = time]
  /\ order' = [order EXCEPT ![e] = calls + 1]
  /\ calls' = calls + 1
  /\ UNCHANGED now

Cancel(e) ==
  /\ status[e] = "queued"
  /\ status' = [status EXCEPT ![e] = "cancelled"]
  /\ UNCHANGED <<at, order, calls, now>>

Callback(e) ==
  /\ status[e] = "queued" /\ at[e] <= now
  /\ \A d \in Events \ {e} :
       status[d] = "queued" =>
         at[e] < at[d] \/ (at[e] = at[d] /\ order[e] < order[d])
  /\ status' = [status EXCEPT ![e] = "ran"]
  /\ UNCHANGED <<at, order, calls, now>>

Pass ==
  /\ now' = now + 1
  /\ UNCHANGED <<status, at, order, calls>>

ContractNext ==
  \/ \E e \in Events :
       \/ \E time \in 0 .. MaxTime : Schedule(e, time)
       \/ Cancel(e)
       \/ Callback(e)
  \/ Pass

ContractSpec == ContractInit /\ [][ContractNext]_contractVars
=============================================================================
