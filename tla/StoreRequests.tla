---------------------------- MODULE StoreRequests ----------------------------
(* The store with the computations beside it: the rank under which a task waits *)
(* and the message that a client makes.                                         *)
EXTENDS RedisStore, TaskRank, TaskClient

\* "Priority dominates; the millisecond component orders different creation
\* times" (taskRank, rdb.go).  When two tasks wait in pending_rank, whatever
\* their priorities and creation times: with all the roundings of float64 the
\* one of higher priority ranks strictly first; among equals an earlier task
\* never ranks later; and it ranks strictly first as long as the weighted
\* priority fits the mantissa.  Above that (priority 10 of the program)
\* neighbouring milliseconds may share a score, and the sequence number decides.
RankOrders ==
  \A i, j \in {k \in Ids : In(k, "pending")} : i # j => Misranked = {}

\* Once a task is in the store, for any request that may have put it there (the
\* state does not keep which): whatever options its task and its call brought,
\* in whatever order: the store was called unless an
\* option was refused; it got a valid message with the last value given to
\* every field, the last of ProcessAt and ProcessIn decided the time, and the
\* message was scheduled exactly when that time was in the future.  The time of
\* EnqueueAt and EnqueueIn overrides the task's and is overridden by the call's
\* options (Enqueue, EnqueueAt, EnqueueIn, client.go).
SendsWhatWasAsked == \A i \in Ids : Exists(i) => Misread = {}
=============================================================================
