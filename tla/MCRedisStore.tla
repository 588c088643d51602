---------------------------- MODULE MCRedisStore ----------------------------
(* Small instances of RedisStore for TLC, with the computations beside it: the *)
(* rank of a task and the message that a client makes.                         *)
EXTENDS StoreRequests, TLC

\* Attempts are random tokens and IDs are never ordered by the store, so both
\* may be permuted in runs that check no liveness.
Symmetry == Permutations(Ids) \cup Permutations(Attempts)
=============================================================================
