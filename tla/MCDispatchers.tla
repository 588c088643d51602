---------------------------- MODULE MCDispatchers ----------------------------
(* A small instance of Dispatchers for TLC. *)
EXTENDS Dispatchers, TLC

\* Two queues that are served, and one that is switched off.
TwoServed == "high" :> 2 @@ "low" :> 1 @@ "off" :> 0
=============================================================================
