---------------------------- MODULE MCTaskEngine ----------------------------
(* Small instances of TaskEngine for TLC. *)
EXTENDS TaskEngine, TLC

Symmetry == Permutations(Servers) \cup Permutations(Attempts)
              \cup Permutations(Ids)
=============================================================================
