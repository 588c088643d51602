----------------------------- MODULE PowersOfTwo -----------------------------
(* 2^n as a function, for the widths of integers and of mantissas. *)
EXTENDS Integers

TwoTo[n \in Nat] == IF n = 0 THEN 1 ELSE 2 * TwoTo[n - 1]
=============================================================================
