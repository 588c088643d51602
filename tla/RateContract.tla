---------------------------- MODULE RateContract ----------------------------
(***************************************************************************)
(* What a rate limiter promises (limiter/limiter.go, Config.TokenBucket):   *)
(* in every window of time, of whatever length, the callers are granted no  *)
(* more than a full bucket and what the rate yields in that time, but for   *)
(* the rounding of what each millisecond yields and of what each grant      *)
(* costs.                                                                   *)
(***************************************************************************)
EXTENDS Integers

CONSTANTS
  Capacity,  \* Capacity()
  Rate,      \* what one millisecond yields
  Eps,       \* bound on the rounding
  Amounts    \* what a call of Acquire asks for

VARIABLES
  granted,   \* what was granted since the window began, less the rounding
  elapsed    \* milliseconds since the window began

RateInit == granted = 0 /\ elapsed = 0

Yield == IF Rate > 0 THEN Rate + Eps ELSE 0

Grant(amount) ==
  /\ granted + amount <= Capacity + elapsed * Yield
  /\ granted' = granted + amount - Eps
  /\ UNCHANGED elapsed

Pass ==
  /\ elapsed' = elapsed + 1
  /\ UNCHANGED granted

\* Any moment may be the beginning of the window looked at.
NewWindow == granted' = 0 /\ elapsed' = 0

RateNext ==
  \/ \E amount \in Amounts : Grant(amount)
  \/ Pass
  \/ NewWindow

RateSpec == RateInit /\ [][RateNext]_<<granted, elapsed>>
=============================================================================
