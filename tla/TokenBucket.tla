----------------------------- MODULE TokenBucket -----------------------------
(***************************************************************************)
(* The Redis token bucket of internal/limiter/bucket.go: one Hash, changed  *)
(* by one Lua script, shared by all servers that use its key.               *)
(*                                                                         *)
(* Time is in milliseconds of the Redis clock, which is what TIME and the   *)
(* expiry of keys are computed from: last_ms and the expiry are kept        *)
(* relative to the present.  It is a wall clock, so it may be set back; a   *)
(* step forward is not considered, it is time that passes.                  *)
(*                                                                         *)
(* The script computes in float64.  Tokens are counted in grains so small   *)
(* that every float64 that occurs, and what the rate yields in a            *)
(* millisecond, is a whole number of them.  What a formula of the script    *)
(* yields is known up to Eps grains, a few units in the last place of the   *)
(* numbers involved, and is any value in that range which the monotony of   *)
(* rounding allows.  HSET keeps all digits.                                 *)
(***************************************************************************)
EXTENDS Integers

CONSTANTS
  Capacity,   \* capacity
  Rate,       \* ratePerSecond, as grains per millisecond
  Eps,        \* bound on the rounding of one formula
  Amounts,    \* amounts that callers ask for; less than Eps would be lost
  Year,       \* retry when there is no rate: 31536000000 ms
  MaxWindow,  \* bound on the length of the windows looked at
  MaxBacks,   \* bound on the number of times the clock is set back
  MaxBack,    \* bound on one such step
  None        \* no key, no refused caller

VARIABLES
  bucket,   \* the Hash: tokens, age of last_ms, time to live
  granted,  \* what was granted since the window looked at began, each grant
            \* less its rounding
  elapsed,  \* real milliseconds since then
  denial,   \* some refused call, what is left of its RetryAfter, and how
            \* long it has waited
  backs     \* times the clock was set back

bucketVars == <<bucket, granted, elapsed, denial, backs>>

ASSUME BucketAssumption ==
  /\ Capacity \in Nat \ {0}
  /\ Rate \in Nat
  /\ Eps \in Nat /\ 2 * Eps <= Capacity
  /\ Amounts \subseteq Eps + 1 .. Capacity
  /\ Year \in Nat \ {0}
  /\ MaxWindow \in Nat
  /\ MaxBacks \in Nat
  /\ MaxBack \in Nat
  /\ None \notin [tokens : Int, age : Int, ttl : Int]
  /\ None \notin [amount : Amounts, left : Nat, waited : Nat]

BucketTypeOK ==
  /\ bucket \in [tokens : Int, age : Int, ttl : Nat] \cup {None}
  /\ granted \in Nat
  /\ elapsed \in 0 .. MaxWindow
  /\ denial \in [amount : Amounts, left : Nat, waited : Nat] \cup {None}
  /\ backs \in 0 .. MaxBacks

BucketInit ==
  /\ bucket = None
  /\ granted = 0
  /\ elapsed = 0
  /\ denial = None
  /\ backs = 0

-----------------------------------------------------------------------------
(* The script *)

Least(x, y) == IF x <= y THEN x ELSE y

\* math.ceil of a quotient
Ceil(x, y) == (x + y - 1) \div y

Rounded(x) == x - Eps .. x + Eps

\* What the sum in the refill may come to.  To add nothing changes nothing, to
\* add more than nothing does not take away.
Sum ==
  {x \in Rounded(bucket.tokens + bucket.age * Rate) :
     /\ bucket.age >= 0 => x >= bucket.tokens
     /\ bucket.age <= 0 => x <= bucket.tokens}

\* Mutant: the refill is not capped.
RefilledUncapped == IF bucket = None THEN {Capacity} ELSE Sum

\* What the tokens after the refill may be; without a Hash the bucket is full.
Refilled ==
  IF bucket = None THEN {Capacity}
  ELSE IF Rate > 0 THEN {Least(Capacity, x) : x \in Sum}
  ELSE {bucket.tokens}

\* What is left of t tokens after a grant.
Remainder(t, amount) == {x \in Rounded(t - amount) : 0 <= x /\ x <= t}

\* math.ceil of the milliseconds in which the rate yields x tokens.
Millis(x) == {m \in Ceil(x - Eps, Rate) .. Ceil(x + Eps, Rate) : m > 0}

\* The expiry that PEXPIRE sets: twice the time that fills the bucket.
Lifetime == IF Rate > 0 THEN Millis(2 * Capacity) ELSE {0}

\* Mutant: rounded down.
RetryAfterFloor(amount, t) ==
  IF t >= amount THEN {0}
  ELSE IF Rate > 0 THEN {(amount - t) \div Rate} ELSE {Year}

\* retry, in milliseconds, of a call that finds t tokens
RetryAfter(amount, t) ==
  IF t >= amount THEN {0}
  ELSE IF Rate > 0 THEN Millis(amount - t) ELSE {Year}

\* HSET and PEXPIRE, whether or not the call is granted.
acquireScript(amount, t) ==
  \E tokens \in IF t >= amount THEN Remainder(t, amount) ELSE {t},
     ttl \in Lifetime :
    bucket' = [tokens |-> tokens, age |-> 0, ttl |-> ttl]

\* A call that finds t tokens and, when it is refused, is told retry.
Acquire(amount, t, retry) ==
  /\ t \in Refilled /\ retry \in RetryAfter(amount, t)
  /\ acquireScript(amount, t)
  /\ IF t >= amount
     THEN granted' = granted + amount - Eps /\ denial' = None
     ELSE /\ \/ denial' = [amount |-> amount, left |-> retry, waited |-> 0]
             \/ denial # None /\ UNCHANGED denial
          /\ UNCHANGED granted
  /\ UNCHANGED <<elapsed, backs>>

-----------------------------------------------------------------------------
(* The clock *)

\* A millisecond passes.  Redis drops a key when its time to live is over; a
\* key without expiry stays.  The window looked at may begin anew.  The refused
\* caller comes back in the millisecond in which its wait is over.
BucketTick ==
  /\ bucket' = IF bucket = None \/ (Rate > 0 /\ bucket.ttl = 0) THEN None
               ELSE [bucket EXCEPT !.age = @ + 1,
                                   !.ttl = IF Rate > 0 THEN @ - 1 ELSE @]
  /\ \/ /\ elapsed < MaxWindow
        /\ elapsed' = elapsed + 1 /\ UNCHANGED granted
     \/ elapsed' = 0 /\ granted' = 0
  /\ denial' = IF denial # None /\ denial.left > 0
               THEN [denial EXCEPT !.left = @ - 1, !.waited = @ + 1] ELSE None
  /\ UNCHANGED backs

\* The clock of the Redis host is set back by n.
ClockBack(n) ==
  /\ backs < MaxBacks /\ backs' = backs + 1
  /\ bucket' = IF bucket = None THEN None
               ELSE [bucket EXCEPT !.age = @ - n,
                                   !.ttl = IF Rate > 0 THEN @ + n ELSE @]
  /\ denial' = None
  /\ UNCHANGED <<granted, elapsed>>

BucketNext ==
  \/ \E amount \in Amounts, t \in Refilled :
       \E retry \in RetryAfter(amount, t) : Acquire(amount, t, retry)
  \/ BucketTick
  \/ \E n \in 1 .. MaxBack : ClockBack(n)

BucketSpec == BucketInit /\ [][BucketNext]_bucketVars

-----------------------------------------------------------------------------
(* Properties *)

\* The rounding that a wait may meet: one of its own, and one for every
\* millisecond in which other refused calls have written the bucket.
Drift == (denial.waited + 1) * Eps

\* RetryAfter is right up to rounding: a refused caller that waits as long as it
\* was told finds its tokens, or misses no more than the rounding that may have
\* added up, unless others were granted some or the clock was set back
\* meanwhile; and as long as the clock never was, it could not have had them a
\* millisecond earlier, but for such rounding.  Neither the truncation of TIME
\* to milliseconds, nor the expiry of the key, nor the refill written by other
\* refused calls shortens or prolongs it by more.
RetryAfterClose ==
  Rate > 0 /\ denial # None =>
    \A t \in Refilled :
      /\ denial.left = 0 => t + Drift >= denial.amount
      /\ backs = 0 /\ denial.left > 0 => t < denial.amount + Drift

Promise == INSTANCE RateContract

\* The script keeps the promise of a rate limiter, however the calls of
\* several servers interleave, although the key expires and comes back full,
\* and also when the clock is set back: no window of real time sees more than
\* a full bucket and its rate, and the rounding of each millisecond and grant.
ImplementsRate == Promise!RateSpec
=============================================================================
