-------------------------- MODULE DispatchersProofs --------------------------
(***************************************************************************)
(* The token bucket keeps its promises for every capacity and rate, a rate  *)
(* of zero included, and however its arithmetic rounds, and so do the       *)
(* dispatchers that share it; and they keep the priority of the queues.     *)
(*                                                                         *)
(* Neither promise of the bucket is inductive.  The rate holds in every     *)
(* window because the tokens that are left are paid for too (Paid), and     *)
(* because a key that has just been written lives long enough for the full  *)
(* bucket that comes after it to be paid for (PaidAfterExpiry).  RetryAfter *)
(* is right up to rounding because a rounding needs a millisecond to happen *)
(* in: one is spent when the script writes the level anew, never without    *)
(* time having passed; and the key does not expire before the wait is over  *)
(* (Told).                                                                  *)
(*                                                                         *)
(* The priority is kept because the queues that a dispatcher has passed     *)
(* hold nothing that waited when it got its token (Passed), and nothing     *)
(* that waited then comes back into a queue (Known).                        *)
(***************************************************************************)
EXTENDS Dispatchers, FiniteSetTheorems, TLAPS

\* What a millisecond adds at most.
Yield == IF Rate > 0 THEN Rate + Eps ELSE 0

Grown == IF bucket.age > 0 THEN bucket.age ELSE 0

\* The most that the next call can find.
Top ==
  IF bucket = None THEN Capacity
  ELSE Least(Capacity, bucket.tokens + Grown * Yield)

Paid ==
  /\ granted <= Capacity + elapsed * Yield
  /\ granted + Top <= Capacity + elapsed * Yield

PaidAfterExpiry ==
  bucket # None /\ Rate > 0 /\ granted > 0 =>
    granted <= (elapsed + bucket.ttl) * Yield

Filled ==
  bucket # None =>
    /\ bucket.tokens <= Capacity
    /\ backs = 0 => bucket.tokens >= 0 /\ bucket.age >= 0

\* A caller was refused amount; it has waited, and has left to wait.  The last
\* call wrote tokens, age milliseconds ago: the roundings after it are still to
\* come.  At the end of the wait there is enough up to rounding, and there was
\* not a millisecond earlier.
Enough(amount, left, waited, tokens, age) ==
  amount <= tokens + (age + left) * Rate + (waited + 1 - age) * Eps

NoneEarlier(amount, left, waited, tokens, age) ==
  tokens + (age + left - 1) * Rate < amount + (waited + 1 - age) * Eps

Told ==
  Rate > 0 /\ denial # None =>
    /\ bucket # None =>
         /\ 0 <= bucket.age /\ bucket.age <= denial.waited
         /\ Enough(denial.amount, denial.left, denial.waited,
                   bucket.tokens, bucket.age)
    /\ backs = 0 /\ denial.left > 0 =>
         /\ (denial.left - 1) * Rate < Capacity + Eps
         /\ bucket # None /\ denial.left <= bucket.ttl
         /\ NoneEarlier(denial.amount, denial.left, denial.waited,
                        bucket.tokens, bucket.age)

BucketInv == BucketTypeOK /\ Filled /\ Paid /\ PaidAfterExpiry /\ Told

-----------------------------------------------------------------------------
(* Arithmetic *)

\* One millisecond more or less is one yield more or less.
LEMMA OneMore ==
  ASSUME NEW n \in Int, NEW y \in Int
  PROVE (n + 1) * y = n * y + y /\ (n - 1) * y = n * y - y
OBVIOUS

\* The yield of two spans of time adds up.
LEMMA Distributes ==
  ASSUME NEW m \in Int, NEW n \in Int, NEW y \in Int
  PROVE (m + n) * y = m * y + n * y /\ (m - n) * y = m * y - n * y
OBVIOUS

\* A longer time does not yield less.
LEMMA Monotone ==
  ASSUME NEW m \in Int, NEW n \in Int, NEW y \in Nat, m <= n
  PROVE m * y <= n * y
OBVIOUS

\* A higher rate does not yield less.
LEMMA MonotoneRate ==
  ASSUME NEW m \in Nat, NEW y \in Nat, NEW z \in Nat, y <= z
  PROVE m * y <= m * z
OBVIOUS

\* What is paid for stays so when fewer tokens are left.
LEMMA StillPaid ==
  ASSUME NEW g \in Nat, NEW x \in Int, NEW y \in Int, NEW c \in Int,
         x <= y, g + y <= c
  PROVE g + x <= c
OBVIOUS

\* At the beginning of a window a bucket is paid for by its capacity.
LEMMA NothingGranted ==
  ASSUME NEW x \in Int, NEW c \in Nat, x <= c
  PROVE 0 <= c + 0 /\ 0 + x <= c + 0
OBVIOUS

\* Division with remainder.
LEMMA Quotient ==
  ASSUME NEW x \in Int, NEW y \in Nat \ {0}
  PROVE /\ x \div y \in Int
        /\ (x \div y) * y <= x /\ x < (x \div y) * y + y
OBVIOUS

\* What math.ceil computes: the least number of milliseconds that yields x.
LEMMA CeilIsLeast ==
  ASSUME NEW x \in Int, NEW y \in Nat \ {0}
  PROVE /\ Ceil(x, y) \in Int
        /\ x <= Ceil(x, y) * y
        /\ (Ceil(x, y) - 1) * y < x
BY Quotient DEF Ceil

\* The same when its argument was rounded.
LEMMA MillisBounds ==
  ASSUME Rate > 0, NEW x \in Int, NEW m \in Millis(x)
  PROVE /\ m \in Nat /\ m >= 1
        /\ x - Eps <= m * Rate
        /\ (m - 1) * Rate < x + Eps
<1>1. Rate \in Nat \ {0} /\ x - Eps \in Int /\ x + Eps \in Int
  BY BucketAssumption
<1>2. PICK c \in Int, d \in Int :
        /\ c = Ceil(x - Eps, Rate) /\ d = Ceil(x + Eps, Rate)
        /\ x - Eps <= c * Rate /\ (d - 1) * Rate < x + Eps
  BY <1>1, CeilIsLeast
<1>3. m \in Int /\ c <= m /\ m <= d /\ m > 0
  BY <1>2 DEF Millis
<1>4. c * Rate <= m * Rate
  BY <1>1, <1>2, <1>3, Monotone
<1>5. (m - 1) * Rate <= (d - 1) * Rate
  BY <1>1, <1>2, <1>3, Monotone
<1>6. /\ c * Rate \in Int /\ m * Rate \in Int
      /\ (m - 1) * Rate \in Int /\ (d - 1) * Rate \in Int
  BY <1>1, <1>2, <1>3
<1> QED BY <1>1, <1>2, <1>3, <1>4, <1>5, <1>6

\* A key lives for at least the time that fills the bucket twice, up to
\* rounding.
LEMMA LongLife ==
  ASSUME NEW ttl \in Lifetime
  PROVE /\ ttl \in Nat
        /\ Rate > 0 => 2 * Capacity - Eps <= ttl * Rate
<1>1. CASE Rate > 0
  <2>1. ttl \in Millis(2 * Capacity) /\ 2 * Capacity \in Int
    BY <1>1, BucketAssumption DEF Lifetime
  <2> QED BY <1>1, <2>1, MillisBounds
<1>2. CASE ~(Rate > 0)
  BY <1>2 DEF Lifetime
<1> QED BY <1>1, <1>2

\* The constants as the provers need them.
LEMMA Constants ==
  /\ Capacity \in Nat /\ Rate \in Nat /\ Eps \in Nat /\ Yield \in Nat
  /\ 2 * Eps <= Capacity
  /\ Rate <= Yield
  /\ \A amount \in Amounts : /\ amount \in Nat
                             /\ Eps < amount /\ amount <= Capacity
BY BucketAssumption DEF Yield

-----------------------------------------------------------------------------
(* The level of the bucket *)

\* The most that a call can find is at most the capacity.
LEMMA TopType ==
  ASSUME BucketTypeOK
  PROVE Top \in Int /\ Top <= Capacity
<1>1. CASE bucket = None
  BY <1>1, Constants DEF Top
<1>2. CASE bucket # None
  <2>1. bucket.tokens \in Int /\ Grown \in Nat
    BY <1>2 DEF BucketTypeOK, Grown
  <2>2. bucket.tokens + Grown * Yield \in Int
    BY <2>1, Constants
  <2> QED BY <1>2, <2>2, Constants DEF Top, Least
<1> QED BY <1>1, <1>2

\* What the refill comes to: at most Top, and within a rounding of the exact sum
\* up to the capacity, or the sum itself when no time has passed.
LEMMA RefillBounds ==
  ASSUME BucketTypeOK, Filled, NEW t \in Refilled
  PROVE /\ t \in Int /\ t <= Top
        /\ backs = 0 => t >= 0
        /\ Rate > 0 /\ bucket # None =>
             /\ bucket.age = 0 => t = bucket.tokens
             /\ bucket.age > 0 =>
                  /\ t = Capacity \/ bucket.tokens + bucket.age * Rate <= t + Eps
                  /\ t <= bucket.tokens + bucket.age * Rate + Eps
<1>1. CASE bucket = None
  BY <1>1, Constants DEF Refilled, Top
<1>2. CASE bucket # None
  <2>1. PICK k \in Int, a \in Int : bucket.tokens = k /\ bucket.age = a
    BY <1>2 DEF BucketTypeOK
  <2>2. k <= Capacity /\ (backs = 0 => k >= 0 /\ a >= 0)
    BY <1>2, <2>1 DEF Filled
  <2>3. PICK g \in Nat : /\ g = Grown
                         /\ g = IF a > 0 THEN a ELSE 0
    BY <2>1 DEF Grown
  <2>4. PICK w \in Nat : w = g * Yield
    BY Constants
  <2>5. Top = IF Capacity <= k + w THEN Capacity ELSE k + w
    BY <1>2, <2>1, <2>3, <2>4 DEF Top, Least
  <2>6. CASE Rate > 0
    <3>1. PICK p \in Int : p = a * Rate
      BY <2>1, Constants
    <3>2. a > 0 => p + Eps <= w
      <4>1. SUFFICES ASSUME a > 0 PROVE p + Eps <= w
        OBVIOUS
      <4>2. w = a * (Rate + Eps)
        BY <2>3, <2>4, <2>6, <4>1 DEF Yield
      <4>3. a * (Rate + Eps) = a * Rate + a * Eps
        BY Constants
      <4>4. 1 * Eps <= a * Eps
        BY <4>1, Constants, Monotone
      <4>5. a * Eps \in Int /\ 1 * Eps = Eps
        BY Constants
      <4> QED BY <3>1, <4>2, <4>3, <4>4, <4>5, Constants
    <3>3. a = 0 => p = 0
      BY <3>1, Constants
    <3>4. PICK x \in Sum : t = Least(Capacity, x)
      BY <1>2, <2>6 DEF Refilled
    <3>5. /\ x \in Int /\ k + p - Eps <= x /\ x <= k + p + Eps
          /\ a >= 0 => x >= k
          /\ a <= 0 => x <= k
      <4>1. /\ x \in (k + p) - Eps .. (k + p) + Eps
            /\ a >= 0 => x >= k
            /\ a <= 0 => x <= k
        <5>1. bucket.tokens + bucket.age * Rate = k + p
          BY <2>1, <3>1
        <5>2. /\ x \in Rounded(k + p)
              /\ a >= 0 => x >= k
              /\ a <= 0 => x <= k
          BY <2>1, <3>4, <5>1 DEF Sum
        <5> QED BY <5>2, Zenon DEF Rounded
      <4> QED BY <3>1, <4>1, Constants
    <3>6. t = IF Capacity <= x THEN Capacity ELSE x
      BY <3>4 DEF Least
    <3>7. /\ t \in Int /\ t <= Top
          /\ backs = 0 => t >= 0
      BY <2>2, <2>3, <2>5, <3>2, <3>5, <3>6, Constants
    <3>8. /\ a = 0 => t = k
          /\ a > 0 => /\ t = Capacity \/ k + p <= t + Eps
                      /\ t <= k + p + Eps
      BY <2>2, <3>5, <3>6, Constants
    <3> QED BY <2>1, <3>1, <3>7, <3>8
  <2>7. CASE ~(Rate > 0)
    BY <1>2, <2>1, <2>2, <2>4, <2>5, <2>7, Constants DEF Refilled
  <2> QED BY <2>6, <2>7
<1> QED BY <1>1, <1>2

\* A millisecond adds at most the yield to the level, up to the capacity.
LEMMA TopTick ==
  ASSUME BucketTypeOK, BucketTick
  PROVE /\ bucket' = None => Top' = Capacity
        /\ bucket = None => bucket' = None
        /\ bucket' # None => /\ Top' \in Int /\ Top' <= Capacity
                             /\ Top' <= Top + Yield
<1>1. bucket' = None => Top' = Capacity
  BY DEF Top
<1>2. bucket = None => bucket' = None
  BY DEF BucketTick
<1>3. ASSUME bucket' # None
      PROVE Top' \in Int /\ Top' <= Capacity /\ Top' <= Top + Yield
  <2>1. bucket # None
    BY <1>3 DEF BucketTick
  <2>2. PICK k \in Int, a \in Int :
          /\ bucket.tokens = k /\ bucket.age = a
          /\ bucket'.tokens = k /\ bucket'.age = a + 1
    <3>1. bucket' = [bucket EXCEPT !.age = @ + 1,
                                   !.ttl = IF Rate > 0 THEN @ - 1 ELSE @]
      BY <1>3, <2>1 DEF BucketTick
    <3>2. bucket \in [tokens : Int, age : Int, ttl : Nat]
      BY <2>1 DEF BucketTypeOK
    <3> QED BY <3>1, <3>2
  <2>3. PICK g \in Nat : g = Grown
    BY <2>2 DEF Grown
  <2>4. PICK h \in Nat : h = Grown' /\ h <= g + 1
    BY <2>2, <2>3 DEF Grown
  <2>5. h * Yield <= g * Yield + Yield
    <3>1. h * Yield <= (g + 1) * Yield
      <4>1. g + 1 \in Int /\ h \in Int /\ Yield \in Nat
        BY Constants
      <4> QED BY <2>4, <4>1, Monotone, Zenon
    <3> QED BY <3>1, Constants, OneMore
  <2>6. PICK v \in Nat, w \in Nat : v = g * Yield /\ w = h * Yield /\ w <= v + Yield
    BY <2>5, Constants
  <2>7. /\ Top = IF Capacity <= k + v THEN Capacity ELSE k + v
        /\ Top' = IF Capacity <= k + w THEN Capacity ELSE k + w
    BY <1>3, <2>1, <2>2, <2>3, <2>4, <2>6 DEF Top, Least
  <2> QED BY <2>6, <2>7, Constants
<1> QED BY <1>1, <1>2, <1>3

\* A clock that is set back does not raise the level, and keeps the key.
LEMMA TopBack ==
  ASSUME BucketTypeOK, NEW n \in 1 .. MaxBack, ClockBack(n)
  PROVE /\ Top' \in Int /\ Top' <= Top
        /\ bucket' = None <=> bucket = None
        /\ bucket # None =>
             /\ bucket' \in [tokens : Int, age : Int, ttl : Nat]
             /\ bucket'.tokens = bucket.tokens /\ bucket'.ttl >= bucket.ttl
<1>1. CASE bucket = None
  <2>1. bucket' = None
    BY <1>1 DEF ClockBack
  <2> QED BY <1>1, <2>1, Constants DEF Top
<1>2. CASE bucket # None
  <2>1. PICK t \in Int, a \in Int, l \in Nat :
          bucket = [tokens |-> t, age |-> a, ttl |-> l]
    BY <1>2 DEF BucketTypeOK
  <2>2. n \in Nat
    OBVIOUS
  <2>3. PICK k \in Nat :
          k >= l /\ bucket' = [tokens |-> t, age |-> a - n, ttl |-> k]
    <3>1. CASE Rate > 0
      <4>1. bucket' = [tokens |-> t, age |-> a - n, ttl |-> l + n]
        BY <1>2, <2>1, <3>1, Zenon DEF ClockBack
      <4> QED BY <2>2, <4>1
    <3>2. CASE ~(Rate > 0)
      <4>1. bucket' = [tokens |-> t, age |-> a - n, ttl |-> l]
        BY <1>2, <2>1, <3>2, Zenon DEF ClockBack
      <4> QED BY <4>1
    <3> QED BY <3>1, <3>2
  <2>4. bucket' # None
    <3>1. bucket' \in [tokens : Int, age : Int, ttl : Int]
      BY <2>2, <2>3
    <3> QED BY <3>1, BucketAssumption
  <2>5. PICK g \in Nat, h \in Nat : g = Grown /\ h = Grown' /\ h <= g
    <3>1. Grown = (IF a > 0 THEN a ELSE 0) /\ Grown' = (IF a - n > 0 THEN a - n ELSE 0)
      BY <2>1, <2>3 DEF Grown
    <3>2. Grown \in Nat /\ Grown' \in Nat /\ Grown' <= Grown
      BY <2>2, <3>1
    <3> QED BY <3>2
  <2>6. PICK v \in Nat, w \in Nat : v = g * Yield /\ w = h * Yield /\ w <= v
    <3>1. Yield \in Nat /\ g * Yield \in Nat /\ h * Yield \in Nat
      BY Constants
    <3>2. h * Yield <= g * Yield
      <4>1. g \in Int /\ h \in Int /\ h <= g
        BY <2>5
      <4> QED BY <3>1, <4>1, Monotone, Zenon
    <3> QED BY <3>1, <3>2
  <2>7. /\ Top = IF Capacity <= t + v THEN Capacity ELSE t + v
        /\ Top' = IF Capacity <= t + w THEN Capacity ELSE t + w
    BY <1>2, <2>1, <2>3, <2>4, <2>5, <2>6 DEF Top, Least
  <2>8. Top' \in Int /\ Top' <= Top
    BY <2>6, <2>7, Constants
  <2> QED BY <1>2, <2>1, <2>2, <2>3, <2>4, <2>8
<1> QED BY <1>1, <1>2

\* What the script writes: what it found, less what it granted up to rounding,
\* and a new expiry.
LEMMA Written ==
  ASSUME BucketTypeOK, Filled, NEW amount \in Amounts, NEW t, NEW retry,
         Acquire(amount, t, retry)
  PROVE /\ t \in Int
        /\ bucket' # None
        /\ bucket' \in [tokens : Int, age : Int, ttl : Nat]
        /\ bucket'.age = 0 /\ bucket'.ttl \in Lifetime
        /\ bucket'.tokens = Top' /\ bucket'.tokens <= t
        /\ t < amount => bucket'.tokens = t
        /\ t >= amount => /\ bucket'.tokens >= 0
                          /\ bucket'.tokens + amount <= t + Eps
<1>1. t \in Int /\ t <= Capacity /\ amount \in Nat /\ t \in Refilled
  BY RefillBounds, TopType, Constants DEF Acquire
<1>2. PICK k \in IF t >= amount THEN Remainder(t, amount) ELSE {t},
           ttl \in Lifetime :
        bucket' = [tokens |-> k, age |-> 0, ttl |-> ttl]
  BY DEF Acquire, acquireScript
<1>3. /\ k \in Int /\ k <= t
      /\ t < amount => k = t
      /\ t >= amount => k >= 0 /\ k + amount <= t + Eps
  <2>1. CASE t >= amount
    <3>1. k \in t - amount - Eps .. t - amount + Eps /\ 0 <= k /\ k <= t
      BY <1>2, <2>1 DEF Remainder, Rounded
    <3> QED BY <1>1, <2>1, <3>1, Constants
  <2>2. CASE ~(t >= amount)
    BY <1>1, <1>2, <2>2
  <2> QED BY <2>1, <2>2
<1>4. ttl \in Nat
  BY LongLife
<1>5. bucket' \in [tokens : Int, age : Int, ttl : Int]
  BY <1>2, <1>3, <1>4
<1>6. bucket' # None
  BY <1>5, BucketAssumption
<1>7. Top' = k
  <2>1. Grown' = 0 /\ 0 * Yield = 0
    BY <1>2, Constants DEF Grown
  <2> QED BY <1>1, <1>2, <1>3, <1>6, <2>1, Constants DEF Top, Least
<1> QED BY <1>1, <1>2, <1>3, <1>4, <1>6, <1>7

-----------------------------------------------------------------------------
(* What a refused caller was told *)

\* A refused call at age a writes level t in place of k: the rounding it adds is
\* one that the time passed since the last call allows.
LEMMA RewriteKeeps ==
  ASSUME Rate > 0, NEW m \in Nat, m <= Capacity,
         NEW l \in Nat, NEW w \in Nat, NEW k \in Int, NEW a \in Nat, NEW t \in Int,
         a = 0 => t = k,
         a > 0 => /\ t = Capacity \/ k + a * Rate <= t + Eps
                  /\ t <= k + a * Rate + Eps
  PROVE  /\ Enough(m, l, w, k, a) => Enough(m, l, w, t, 0)
         /\ NoneEarlier(m, l, w, k, a) => NoneEarlier(m, l, w, t, 0)
<1>1. CASE a = 0
  BY <1>1
<1>2. CASE a > 0
  <2>1. PICK p \in Nat, q \in Nat, u \in Nat, v \in Nat :
          p = a * Rate /\ q = l * Rate /\ u = a * Eps /\ v = w * Eps
    BY Constants
  <2>2. Rate \in Nat /\ Eps \in Nat /\ Capacity \in Nat
    BY Constants
  <2>3. Eps <= u
    <3>1. 1 * Eps <= a * Eps
      BY <1>2, <2>2, Monotone
    <3> QED BY <2>1, <2>2, <3>1
  <2>4. (a + l) * Rate = p + q /\ (0 + l) * Rate = q
    BY <2>1, <2>2, Distributes
  <2>5. (a + l - 1) * Rate = p + q - Rate /\ (0 + l - 1) * Rate = q - Rate
    <3>1. a + l \in Int /\ 0 + l \in Int
      OBVIOUS
    <3>2. /\ (a + l - 1) * Rate = (a + l) * Rate - Rate
          /\ (0 + l - 1) * Rate = (0 + l) * Rate - Rate
      BY <2>2, <3>1, OneMore
    <3> QED BY <2>1, <2>2, <2>4, <3>2
  <2>6. (w + 1 - a) * Eps = v + Eps - u /\ (w + 1 - 0) * Eps = v + Eps
    <3>1. w + 1 \in Int /\ w + 1 - 0 = w + 1
      OBVIOUS
    <3>2. (w + 1) * Eps = v + Eps
      BY <2>1, <2>2, OneMore
    <3>3. (w + 1 - a) * Eps = (w + 1) * Eps - a * Eps
      BY <2>2, <3>1, Distributes
    <3> QED BY <2>1, <2>2, <3>1, <3>2, <3>3
  <2>7. (t = Capacity \/ k + p <= t + Eps) /\ t <= k + p + Eps
    BY <1>2, <2>1
  <2>8. Enough(m, l, w, k, a) => Enough(m, l, w, t, 0)
    BY <2>1, <2>2, <2>3, <2>4, <2>6, <2>7 DEF Enough
  <2>9. NoneEarlier(m, l, w, k, a) => NoneEarlier(m, l, w, t, 0)
    BY <2>1, <2>2, <2>3, <2>5, <2>6, <2>7 DEF NoneEarlier
  <2> QED BY <2>8, <2>9
<1> QED BY <1>1, <1>2

\* A wait of no more than what fills the bucket, up to rounding, is over before
\* a key written now expires.
LEMMA KeyOutlives ==
  ASSUME Rate > 0, NEW l \in Nat, (l - 1) * Rate < Capacity + Eps,
         NEW ttl \in Lifetime
  PROVE  l <= ttl
<1>1. ttl \in Nat /\ 2 * Capacity - Eps <= ttl * Rate /\ Rate \in Nat
  BY LongLife, Constants
<1>2. SUFFICES ASSUME ttl <= l - 1 PROVE FALSE
  BY <1>1
<1>3. ttl * Rate <= (l - 1) * Rate
  BY <1>1, <1>2, Monotone
<1>4. ttl * Rate \in Int /\ (l - 1) * Rate \in Int
  BY <1>1
<1> QED BY <1>1, <1>3, <1>4, Constants

\* What the script tells is right when it is told.
LEMMA RightWhenTold ==
  ASSUME Rate > 0, NEW amount \in Amounts, NEW t \in Int, t < amount,
         NEW retry \in RetryAfter(amount, t)
  PROVE  /\ retry \in Nat
         /\ Enough(amount, retry, 0, t, 0)
         /\ NoneEarlier(amount, retry, 0, t, 0)
         /\ t >= 0 => (retry - 1) * Rate < Capacity + Eps
<1>1. /\ amount \in Nat /\ amount <= Capacity /\ amount - t \in Int
      /\ Rate \in Nat /\ Eps \in Nat /\ Capacity \in Nat
  BY Constants
<1>2. retry \in Millis(amount - t)
  BY <1>1 DEF RetryAfter
<1>3. /\ retry \in Nat
      /\ amount - t - Eps <= retry * Rate
      /\ (retry - 1) * Rate < amount - t + Eps
  BY <1>1, <1>2, MillisBounds
<1>4. PICK p \in Int, q \in Int : p = retry * Rate /\ q = (retry - 1) * Rate
  BY <1>1, <1>3
<1>5. /\ (0 + retry) * Rate = p /\ (0 + retry - 1) * Rate = q
      /\ (0 + 1 - 0) * Eps = Eps
  BY <1>1, <1>3, <1>4
<1>6. Enough(amount, retry, 0, t, 0) /\ NoneEarlier(amount, retry, 0, t, 0)
  BY <1>1, <1>3, <1>4, <1>5 DEF Enough, NoneEarlier
<1> QED BY <1>1, <1>3, <1>4, <1>6

Denials == [amount : Amounts, left : Nat, waited : Nat]

\* What a refused caller was told holds of what the next call finds.
LEMMA ToldOfRefill ==
  ASSUME BucketTypeOK, Filled, Told, Rate > 0, NEW t \in Refilled,
         NEW m \in Amounts, NEW l \in Nat, NEW w \in Nat,
         denial = [amount |-> m, left |-> l, waited |-> w]
  PROVE  /\ t \in Int
         /\ Enough(m, l, w, t, 0)
         /\ backs = 0 /\ l > 0 => /\ (l - 1) * Rate < Capacity + Eps
                                  /\ NoneEarlier(m, l, w, t, 0)
<1>1. m \in Nat /\ m <= Capacity /\ t \in Int
  BY Constants, RefillBounds
<1>2. denial # None
  <2>1. denial \in Denials
    BY DEF Denials
  <2> QED BY <2>1, BucketAssumption DEF Denials
<1>3. CASE bucket = None
  <2>1. t = Capacity
    BY <1>3 DEF Refilled
  <2>2. Enough(m, l, w, t, 0)
    <3>1. (0 + l) * Rate \in Nat /\ (w + 1 - 0) * Eps \in Nat
      BY Constants
    <3> QED BY <1>1, <2>1, <3>1, Constants DEF Enough
  <2>3. ~(backs = 0 /\ l > 0)
    BY <1>2, <1>3 DEF Told
  <2> QED BY <1>1, <2>2, <2>3
<1>4. CASE bucket # None
  <2>1. PICK k \in Int, a \in Int : bucket.tokens = k /\ bucket.age = a
    BY <1>4 DEF BucketTypeOK
  <2>2. /\ 0 <= a /\ Enough(m, l, w, k, a)
        /\ backs = 0 /\ l > 0 => /\ (l - 1) * Rate < Capacity + Eps
                                 /\ NoneEarlier(m, l, w, k, a)
    BY <1>2, <1>4, <2>1 DEF Told
  <2>3. /\ a = 0 => t = k
        /\ a > 0 => /\ t = Capacity \/ k + a * Rate <= t + Eps
                    /\ t <= k + a * Rate + Eps
    BY <1>4, <2>1, RefillBounds
  <2>4. a \in Nat
    BY <2>2
  <2>5. /\ Enough(m, l, w, k, a) => Enough(m, l, w, t, 0)
        /\ NoneEarlier(m, l, w, k, a) => NoneEarlier(m, l, w, t, 0)
    BY <1>1, <2>3, <2>4, RewriteKeeps
  <2> QED BY <1>1, <2>2, <2>5
<1> QED BY <1>3, <1>4

-----------------------------------------------------------------------------
(* The inductive invariant *)

\* A bucket without a key satisfies the invariant.
LEMMA BucketBegins == BucketInit => BucketInv
<1> SUFFICES ASSUME BucketInit PROVE BucketInv
  OBVIOUS
<1>1. 0 * Yield = 0
  BY Constants
<1>2. Top = Capacity
  BY DEF BucketInit, Top
<1> QED BY <1>1, <1>2, Constants, BucketAssumption
      DEF BucketInit, BucketInv, BucketTypeOK, Filled, Paid, PaidAfterExpiry, Told

\* A call, granted or refused: what is granted and what is left stay paid for.
LEMMA AcquirePays ==
  ASSUME BucketInv, NEW amount \in Amounts, NEW t, NEW retry,
         Acquire(amount, t, retry)
  PROVE  granted' \in Nat /\ Filled' /\ Paid' /\ PaidAfterExpiry'
<1>1. /\ BucketTypeOK /\ Filled /\ Paid
      /\ elapsed' = elapsed /\ backs' = backs
      /\ granted' = IF t >= amount THEN granted + amount - Eps ELSE granted
  BY DEF BucketInv, Acquire
<1>2. /\ t \in Int /\ bucket' # None
      /\ bucket' \in [tokens : Int, age : Int, ttl : Nat]
      /\ bucket'.age = 0 /\ bucket'.ttl \in Lifetime
      /\ bucket'.tokens = Top' /\ bucket'.tokens <= t
      /\ t < amount => bucket'.tokens = t
      /\ t >= amount => /\ bucket'.tokens >= 0
                        /\ bucket'.tokens + amount <= t + Eps
  BY <1>1, Written
<1>3. t <= Top /\ Top \in Int /\ Top <= Capacity /\ (backs = 0 => t >= 0)
  <2>1. t \in Refilled
    BY DEF Acquire
  <2> QED BY <1>1, <2>1, RefillBounds, TopType
<1>4. /\ amount \in Nat /\ Eps < amount
      /\ Capacity \in Nat /\ Eps \in Nat /\ Rate \in Nat /\ Yield \in Nat
      /\ Rate <= Yield /\ 2 * Eps <= Capacity
  BY Constants
<1>5. PICK w \in Nat : w = elapsed * Yield /\ w = elapsed' * Yield
  BY <1>1, <1>4 DEF BucketTypeOK
<1>6. granted \in Nat /\ elapsed \in Nat
  BY <1>1 DEF BucketTypeOK
<1>7. PICK k \in Int : k = bucket'.tokens /\ k = Top'
  BY <1>2
<1>8. /\ granted' \in Nat
      /\ granted' <= Capacity + w
      /\ granted' + k <= Capacity + w
  <2>1. granted + Top <= Capacity + w /\ granted <= Capacity + w
    BY <1>1, <1>5 DEF Paid
  <2>2. CASE t >= amount
    <3>1. granted' = granted + amount - Eps /\ k >= 0 /\ k + amount <= t + Eps
      BY <1>1, <1>2, <1>7, <2>2
    <3> QED BY <1>2, <1>3, <1>4, <1>6, <2>1, <2>2, <3>1
  <2>3. CASE ~(t >= amount)
    <3>1. granted' = granted /\ k <= t
      BY <1>1, <1>2, <1>7, <2>3
    <3> QED BY <1>2, <1>3, <1>4, <1>6, <2>1, <3>1
  <2> QED BY <2>2, <2>3
<1>9. Paid'
  BY <1>5, <1>7, <1>8 DEF Paid
<1>10. Filled'
  BY <1>1, <1>2, <1>3, <1>4 DEF Filled
<1>11. PaidAfterExpiry'
  <2>1. SUFFICES ASSUME Rate > 0 PROVE granted' <= (elapsed' + bucket'.ttl) * Yield
    BY DEF PaidAfterExpiry
  <2>2. PICK l \in Nat : l = bucket'.ttl /\ 2 * Capacity - Eps <= l * Rate
    BY <1>2, <2>1, LongLife
  <2>3. l * Rate <= l * Yield
    BY <1>4, MonotoneRate
  <2>4. (elapsed + l) * Yield = w + l * Yield
    BY <1>4, <1>5, <1>6, Distributes
  <2>5. l * Rate \in Int /\ l * Yield \in Int
    BY <1>4
  <2>6. granted' <= (elapsed + l) * Yield
    BY <1>4, <1>8, <2>2, <2>3, <2>4, <2>5
  <2> QED BY <1>1, <2>2, <2>6
<1> QED BY <1>8, <1>9, <1>10, <1>11

\* A call, granted or refused: what a refused caller was told stays right.
LEMMA AcquireTells ==
  ASSUME BucketInv, NEW amount \in Amounts, NEW t, NEW retry,
         Acquire(amount, t, retry)
  PROVE  denial' \in Denials \cup {None} /\ Told'
<1>1. /\ BucketTypeOK /\ Filled /\ Told /\ backs' = backs
      /\ t \in Refilled /\ retry \in RetryAfter(amount, t)
  BY DEF BucketInv, Acquire
<1>2. /\ t \in Int /\ bucket' # None /\ bucket'.age = 0 /\ bucket'.ttl \in Lifetime
      /\ t < amount => bucket'.tokens = t
  BY <1>1, Written
<1>3. backs = 0 => t >= 0
  BY <1>1, RefillBounds
<1>4. amount \in Nat
  BY Constants
<1>5. CASE t < amount /\ denial' = [amount |-> amount, left |-> retry, waited |-> 0]
  <2>1. CASE Rate > 0
    <3>1. /\ retry \in Nat
          /\ Enough(amount, retry, 0, t, 0)
          /\ NoneEarlier(amount, retry, 0, t, 0)
          /\ t >= 0 => (retry - 1) * Rate < Capacity + Eps
      BY <1>1, <1>2, <1>5, <2>1, RightWhenTold
    <3>2. /\ denial' \in Denials /\ denial' # None
          /\ denial'.amount = amount /\ denial'.left = retry /\ denial'.waited = 0
      <4>1. denial' \in Denials
        BY <1>5, <3>1 DEF Denials
      <4> QED BY <1>5, <4>1, BucketAssumption DEF Denials
    <3>3. backs = 0 => retry <= bucket'.ttl
      BY <1>2, <1>3, <2>1, <3>1, KeyOutlives
    <3>4. bucket'.tokens = t
      BY <1>2, <1>5
    <3> QED BY <1>1, <1>2, <1>3, <3>1, <3>2, <3>3, <3>4 DEF Told
  <2>2. CASE ~(Rate > 0)
    <3>1. retry \in Nat
      BY <1>1, <2>2, BucketAssumption DEF RetryAfter
    <3> QED BY <1>5, <2>2, <3>1 DEF Told, Denials
  <2> QED BY <2>1, <2>2
<1>6. CASE t < amount /\ denial # None /\ denial' = denial
  <2>1. PICK m \in Amounts, l \in Nat, w \in Nat :
          denial = [amount |-> m, left |-> l, waited |-> w]
    BY <1>1, <1>6 DEF BucketTypeOK
  <2>2. Rate > 0 =>
          /\ Enough(m, l, w, t, 0)
          /\ backs = 0 /\ l > 0 => /\ (l - 1) * Rate < Capacity + Eps
                                   /\ NoneEarlier(m, l, w, t, 0)
    BY <1>1, <2>1, ToldOfRefill
  <2>3. Rate > 0 /\ backs = 0 /\ l > 0 => l <= bucket'.ttl
    BY <1>2, <2>2, KeyOutlives
  <2>4. bucket'.tokens = t
    BY <1>2, <1>6
  <2>5. /\ denial' \in Denials /\ denial'.amount = m
        /\ denial'.left = l /\ denial'.waited = w
    BY <1>6, <2>1 DEF Denials
  <2> QED BY <1>1, <1>2, <2>2, <2>3, <2>4, <2>5 DEF Told
<1>7. CASE t >= amount /\ denial' = None
  BY <1>7 DEF Told
<1> QED BY <1>2, <1>4, <1>5, <1>6, <1>7 DEF Acquire

\* A call keeps the invariant.
LEMMA AcquireKeeps ==
  ASSUME BucketInv, NEW amount \in Amounts, NEW t, NEW retry,
         Acquire(amount, t, retry)
  PROVE BucketInv'
<1>1. BucketTypeOK /\ Filled /\ elapsed' = elapsed /\ backs' = backs
  BY DEF BucketInv, Acquire
<1>2. bucket' \in [tokens : Int, age : Int, ttl : Nat]
  BY <1>1, Written
<1> QED BY <1>1, <1>2, AcquirePays, AcquireTells
      DEF BucketInv, BucketTypeOK, Denials

\* What a millisecond does to the key.
LEMMA KeyTick ==
  ASSUME BucketTypeOK, BucketTick
  PROVE  /\ bucket' # None =>
              /\ bucket # None
              /\ bucket' \in [tokens : Int, age : Int, ttl : Nat]
              /\ bucket'.tokens = bucket.tokens /\ bucket'.age = bucket.age + 1
              /\ Rate > 0 => bucket'.ttl = bucket.ttl - 1
         /\ bucket' = None /\ bucket # None => Rate > 0 /\ bucket.ttl = 0
<1>1. ASSUME bucket # None, ~(Rate > 0 /\ bucket.ttl = 0)
      PROVE /\ bucket' \in [tokens : Int, age : Int, ttl : Nat]
            /\ bucket'.tokens = bucket.tokens /\ bucket'.age = bucket.age + 1
            /\ Rate > 0 => bucket'.ttl = bucket.ttl - 1
  <2>1. PICK t \in Int, a \in Int, l \in Nat :
          bucket = [tokens |-> t, age |-> a, ttl |-> l]
    BY <1>1 DEF BucketTypeOK
  <2>2. CASE Rate > 0
    <3>1. bucket' = [tokens |-> t, age |-> a + 1, ttl |-> l - 1] /\ l # 0
      BY <1>1, <2>1, <2>2, Zenon DEF BucketTick
    <3> QED BY <2>1, <2>2, <3>1
  <2>3. CASE ~(Rate > 0)
    <3>1. bucket' = [tokens |-> t, age |-> a + 1, ttl |-> l]
      BY <1>1, <2>1, <2>3, Zenon DEF BucketTick
    <3> QED BY <2>1, <2>3, <3>1
  <2> QED BY <2>2, <2>3
<1>2. ASSUME bucket # None, bucket' = None PROVE Rate > 0 /\ bucket.ttl = 0
  <2>1. SUFFICES ASSUME ~(Rate > 0 /\ bucket.ttl = 0) PROVE FALSE
    OBVIOUS
  <2>2. bucket' \in [tokens : Int, age : Int, ttl : Int]
    BY <1>1, <1>2, <2>1
  <2> QED BY <1>2, <2>2, BucketAssumption
<1>3. bucket' # None => bucket # None /\ ~(Rate > 0 /\ bucket.ttl = 0)
  BY DEF BucketTick
<1> QED BY <1>1, <1>2, <1>3

\* A millisecond passes, and the key may expire: it stays paid for.
LEMMA TickPays ==
  ASSUME BucketInv, BucketTick
  PROVE  /\ granted' \in Nat /\ elapsed' \in 0 .. MaxWindow
         /\ Paid' /\ PaidAfterExpiry'
<1>1. BucketTypeOK /\ Paid /\ PaidAfterExpiry
  BY DEF BucketInv
<1>2. /\ bucket' = None => Top' = Capacity
      /\ bucket = None => bucket' = None
      /\ bucket' # None => /\ Top' \in Int /\ Top' <= Capacity
                           /\ Top' <= Top + Yield
  BY <1>1, TopTick
<1>3. /\ Top \in Int /\ Capacity \in Nat /\ Yield \in Nat
      /\ granted \in Nat /\ elapsed \in Nat /\ elapsed * Yield \in Nat
  BY <1>1, TopType, Constants DEF BucketTypeOK
<1>4. /\ bucket' # None /\ Rate > 0 => /\ bucket # None /\ bucket.ttl \in Nat
                                       /\ bucket'.ttl = bucket.ttl - 1
      /\ bucket' = None /\ bucket # None => Rate > 0 /\ bucket.ttl = 0
  BY <1>1, KeyTick DEF BucketTypeOK
<1>5. CASE elapsed < MaxWindow /\ elapsed' = elapsed + 1 /\ granted' = granted
  <2>1. elapsed' * Yield = elapsed * Yield + Yield
    BY <1>3, <1>5, OneMore
  <2>2. Paid'
    <3>1. CASE bucket' # None
      BY <1>1, <1>2, <1>3, <1>5, <2>1, <3>1 DEF Paid
    <3>2. CASE bucket' = None /\ bucket = None
      <4>1. Top = Capacity /\ Top' = Capacity
        BY <1>2, <3>2 DEF Top
      <4> QED BY <1>1, <1>3, <1>5, <2>1, <4>1 DEF Paid
    <3>3. CASE bucket' = None /\ bucket # None
      <4>1. granted > 0 => granted <= (elapsed + 0) * Yield
        BY <1>1, <1>4, <3>3 DEF PaidAfterExpiry
      <4>2. granted <= elapsed * Yield
        BY <1>3, <4>1
      <4> QED BY <1>2, <1>3, <1>5, <2>1, <3>3, <4>2 DEF Paid
    <3> QED BY <3>1, <3>2, <3>3
  <2>3. PaidAfterExpiry'
    <3>1. SUFFICES ASSUME bucket' # None, Rate > 0, granted > 0
                   PROVE granted <= (elapsed' + bucket'.ttl) * Yield
      BY <1>5 DEF PaidAfterExpiry
    <3>2. elapsed' + bucket'.ttl = elapsed + bucket.ttl
      BY <1>3, <1>4, <1>5, <3>1
    <3> QED BY <1>1, <1>4, <3>1, <3>2 DEF PaidAfterExpiry
  <2> QED BY <1>1, <1>3, <1>5, <2>2, <2>3, BucketAssumption DEF BucketTypeOK
<1>6. CASE elapsed' = 0 /\ granted' = 0
  <2>1. elapsed' * Yield = 0
    BY <1>3, <1>6
  <2>2. PICK r \in Int : r = Top' /\ r <= Capacity
    BY <1>2, <1>3
  <2>3. 0 <= Capacity + 0 /\ 0 + r <= Capacity + 0
    BY <1>3, <2>2, NothingGranted, Zenon
  <2>4. Paid'
    BY <1>6, <2>1, <2>2, <2>3 DEF Paid
  <2>5. PaidAfterExpiry'
    BY <1>6 DEF PaidAfterExpiry
  <2> QED BY <1>6, <2>4, <2>5, BucketAssumption
<1> QED BY <1>5, <1>6 DEF BucketTick

\* A millisecond passes: what the level gains, the wait loses.
LEMMA TickTells ==
  ASSUME BucketInv, BucketTick
  PROVE  denial' \in Denials \cup {None} /\ Told'
<1>1. BucketTypeOK /\ Told /\ backs' = backs
  BY DEF BucketInv, BucketTick
<1>2. CASE denial' = None
  BY <1>2 DEF Told
<1>3. CASE denial' # None
  <2>1. denial # None /\ denial.left > 0
    BY <1>3 DEF BucketTick
  <2>2. PICK m \in Amounts, l \in Nat, w \in Nat :
          denial = [amount |-> m, left |-> l, waited |-> w]
    BY <1>1, <2>1 DEF BucketTypeOK
  <2>3. l > 0 /\ denial' = [amount |-> m, left |-> l - 1, waited |-> w + 1]
    <3>1. denial' = [denial EXCEPT !.left = @ - 1, !.waited = @ + 1]
      BY <2>1 DEF BucketTick
    <3> QED BY <2>1, <2>2, <3>1, Zenon
  <2>4. denial' \in Denials
    BY <2>3 DEF Denials
  <2>5. ASSUME Rate > 0, bucket' # None
        PROVE  /\ 0 <= bucket'.age /\ bucket'.age <= w + 1
               /\ Enough(m, l - 1, w + 1, bucket'.tokens, bucket'.age)
               /\ backs = 0 =>
                    NoneEarlier(m, l - 1, w + 1, bucket'.tokens, bucket'.age)
    <3>1. PICK k \in Int, a \in Int :
            /\ bucket # None /\ bucket.tokens = k /\ bucket.age = a
            /\ bucket'.tokens = k /\ bucket'.age = a + 1
      BY <1>1, <2>5, KeyTick DEF BucketTypeOK
    <3>2. /\ 0 <= a /\ a <= w
          /\ Enough(m, l, w, k, a)
          /\ backs = 0 => NoneEarlier(m, l, w, k, a)
      BY <1>1, <2>1, <2>2, <2>3, <2>5, <3>1 DEF Told
    <3>3. /\ (a + 1) + (l - 1) = a + l
          /\ (a + 1) + ((l - 1) - 1) = a + (l - 1)
          /\ (w + 1) + (1 - (a + 1)) = w + (1 - a)
      OBVIOUS
    <3>4. /\ Enough(m, l - 1, w + 1, k, a + 1)
          /\ backs = 0 => NoneEarlier(m, l - 1, w + 1, k, a + 1)
      BY <3>2, <3>3 DEF Enough, NoneEarlier
    <3> QED BY <3>1, <3>2, <3>4
  <2>6. ASSUME Rate > 0, backs = 0, l - 1 > 0
        PROVE  /\ ((l - 1) - 1) * Rate < Capacity + Eps
               /\ bucket' # None /\ l - 1 <= bucket'.ttl
    <3>1. /\ (l - 1) * Rate < Capacity + Eps
          /\ bucket # None /\ l <= bucket.ttl
      BY <1>1, <2>1, <2>2, <2>3, <2>6 DEF Told
    <3>2. ((l - 1) - 1) * Rate = (l - 1) * Rate - Rate
      BY Constants, OneMore
    <3>3. (l - 1) * Rate \in Int
      BY Constants
    <3>4. bucket.ttl \in Nat
      BY <1>1, <3>1 DEF BucketTypeOK
    <3>5. bucket' # None /\ bucket'.ttl = bucket.ttl - 1
      BY <1>1, <2>6, <3>1, <3>4, KeyTick
    <3> QED BY <2>6, <3>1, <3>2, <3>3, <3>4, <3>5, Constants
  <2>7. denial'.amount = m /\ denial'.left = l - 1 /\ denial'.waited = w + 1
    BY <2>3
  <2> QED BY <1>1, <2>4, <2>5, <2>6, <2>7 DEF Told
<1> QED BY <1>2, <1>3

\* A millisecond keeps the invariant.
LEMMA TickKeeps ==
  ASSUME BucketInv, BucketTick
  PROVE BucketInv'
<1>1. BucketTypeOK /\ Filled /\ backs' = backs
  BY DEF BucketInv, BucketTick
<1>2. bucket' # None =>
        /\ bucket # None
        /\ bucket' \in [tokens : Int, age : Int, ttl : Nat]
        /\ bucket'.tokens = bucket.tokens /\ bucket'.age = bucket.age + 1
  BY <1>1, KeyTick
<1>3. Filled'
  <2>1. bucket # None => bucket.tokens \in Int /\ bucket.age \in Int
    BY <1>1 DEF BucketTypeOK
  <2> QED BY <1>1, <1>2, <2>1 DEF Filled
<1> QED BY <1>1, <1>2, <1>3, TickPays, TickTells
      DEF BucketInv, BucketTypeOK, Denials

\* The clock is set back: the level does not rise and the key lives longer.
LEMMA ClockBackKeeps ==
  ASSUME BucketInv, NEW n \in 1 .. MaxBack, ClockBack(n)
  PROVE BucketInv'
<1>1. /\ BucketTypeOK /\ Filled /\ Paid /\ PaidAfterExpiry
      /\ granted' = granted /\ elapsed' = elapsed /\ denial' = None
  BY DEF BucketInv, ClockBack
<1>2. /\ Top' \in Int /\ Top' <= Top
      /\ bucket' = None <=> bucket = None
      /\ bucket # None =>
           /\ bucket' \in [tokens : Int, age : Int, ttl : Nat]
           /\ bucket'.tokens = bucket.tokens /\ bucket'.ttl >= bucket.ttl
  BY <1>1, TopBack
<1>3. /\ Top \in Int /\ Capacity \in Nat /\ Yield \in Nat
      /\ granted \in Nat /\ elapsed \in Nat /\ elapsed * Yield \in Nat
  BY <1>1, TopType, Constants DEF BucketTypeOK
<1>4. backs' \in 0 .. MaxBacks /\ backs' # 0
  BY <1>1, BucketAssumption DEF ClockBack, BucketTypeOK
<1>5. Paid'
  <2>1. PICK w \in Nat : w = elapsed * Yield /\ w = elapsed' * Yield
    BY <1>1, <1>3
  <2>2. granted <= Capacity + w /\ granted + Top <= Capacity + w
    BY <1>1, <2>1 DEF Paid
  <2>3. PICK r \in Int : r = Top' /\ r <= Top
    BY <1>2
  <2>4. granted + r <= Capacity + w
    <3>1. Capacity + w \in Int
      BY <1>3
    <3> QED BY <1>3, <2>2, <2>3, <3>1, StillPaid, Zenon
  <2> QED BY <1>1, <2>1, <2>2, <2>3, <2>4 DEF Paid
<1>6. Filled'
  BY <1>1, <1>2, <1>4 DEF Filled
<1>7. PaidAfterExpiry'
  <2>1. SUFFICES ASSUME bucket # None, Rate > 0, granted > 0
                 PROVE granted <= (elapsed + bucket'.ttl) * Yield
    BY <1>1, <1>2 DEF PaidAfterExpiry
  <2>2. PICK l \in Nat, k \in Nat : l = bucket.ttl /\ k = bucket'.ttl /\ l <= k
    BY <1>1, <1>2, <2>1 DEF BucketTypeOK
  <2>3. granted <= (elapsed + l) * Yield
    BY <1>1, <2>1, <2>2 DEF PaidAfterExpiry
  <2>4. (elapsed + l) * Yield <= (elapsed + k) * Yield
    BY <1>3, <2>2, Monotone
  <2>5. (elapsed + l) * Yield \in Int /\ (elapsed + k) * Yield \in Int
    BY <1>3
  <2> QED BY <1>3, <2>2, <2>3, <2>4, <2>5
<1> QED BY <1>1, <1>2, <1>4, <1>5, <1>6, <1>7
      DEF BucketInv, BucketTypeOK, Told

\* A step that changes nothing keeps the invariant.
LEMMA StutterKeeps ==
  ASSUME BucketInv, UNCHANGED bucketVars
  PROVE BucketInv'
BY DEF BucketInv, BucketTypeOK, Filled, Paid, PaidAfterExpiry, Told, Top, Grown,
       Enough, NoneEarlier, Least, bucketVars

\* The inductive invariant of the bucket.
THEOREM BucketInvariant == BucketSpec => []BucketInv
<1>1. BucketInv /\ [BucketNext]_bucketVars => BucketInv'
  BY AcquireKeeps, TickKeeps, ClockBackKeeps, StutterKeeps DEF BucketNext
<1> QED BY <1>1, BucketBegins, PTL DEF BucketSpec

-----------------------------------------------------------------------------
(* Theorems *)

\* RetryAfter of acquireScript is right up to rounding, for every capacity and
\* rate and every bound on the rounding.
THEOREM BucketRetryClose == BucketSpec => []RetryAfterClose
<1>1. BucketInv => RetryAfterClose
  <2> SUFFICES ASSUME BucketInv, Rate > 0, denial # None, NEW t \in Refilled
               PROVE /\ denial.left = 0 => t + Drift >= denial.amount
                     /\ backs = 0 /\ denial.left > 0 => t < denial.amount + Drift
    BY DEF RetryAfterClose
  <2>1. PICK m \in Amounts, l \in Nat, w \in Nat :
          denial = [amount |-> m, left |-> l, waited |-> w]
    BY DEF BucketInv, BucketTypeOK
  <2>2. /\ t \in Int /\ Enough(m, l, w, t, 0)
        /\ backs = 0 /\ l > 0 => NoneEarlier(m, l, w, t, 0)
    BY <2>1, ToldOfRefill DEF BucketInv
  <2>3. PICK d \in Nat : d = Drift /\ d = (w + 1 - 0) * Eps
    BY <2>1, Constants DEF Drift
  <2>4. m \in Nat /\ Rate \in Nat
    BY Constants
  <2>5. l = 0 => t + d >= m
    <3>1. (0 + 0) * Rate = 0
      BY <2>4
    <3> QED BY <2>2, <2>3, <2>4, <3>1 DEF Enough
  <2>6. backs = 0 /\ l > 0 => t < m + d
    <3>1. l > 0 => (0 + l - 1) * Rate \in Nat
      BY <2>4
    <3> QED BY <2>2, <2>3, <2>4, <3>1 DEF NoneEarlier
  <2> QED BY <2>1, <2>3, <2>5, <2>6
<1> QED BY <1>1, BucketInvariant, PTL

\* Every step of the bucket is a step of the rate limiter or a stutter: the
\* calls of acquireScript are granted within the rate in every window.
THEOREM BucketKeepsRate == BucketSpec => ImplementsRate
<1>1. BucketInit => Promise!RateInit
  BY DEF BucketInit, Promise!RateInit
<1>2. BucketInv /\ [BucketNext]_bucketVars
        => [Promise!RateNext]_<<granted, elapsed>>
  <2> SUFFICES ASSUME BucketInv, [BucketNext]_bucketVars
               PROVE Promise!RateNext \/ UNCHANGED <<granted, elapsed>>
    OBVIOUS
  <2>1. ASSUME NEW amount \in Amounts, NEW t, NEW retry, Acquire(amount, t, retry)
        PROVE Promise!RateNext \/ UNCHANGED <<granted, elapsed>>
    <3>1. CASE t >= amount
      <4>1. granted + amount <= Capacity + elapsed * Yield
        <5>1. t \in Int /\ t <= Top /\ Top \in Int
          BY <2>1, RefillBounds, TopType DEF BucketInv, Acquire
        <5>2. granted \in Nat /\ elapsed * Yield \in Nat
          BY Constants DEF BucketInv, BucketTypeOK
        <5>3. granted + Top <= Capacity + elapsed * Yield
          BY DEF BucketInv, Paid
        <5> QED BY <3>1, <5>1, <5>2, <5>3, Constants
      <4>2. granted' = granted + amount - Eps /\ elapsed' = elapsed
        BY <2>1, <3>1 DEF Acquire
      <4>3. Promise!Grant(amount)
        BY <4>1, <4>2 DEF Promise!Grant, Promise!Yield, Yield
      <4> QED BY <4>3 DEF Promise!RateNext
    <3>2. CASE ~(t >= amount)
      BY <2>1, <3>2 DEF Acquire
    <3> QED BY <3>1, <3>2
  <2>2. CASE BucketTick
    BY <2>2 DEF BucketTick, Promise!RateNext, Promise!Pass, Promise!NewWindow
  <2>3. ASSUME NEW n \in 1 .. MaxBack, ClockBack(n)
        PROVE UNCHANGED <<granted, elapsed>>
    BY <2>3 DEF ClockBack
  <2>4. CASE UNCHANGED bucketVars
    BY <2>4 DEF bucketVars
  <2> QED BY <2>1, <2>2, <2>3, <2>4 DEF BucketNext
<1> QED BY <1>1, <1>2, BucketInvariant, PTL
      DEF BucketSpec, ImplementsRate, Promise!RateSpec
-----------------------------------------------------------------------------
(* The dispatchers *)

\* Every step of the dispatchers is a call to the script, a tick or a change of
\* the clock, or leaves the bucket as it is.
LEMMA DispatchUsesBucket ==
  ASSUME [DispatchNext]_vars
  PROVE  [BucketNext]_bucketVars
<1>1. ASSUME NEW s \in Servers, Dispatch(s)
      PROVE  [BucketNext]_bucketVars
  <2>1. CASE AcquireToken(s)
    <3>1. \/ \E t \in Refilled : \E retry \in RetryAfter(TokenAmount, t) :
               Acquire(TokenAmount, t, retry)
          \/ UNCHANGED bucketVars
      BY <2>1, Zenon DEF AcquireToken
    <3> QED BY <3>1, DispatchAssumption DEF BucketNext
  <2>2. CASE ~AcquireToken(s)
    BY <1>1, <2>2, Zenon DEF Dispatch, BeginTurn, PendingCount, Claim, EndWait
  <2> QED BY <2>1, <2>2
<1>2. ASSUME NEW t \in Tasks, NEW q \in Queues, Enqueue(t, q)
      PROVE  UNCHANGED bucketVars
  BY <1>2 DEF Enqueue
<1>3. CASE Tick
  BY <1>3 DEF Tick, BucketNext
<1>4. CASE SetBack
  BY <1>4 DEF SetBack, BucketNext
<1>5. CASE UNCHANGED vars
  BY <1>5 DEF vars
<1> QED BY <1>1, <1>2, <1>3, <1>4, <1>5 DEF DispatchNext

\* Dispatchers that share a bucket are users of that bucket: what is proved of
\* it for any calls holds for the calls they make.
THEOREM DispatchersShareBucket == DispatchSpec => BucketSpec
<1>1. DispatchInit => BucketInit
  BY DEF DispatchInit
<1> QED BY <1>1, DispatchUsesBucket, PTL DEF DispatchSpec, BucketSpec

\* However the calls of the servers interleave, no window of time sees more
\* tasks than the rate allows (dispatch, Acquire).
THEOREM DispatchersKeepRate == DispatchSpec => ImplementsRate
  BY DispatchersShareBucket, BucketKeepsRate, PTL

\* The RetryAfter that dispatch waits for is right up to rounding, however many
\* servers draw on the bucket.
THEOREM DispatchersRetryClose == DispatchSpec => []RetryAfterClose
  BY DispatchersShareBucket, BucketRetryClose, PTL
-----------------------------------------------------------------------------
(* The turn of a dispatcher *)

Positions == 1 .. Cardinality(Served)

TurnTypeOK ==
  /\ queues \in [Servers -> QueueOrders]
  /\ pending \in [Queues -> SUBSET Tasks]
  /\ claimed \subseteq Tasks
  /\ disp \in [Servers -> [at : Steps, i : Positions, left : Nat]]
  /\ seen \in [Servers -> SUBSET Tasks]
  /\ faults \in 0 .. MaxFaults

\* What waited when the token was granted still waits or was claimed.
Known(s) == seen[s] \subseteq Pending \cup claimed

\* None of it is in a queue that the dispatcher has passed.
Passed(s) ==
  disp[s].at = "claim" =>
    \A j \in 1 .. disp[s].i - 1 : seen[s] \cap pending[queues[s][j]] = {}

TurnInv == TurnTypeOK /\ \A s \in Servers : Known(s) /\ Passed(s)

\* A queue is served, and there are finitely many.
LEMMA ServedCount ==
  /\ Served \subseteq Queues
  /\ Cardinality(Served) \in Nat
  /\ Cardinality(Served) >= 1
<1>1. Served \subseteq Queues /\ Served # {}
  BY DispatchAssumption DEF Served
<1>2. IsFiniteSet(Served)
  BY <1>1, DispatchAssumption, FS_Subset
<1>3. Cardinality(Served) \in Nat
  BY <1>2, FS_CardinalityType
<1>4. Cardinality(Served) # 0
  BY <1>1, <1>2, FS_EmptySet
<1> QED BY <1>1, <1>3, <1>4

\* The order of New names every queue that is served.
LEMMA OrderPositions ==
  ASSUME NEW order \in QueueOrders
  PROVE  /\ Len(order) = Cardinality(Served)
         /\ DOMAIN order = Positions
         /\ \A i \in Positions : order[i] \in Queues
<1>1. order \in [Positions -> Served]
  BY DEF QueueOrders, Orders, Positions
<1>2. Len(order) = Cardinality(Served)
  BY <1>1, ServedCount DEF Positions
<1> QED BY <1>1, <1>2, ServedCount

\* The queue that a dispatcher looks at exists.
LEMMA QueueExists ==
  ASSUME TurnTypeOK, NEW s \in Servers
  PROVE  Queue(s) \in Queues /\ disp[s].i \in Positions
BY OrderPositions DEF TurnTypeOK, Queue

\* The queues a dispatcher has gone past are queues it serves.
LEMMA PassedQueue ==
  ASSUME TurnTypeOK, NEW s \in Servers, NEW j \in 1 .. disp[s].i - 1
  PROVE  queues[s][j] \in Queues
<1>1. queues[s] \in QueueOrders
  BY Zenon DEF TurnTypeOK
<1>2. PICK c \in Nat : c = Cardinality(Served)
  BY ServedCount, Zenon
<1>3. PICK i \in 1 .. c : i = disp[s].i
  BY <1>2, QueueExists, Zenon DEF Positions
<1>4. j \in 1 .. c
  BY <1>3
<1> QED BY <1>1, <1>2, <1>4, OrderPositions, Zenon DEF Positions

\* The dispatchers other than s keep their place.
Alone(s) == \A r \in Servers : r # s => disp'[r] = disp[r]

\* Where a jump leads.
LEMMA GotoTurn ==
  ASSUME TurnTypeOK, NEW s \in Servers, NEW step \in Steps,
         NEW i \in Positions, Goto(s, step, i)
  PROVE  /\ disp' \in [Servers -> [at : Steps, i : Positions, left : Nat]]
         /\ disp'[s].at = step /\ disp'[s].i = i
         /\ Alone(s)
BY DEF TurnTypeOK, Goto, Alone

\* Where a wait leads.
LEMMA WaitTurn ==
  ASSUME TurnTypeOK, NEW s \in Servers, NEW duration \in Int,
         waitOrStop(s, duration)
  PROVE  /\ disp' \in [Servers -> [at : Steps, i : Positions, left : Nat]]
         /\ disp'[s].at = "wait"
         /\ Alone(s)
BY ServedCount DEF TurnTypeOK, waitOrStop, Alone, Steps, Positions

\* Where a queue without a task leads.
LEMMA NextTurn ==
  ASSUME TurnTypeOK, NEW s \in Servers, NextQueue(s)
  PROVE  /\ disp' \in [Servers -> [at : Steps, i : Positions, left : Nat]]
         /\ \/ disp'[s].at = "wait"
            \/ disp'[s].at = disp[s].at /\ disp'[s].i = disp[s].i + 1
         /\ Alone(s)
<1>1. CASE disp[s].i < Len(queues[s])
  <2>1. disp[s].at \in Steps /\ disp[s].i \in Positions
    BY DEF TurnTypeOK
  <2>2. disp[s].i + 1 \in Positions
    BY <1>1, <2>1, OrderPositions, ServedCount DEF TurnTypeOK, Positions
  <2>3. Goto(s, disp[s].at, disp[s].i + 1)
    BY <1>1 DEF NextQueue
  <2> QED BY <2>1, <2>2, <2>3, GotoTurn
<1>2. CASE ~(disp[s].i < Len(queues[s]))
  <2>1. waitOrStop(s, PollInterval) /\ PollInterval \in Int
    BY <1>2, DispatchAssumption DEF NextQueue
  <2> QED BY <2>1, WaitTurn
<1> QED BY <1>1, <1>2

\* Queues only lose tasks, and those they lose are claimed.
OnlyClaimed ==
  /\ pending' \in [Queues -> SUBSET Tasks] /\ claimed' \subseteq Tasks
  /\ \A q \in Queues : pending'[q] \subseteq pending[q]
  /\ Pending \cup claimed \subseteq Pending' \cup claimed'

\* A claim only claims, and so does a step that leaves the queues alone.
LEMMA TakeOnlyClaims ==
  ASSUME TurnTypeOK, NEW s \in Servers,
         Take(s) \/ UNCHANGED <<pending, claimed>>
  PROVE  OnlyClaimed
<1>1. CASE Take(s)
  <2>1. PICK t \in pending[Queue(s)] :
          /\ pending' = [pending EXCEPT ![Queue(s)] = @ \ {t}]
          /\ claimed' = claimed \cup {t}
    BY <1>1, Zenon DEF Take
  <2>2. Queue(s) \in Queues /\ pending \in [Queues -> SUBSET Tasks]
    BY QueueExists DEF TurnTypeOK
  <2>3. t \in Tasks
    BY <2>1, <2>2
  <2>4. \A q \in Queues : /\ pending'[q] \subseteq pending[q]
                         /\ pending[q] \subseteq pending'[q] \cup {t}
    BY <2>1, <2>2
  <2>5. Pending \cup claimed \subseteq Pending' \cup claimed'
    BY <2>1, <2>4 DEF Pending
  <2>6. pending' \in [Queues -> SUBSET Tasks]
    BY <2>1, <2>2
  <2> QED BY <2>1, <2>3, <2>4, <2>5, <2>6 DEF OnlyClaimed, TurnTypeOK
<1>2. CASE UNCHANGED <<pending, claimed>>
  BY <1>2 DEF OnlyClaimed, TurnTypeOK, Pending
<1> QED BY <1>1, <1>2

\* A step of dispatcher s preserves the invariant when it does for s.
LEMMA OneTurn ==
  ASSUME TurnInv, NEW s \in Servers, OnlyClaimed, Alone(s),
         UNCHANGED queues, faults' \in 0 .. MaxFaults,
         disp' \in [Servers -> [at : Steps, i : Positions, left : Nat]],
         NEW new \in SUBSET Tasks, seen' = [seen EXCEPT ![s] = new],
         new \subseteq Pending \cup claimed,
         disp'[s].at = "claim" =>
           \A j \in 1 .. disp'[s].i - 1 : new \cap pending'[queues[s][j]] = {}
  PROVE  TurnInv'
<1>1. TurnTypeOK'
  BY DEF TurnInv, TurnTypeOK, OnlyClaimed
<1>2. seen'[s] = new /\ \A r \in Servers : r # s => seen'[r] = seen[r]
  BY DEF TurnInv, TurnTypeOK
<1>3. \A r \in Servers : Known(r)'
  <2> SUFFICES ASSUME NEW r \in Servers
               PROVE  seen'[r] \subseteq Pending' \cup claimed'
    BY DEF Known
  <2>1. seen[r] \subseteq Pending \cup claimed
    BY DEF TurnInv, Known
  <2> QED BY <1>2, <2>1 DEF OnlyClaimed
<1>4. Passed(s)'
  BY <1>2 DEF Passed
<1>5. ASSUME NEW r \in Servers, r # s
      PROVE  Passed(r)'
  <2> SUFFICES ASSUME disp[r].at = "claim", NEW j \in 1 .. disp[r].i - 1
               PROVE  seen[r] \cap pending'[queues[r][j]] = {}
    BY <1>2, <1>5 DEF Passed, Alone
  <2>1. seen[r] \cap pending[queues[r][j]] = {}
    BY Zenon DEF TurnInv, Passed
  <2>2. queues[r][j] \in Queues
    BY PassedQueue, Zenon DEF TurnInv
  <2> QED BY <2>1, <2>2 DEF OnlyClaimed
<1> QED BY <1>1, <1>3, <1>4, <1>5 DEF TurnInv

\* The count of failed calls stays within its bound.
LEMMA FaultCount ==
  ASSUME TurnTypeOK, Fault \/ NoFault
  PROVE  faults' \in 0 .. MaxFaults
BY DispatchAssumption DEF TurnTypeOK, Fault, NoFault

\* The steps between two claims: nothing is kept in mind of what waits.
LEMMA LoopTurn ==
  ASSUME TurnInv, NEW s \in Servers,
         BeginTurn(s) \/ PendingCount(s) \/ EndWait(s)
  PROVE  TurnInv'
<1>1. TurnTypeOK /\ 1 \in Positions /\ PollInterval \in Int
  BY ServedCount, DispatchAssumption DEF TurnInv, Positions
<1>2. /\ UNCHANGED <<queues, pending, claimed, seen>>
      /\ Fault \/ NoFault
  BY DEF BeginTurn, PendingCount, EndWait, NoFault
<1>3. OnlyClaimed /\ faults' \in 0 .. MaxFaults
  BY <1>1, <1>2, TakeOnlyClaims, FaultCount
<1>4. /\ disp' \in [Servers -> [at : Steps, i : Positions, left : Nat]]
      /\ disp'[s].at # "claim" /\ Alone(s)
  <2>1. \/ \E step \in {"head", "count", "acquire"} : Goto(s, step, 1)
        \/ waitOrStop(s, PollInterval)
        \/ NextQueue(s) /\ disp[s].at = "count"
    BY DEF BeginTurn, PendingCount, EndWait
  <2>2. ASSUME NEW step \in {"head", "count", "acquire"}, Goto(s, step, 1)
        PROVE  /\ disp' \in [Servers -> [at : Steps, i : Positions, left : Nat]]
               /\ disp'[s].at # "claim" /\ Alone(s)
    <3>1. step \in Steps /\ step # "claim"
      BY DEF Steps
    <3> QED BY <1>1, <2>2, <3>1, GotoTurn, Zenon
  <2>3. CASE waitOrStop(s, PollInterval)
    <3>1. /\ disp' \in [Servers -> [at : Steps, i : Positions, left : Nat]]
          /\ disp'[s].at = "wait" /\ Alone(s)
      BY <1>1, <2>3, WaitTurn, Zenon
    <3> QED BY <3>1
  <2>4. CASE NextQueue(s) /\ disp[s].at = "count"
    <3>1. /\ disp' \in [Servers -> [at : Steps, i : Positions, left : Nat]]
          /\ disp'[s].at \in {"wait", "count"} /\ Alone(s)
      BY <1>1, <2>4, NextTurn, Zenon
    <3> QED BY <3>1
  <2> QED BY <2>1, <2>2, <2>3, <2>4, Zenon
<1>5. seen' = [seen EXCEPT ![s] = seen[s]] /\ seen[s] \in SUBSET Tasks
  BY <1>1, <1>2 DEF TurnTypeOK
<1>6. seen[s] \subseteq Pending \cup claimed
  BY DEF TurnInv, Known
<1> QED BY <1>2, <1>3, <1>4, <1>5, <1>6, OneTurn, Zenon

\* A token is asked for: with it the dispatcher starts over at the first queue.
LEMMA AcquireTurn ==
  ASSUME TurnInv, BucketInv, NEW s \in Servers, AcquireToken(s)
  PROVE  TurnInv'
<1> DEFINE new == IF disp'[s].at = "claim" THEN Pending ELSE {}
<1>1. /\ TurnTypeOK /\ 1 \in Positions /\ "claim" \in Steps
      /\ PollInterval \in Int
  BY ServedCount, DispatchAssumption DEF TurnInv, Positions, Steps
<1>2. ASSUME NEW t \in Refilled, NEW retry \in RetryAfter(TokenAmount, t)
      PROVE  retry \in Int
  <2>1. TokenAmount \in Amounts /\ TokenAmount \in Int /\ t \in Int /\ Year \in Int
    BY RefillBounds, Constants, DispatchAssumption, BucketAssumption DEF BucketInv
  <2>2. CASE Rate > 0 /\ t < TokenAmount
    BY <2>1, <2>2, RightWhenTold
  <2> QED BY <2>1, <2>2 DEF RetryAfter
<1>3. /\ UNCHANGED <<queues, pending, claimed>>
      /\ Fault \/ NoFault
      /\ seen' = [seen EXCEPT ![s] = new]
  BY Zenon DEF AcquireToken
<1>4. OnlyClaimed /\ faults' \in 0 .. MaxFaults
  BY <1>1, <1>3, TakeOnlyClaims, FaultCount
<1>5. /\ disp' \in [Servers -> [at : Steps, i : Positions, left : Nat]]
      /\ disp'[s].at = "claim" => disp'[s].i = 1
      /\ Alone(s)
  <2>1. \/ Goto(s, "claim", 1)
        \/ \E t \in Refilled : \E retry \in RetryAfter(TokenAmount, t) :
             waitOrStop(s, retry)
        \/ waitOrStop(s, PollInterval)
    BY Zenon DEF AcquireToken
  <2> QED BY <1>1, <1>2, <2>1, GotoTurn, WaitTurn
<1>6. new \in SUBSET Tasks /\ new \subseteq Pending \cup claimed
  BY <1>1 DEF TurnTypeOK, Pending
<1>7. disp'[s].at = "claim" => 1 .. disp'[s].i - 1 = {}
  BY <1>5
<1> HIDE DEF new
<1> QED BY <1>3, <1>4, <1>5, <1>6, <1>7, OneTurn, Zenon

\* A dispatcher that passes a queue has what waits there no longer in mind.
LEMMA ClaimTurn ==
  ASSUME TurnInv, NEW s \in Servers, Claim(s)
  PROVE  TurnInv'
<1> DEFINE new == IF disp'[s].at = "claim" THEN seen[s] \ pending[Queue(s)]
                  ELSE {}
<1>1. TurnTypeOK /\ 1 \in Positions /\ "head" \in Steps
  BY ServedCount DEF TurnInv, Positions, Steps
<1>2. /\ Take(s) \/ UNCHANGED <<pending, claimed>>
      /\ UNCHANGED queues
      /\ Fault \/ NoFault
      /\ disp[s].at = "claim"
  BY Zenon DEF Claim
<1>3. OnlyClaimed /\ faults' \in 0 .. MaxFaults
  BY <1>1, <1>2, TakeOnlyClaims, FaultCount
<1>4. seen \in [Servers -> SUBSET Tasks] /\ seen' = [seen EXCEPT ![s] = new]
  BY <1>1, Zenon DEF Claim, TurnTypeOK
<1>5. /\ disp' \in [Servers -> [at : Steps, i : Positions, left : Nat]]
      /\ disp'[s].at = "claim" => disp'[s].i = disp[s].i + 1
      /\ Alone(s)
  <2>1. Goto(s, "head", 1) \/ NextQueue(s)
    BY Zenon DEF Claim
  <2> QED BY <1>1, <1>2, <2>1, GotoTurn, NextTurn, Zenon
<1>6. new \in SUBSET Tasks /\ new \subseteq seen[s]
  BY <1>4
<1>7. new \subseteq Pending \cup claimed
  BY <1>6, Zenon DEF TurnInv, Known
<1>8. ASSUME disp'[s].at = "claim", NEW j \in 1 .. disp'[s].i - 1
      PROVE  new \cap pending'[queues[s][j]] = {}
  <2>1. disp[s].i \in Positions /\ Queue(s) \in Queues
    BY <1>1, QueueExists
  <2>2. j \in 1 .. disp[s].i - 1 \/ j = disp[s].i
    <3>1. PICK c \in Nat : c = Cardinality(Served)
      BY ServedCount, Zenon
    <3>2. PICK i \in 1 .. c : i = disp[s].i
      BY <2>1, <3>1, Zenon DEF Positions
    <3>3. j \in 1 .. (i + 1) - 1
      BY <1>5, <1>8, <3>2, Zenon
    <3> QED BY <3>2, <3>3
  <2>3. CASE j = disp[s].i
    <3>1. new \cap pending[Queue(s)] = {} /\ queues[s][j] = Queue(s)
      BY <2>3, Zenon DEF Queue
    <3> QED BY <1>3, <2>1, <3>1 DEF OnlyClaimed
  <2>4. CASE j \in 1 .. disp[s].i - 1
    <3>1. seen[s] \cap pending[queues[s][j]] = {}
      BY <1>2, <2>4, Zenon DEF TurnInv, Passed
    <3>2. queues[s][j] \in Queues
      BY <1>1, <2>4, PassedQueue, Zenon
    <3> QED BY <1>3, <1>6, <3>1, <3>2, Zenon DEF OnlyClaimed
  <2> QED BY <2>2, <2>3, <2>4, Zenon
<1> HIDE DEF new
<1> QED BY <1>2, <1>3, <1>4, <1>5, <1>6, <1>7, <1>8, OneTurn, Zenon

\* A task that is enqueued waits for the first time: nobody has it in mind.
LEMMA EnqueueTurn ==
  ASSUME TurnInv, NEW t \in Tasks, NEW q \in Queues, Enqueue(t, q)
  PROVE  TurnInv'
<1>1. /\ UNCHANGED <<queues, claimed, disp, seen, faults>>
      /\ t \notin Pending \cup claimed
      /\ pending' = [pending EXCEPT ![q] = @ \cup {t}]
      /\ pending \in [Queues -> SUBSET Tasks]
  BY DEF Enqueue, TurnInv, TurnTypeOK
<1>2. \A p \in Queues : /\ pending[p] \subseteq pending'[p]
                        /\ pending'[p] \subseteq pending[p] \cup {t}
  BY <1>1
<1>3. TurnTypeOK'
  BY <1>1 DEF TurnInv, TurnTypeOK
<1>4. Pending \subseteq Pending'
  BY <1>2, Zenon DEF Pending
<1>5. ASSUME NEW r \in Servers
      PROVE  Known(r)' /\ Passed(r)'
  <2>1. seen[r] \subseteq Pending \cup claimed
    BY DEF TurnInv, Known
  <2>2. Known(r)'
    BY <1>1, <1>4, <2>1 DEF Known
  <2>3. ASSUME disp[r].at = "claim", NEW j \in 1 .. disp[r].i - 1
        PROVE  seen[r] \cap pending'[queues[r][j]] = {}
    <3>1. seen[r] \cap pending[queues[r][j]] = {}
      BY <2>3, Zenon DEF TurnInv, Passed
    <3>2. queues[r][j] \in Queues
      BY PassedQueue, Zenon DEF TurnInv
    <3> QED BY <1>1, <1>2, <2>1, <3>1, <3>2
  <2>4. Passed(r)'
    BY <1>1, <2>3, Zenon DEF Passed
  <2> QED BY <2>2, <2>4
<1> QED BY <1>3, <1>5 DEF TurnInv

\* Time only shortens the waits.
LEMMA TickTurn ==
  ASSUME TurnInv, Tick
  PROVE  TurnInv'
<1>1. UNCHANGED <<queues, pending, claimed, seen, faults>>
  BY DEF Tick
<1>2. disp \in [Servers -> [at : Steps, i : Positions, left : Nat]]
  BY DEF TurnInv, TurnTypeOK
<1>3. disp' = [s \in Servers |-> IF disp[s].left > 0
                                 THEN [disp[s] EXCEPT !.left = @ - 1]
                                 ELSE disp[s]]
  BY DEF Tick
<1>4. ASSUME NEW s \in Servers
      PROVE  /\ disp'[s] \in [at : Steps, i : Positions, left : Nat]
             /\ disp'[s].at = disp[s].at /\ disp'[s].i = disp[s].i
  BY <1>2, <1>3
<1>5. disp' \in [Servers -> [at : Steps, i : Positions, left : Nat]]
  BY <1>3, <1>4
<1>6. TurnTypeOK'
  BY <1>1, <1>5 DEF TurnInv, TurnTypeOK
<1>7. \A s \in Servers : Known(s)' /\ Passed(s)'
  BY <1>1, <1>4 DEF TurnInv, Known, Passed, Pending
<1> QED BY <1>6, <1>7 DEF TurnInv

\* Every dispatcher begins at the head of its loop.
LEMMA TurnBegins == DispatchInit => TurnInv
<1> SUFFICES ASSUME DispatchInit
             PROVE  TurnInv
  OBVIOUS
<1>1. TurnTypeOK
  BY ServedCount, DispatchAssumption
     DEF DispatchInit, TurnTypeOK, Steps, Positions
<1>2. \A s \in Servers : Known(s) /\ Passed(s)
  BY DEF DispatchInit, Known, Passed
<1> QED BY <1>1, <1>2 DEF TurnInv

\* The invariant is inductive while the bucket is well formed.
LEMMA TurnNext ==
  ASSUME TurnInv, BucketInv, [DispatchNext]_vars
  PROVE  TurnInv'
<1>1. ASSUME NEW s \in Servers, Dispatch(s)
      PROVE  TurnInv'
  BY <1>1, LoopTurn, AcquireTurn, ClaimTurn DEF Dispatch
<1>2. ASSUME UNCHANGED dispatchVars
      PROVE  TurnInv'
  BY <1>2 DEF dispatchVars, TurnInv, TurnTypeOK, Known, Passed, Pending
<1> QED BY <1>1, <1>2, EnqueueTurn, TickTurn DEF DispatchNext, SetBack, vars

\* TurnInv holds in every behaviour of the dispatchers.
THEOREM DispatchersInvariant == DispatchSpec => []TurnInv
  BY TurnBegins, TurnNext, DispatchersShareBucket, BucketInvariant, PTL
     DEF DispatchSpec

\* The state of any number of dispatchers, queues and tasks is well typed.
THEOREM DispatchersTyped == DispatchSpec => []DispatchTypeOK
<1>1. TurnInv /\ BucketInv => DispatchTypeOK
  <2> SUFFICES ASSUME TurnInv, BucketInv
               PROVE  DispatchTypeOK
    OBVIOUS
  <2> QED BY DEF TurnInv, TurnTypeOK, Positions, DispatchTypeOK, BucketInv
<1> QED BY <1>1, DispatchersInvariant, DispatchersShareBucket, BucketInvariant,
           PTL

\* Strict priority, for any queues, priorities and servers: what a dispatcher
\* claims does not overtake a task that was waiting in a queue of higher
\* priority when it got its token (dispatch, New).
THEOREM DispatchersKeepPriority == DispatchSpec => PriorityKept
<1>1. ASSUME TurnInv, NEW s \in Servers, disp[s].at = "claim",
             NEW q \in Served, Priority[q] > Priority[Queue(s)]
      PROVE  seen[s] \cap pending[q] = {}
  <2>1. /\ queues[s] \in [Positions -> Served] /\ disp[s].i \in Positions
        /\ \A i, j \in Positions :
             i < j => Priority[queues[s][i]] >= Priority[queues[s][j]]
    BY <1>1, Zenon DEF TurnInv, TurnTypeOK, QueueOrders, Orders, Positions
  <2>2. PICK j \in Positions : queues[s][j] = q
    BY <1>1, Zenon DEF TurnInv, TurnTypeOK, QueueOrders, Orders, Positions
  <2>3. Priority[q] \in Int /\ Priority[Queue(s)] \in Int
    BY <1>1, <2>1, ServedCount, DispatchAssumption DEF Queue
  <2>4. PICK c \in Nat : c = Cardinality(Served)
    BY ServedCount, Zenon
  <2>5. PICK i \in 1 .. c : i = disp[s].i
    BY <2>1, <2>4, Zenon DEF Positions
  <2>6. i < j \/ i = j => Priority[Queue(s)] >= Priority[q]
    <3>1. CASE i < j
      BY <2>1, <2>2, <2>5, <3>1, Zenon DEF Queue
    <3>2. CASE i = j
      <4>1. Queue(s) = q
        BY <2>2, <2>5, <3>2, Zenon DEF Queue
      <4> QED BY <2>3, <4>1
    <3> QED BY <3>1, <3>2, Zenon
  <2>7. j \in 1 .. i - 1
    <3>1. j \in 1 .. c
      BY <2>4, Zenon DEF Positions
    <3>2. ~(i < j \/ i = j)
      BY <1>1, <2>3, <2>6
    <3> QED BY <3>1, <3>2
  <2> QED BY <1>1, <2>2, <2>5, <2>7, Zenon DEF TurnInv, Passed
<1>2. TurnInv /\ [DispatchNext]_vars =>
        [\A s \in Servers :
           disp[s].at = "claim" /\ disp'[s].at = "head" =>
             \A q \in Served : Priority[q] > Priority[Queue(s)] =>
               seen[s] \cap pending[q] = {}]_vars
  BY <1>1
<1> QED BY <1>2, DispatchersInvariant, PTL DEF DispatchSpec, PriorityKept
=============================================================================
