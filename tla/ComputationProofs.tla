-------------------------- MODULE ComputationProofs --------------------------
(***************************************************************************)
(* The computations of the system, for every input and every value of the   *)
(* constants: the delay before a retry, the message that a client makes of  *)
(* the options, and the rank under which a task waits.                      *)
(*                                                                         *)
(* The loops of ExponentialBackoff and of Enqueue are recursive functions.  *)
(* That they exist and what they compute are shown by induction on the      *)
(* number of turns, stated for sets of numbers and for functions.           *)
(***************************************************************************)
EXTENDS Backoff, TaskClient, TaskRank, WellFoundedInduction, TLAPS

(* Recursion on natural numbers *)

\* A set of numbers has a least element.
LEMMA LeastElement ==
  ASSUME NEW S \in SUBSET Nat, S # {}
  PROVE  \E x \in S : \A y \in S : x <= y
<1> DEFINE R == OpToRel(<, Nat)
<1>1. IsWellFoundedOn(R, Nat)
  BY NatLessThanWellFounded
<1>2. PICK x \in S : \A y \in S : <<y, x>> \notin R
  <2> HIDE DEF R
  <2> QED BY <1>1, WFMin, Zenon
<1>3. ASSUME NEW y \in S
      PROVE  x <= y
  <2>1. y \in Nat /\ x \in Nat
    OBVIOUS
  <2>2. ~(y < x)
    BY <1>2, <2>1, Zenon DEF OpToRel
  <2> QED BY <2>1, <2>2
<1> QED BY <1>3

\* A set with 0 and the successors of its elements has every number.
LEMMA NatSet ==
  ASSUME NEW S, 0 \in S, \A n \in Nat : n \in S => n + 1 \in S
  PROVE  Nat \subseteq S
<1> DEFINE Missing == {n \in Nat : n \notin S}
<1>1. SUFFICES ASSUME Missing # {}
               PROVE  FALSE
  OBVIOUS
<1>2. PICK x \in Missing : \A y \in Missing : x <= y
  <2>1. Missing \in SUBSET Nat
    OBVIOUS
  <2> HIDE DEF Missing
  <2> QED BY <1>1, <2>1, LeastElement
<1>3. x \in Nat /\ x # 0 /\ x - 1 \in Nat /\ ~(x <= x - 1) /\ x = (x - 1) + 1
  OBVIOUS
<1>4. x - 1 \notin Missing
  BY <1>2, <1>3
<1> QED BY <1>3, <1>4

\* The first n steps from first, as functions on 0 .. n.
Prefixes(S, first, step, n) ==
  {h \in [0 .. n -> S] :
     /\ h[0] = first
     /\ \A k \in 0 .. n - 1 : h[k + 1] = step[k + 1][h[k]]}

\* Two prefixes agree where both are defined.
LEMMA PrefixesAgree ==
  ASSUME NEW S, NEW first \in S, NEW step \in [Nat -> [S -> S]],
         NEW n \in Nat, NEW m \in Nat,
         NEW h \in Prefixes(S, first, step, n),
         NEW j \in Prefixes(S, first, step, m)
  PROVE  \A k \in Nat : k <= n /\ k <= m => h[k] = j[k]
<1> DEFINE A == {k \in Nat : k <= n /\ k <= m => h[k] = j[k]}
<1>1. 0 \in A
  BY DEF Prefixes
<1>2. ASSUME NEW k \in Nat, k \in A
      PROVE  k + 1 \in A
  <2> SUFFICES ASSUME k + 1 <= n, k + 1 <= m
               PROVE  h[k + 1] = j[k + 1]
    OBVIOUS
  <2>1. k \in 0 .. n - 1 /\ k \in 0 .. m - 1 /\ h[k] = j[k]
    BY <1>2
  <2>2. h[k + 1] = step[k + 1][h[k]] /\ j[k + 1] = step[k + 1][j[k]]
    BY <2>1 DEF Prefixes
  <2> QED BY <2>1, <2>2
<1>3. Nat \subseteq A
  <2> HIDE DEF A
  <2> QED BY <1>1, <1>2, NatSet
<1> QED BY <1>3

\* There is a prefix of every length.
LEMMA PrefixesExist ==
  ASSUME NEW S, NEW first \in S, NEW step \in [Nat -> [S -> S]]
  PROVE  \A n \in Nat : Prefixes(S, first, step, n) # {}
<1> DEFINE A == {n \in Nat : Prefixes(S, first, step, n) # {}}
<1>1. 0 \in A
  <2>1. [k \in 0 .. 0 |-> first] \in Prefixes(S, first, step, 0)
    BY DEF Prefixes
  <2> QED BY <2>1
<1>2. ASSUME NEW n \in Nat, n \in A
      PROVE  n + 1 \in A
  <2>1. PICK h \in [0 .. n -> S] :
          h[0] = first /\ \A k \in 0 .. n - 1 : h[k + 1] = step[k + 1][h[k]]
    BY <1>2 DEF Prefixes
  <2> DEFINE j == [k \in 0 .. n + 1 |->
                     IF k = n + 1 THEN step[n + 1][h[n]] ELSE h[k]]
  <2>2. n \in 0 .. n /\ step[n + 1][h[n]] \in S
    <3>1. step[n + 1] \in [S -> S] /\ h[n] \in S
      BY <2>1
    <3> QED BY <3>1
  <2>3. j \in [0 .. n + 1 -> S]
    BY <2>1, <2>2
  <2>4. j[0] = first
    BY <2>1
  <2>5. ASSUME NEW k \in 0 .. (n + 1) - 1
        PROVE  j[k + 1] = step[k + 1][j[k]]
    <3>1. CASE k = n
      BY <3>1, <2>2
    <3>2. CASE k \in 0 .. n - 1
      BY <2>1, <3>2
    <3> QED BY <3>1, <3>2
  <2>6. j \in Prefixes(S, first, step, n + 1)
    BY <2>3, <2>4, <2>5, Zenon DEF Prefixes
  <2> QED BY <2>6
<1>3. Nat \subseteq A
  <2> HIDE DEF A
  <2> QED BY <1>1, <1>2, NatSet
<1> QED BY <1>3

\* f is the sequence of results of all steps.
Iterates(f, first, step) ==
  f[0] = first /\ \A n \in Nat \ {0} : f[n] = step[n][f[n - 1]]

\* Steps can be taken for ever.
LEMMA Iteration ==
  ASSUME NEW S, NEW first \in S, NEW step \in [Nat -> [S -> S]]
  PROVE  \E f \in [Nat -> S] : Iterates(f, first, step)
<1> DEFINE P(n) == Prefixes(S, first, step, n)
           h == [n \in Nat |-> CHOOSE p \in P(n) : TRUE]
           f == [n \in Nat |-> h[n][n]]
<1>1. \A n \in Nat : h[n] \in P(n)
  BY PrefixesExist
<1> HIDE DEF h
<1>2. \A n \in Nat : f[n] = h[n][n]
  OBVIOUS
<1>3. \A n \in Nat : f[n] \in S
  BY <1>1 DEF Prefixes
<1>4. f[0] = first
  BY <1>1 DEF Prefixes
<1>5. ASSUME NEW n \in Nat, n # 0
      PROVE  f[n] = step[n][f[n - 1]]
  <2>1. n - 1 \in Nat /\ n - 1 <= n /\ n - 1 \in 0 .. n - 1 /\ n = (n - 1) + 1
    BY <1>5
  <2>2. h[n] \in P(n) /\ h[n - 1] \in P(n - 1)
    BY <1>1, <2>1
  <2>3. h[n][n] = step[n][h[n][n - 1]]
    BY <2>1, <2>2 DEF Prefixes
  <2>4. h[n][n - 1] = h[n - 1][n - 1]
    BY <2>1, <2>2, PrefixesAgree
  <2> QED BY <1>2, <2>1, <2>3, <2>4
<1>6. f \in [Nat -> S]
  BY <1>3
<1> HIDE DEF f
<1> QED BY <1>4, <1>5, <1>6 DEF Iterates
-----------------------------------------------------------------------------
(* Powers of two *)

\* Their recursion.
LEMMA Powers ==
  /\ TwoTo[0] = 1
  /\ \A n \in Nat : TwoTo[n + 1] = 2 * TwoTo[n]
  /\ \A n \in Nat : TwoTo[n] \in Nat \ {0}
<1> DEFINE S == Nat \ {0}
           step == [n \in Nat |-> [x \in S |-> 2 * x]]
           Power(f) == f = [n \in Nat |-> IF n = 0 THEN 1 ELSE 2 * f[n - 1]]
<1>1. 1 \in S /\ step \in [Nat -> [S -> S]]
  OBVIOUS
<1>2. PICK f \in [Nat -> S] : Iterates(f, 1, step)
  <2> HIDE DEF S, step
  <2> QED BY <1>1, Iteration
<1>3. ASSUME NEW n \in Nat \ {0}
      PROVE  f[n] = 2 * f[n - 1]
  <2>1. n - 1 \in Nat
    OBVIOUS
  <2>2. f[n - 1] \in S
    BY <2>1
  <2> QED BY <1>2, <2>2, Zenon DEF Iterates
<1>4. Power(f)
  BY <1>2, <1>3 DEF Iterates
<1>5. Power(TwoTo)
  BY <1>4 DEF TwoTo
<1>6. TwoTo[0] = 1 /\ \A n \in Nat : TwoTo[n + 1] = 2 * TwoTo[n]
  <2>1. ASSUME NEW g, Power(g), NEW n \in Nat
        PROVE  g[0] = 1 /\ g[n + 1] = 2 * g[n]
    <3>1. n + 1 \in Nat /\ n + 1 # 0 /\ (n + 1) - 1 = n
      OBVIOUS
    <3> QED BY <2>1, <3>1
  <2> HIDE DEF Power
  <2> QED BY <1>5, <2>1
<1> DEFINE A == {n \in Nat : TwoTo[n] \in S}
<1>7. 0 \in A /\ \A n \in Nat : n \in A => n + 1 \in A
  BY <1>6
<1>8. Nat \subseteq A
  <2> HIDE DEF A
  <2> QED BY <1>7, NatSet
<1> QED BY <1>6, <1>8

\* They grow, and their products are powers of two.
LEMMA PowersGrow ==
  ASSUME NEW m \in Nat, NEW n \in Nat
  PROVE  /\ TwoTo[m + n] = TwoTo[m] * TwoTo[n]
         /\ TwoTo[m] <= TwoTo[m + n]
<1> DEFINE A == {k \in Nat : TwoTo[m + k] = TwoTo[m] * TwoTo[k]}
<1>1. TwoTo[m] \in Nat \ {0}
  BY Powers
<1>2. 0 \in A
  <2>1. m + 0 = m /\ TwoTo[m] * 1 = TwoTo[m]
    BY <1>1
  <2> QED BY <2>1, Powers
<1>3. ASSUME NEW k \in Nat, k \in A
      PROVE  k + 1 \in A
  <2>1. PICK x \in Nat, y \in Nat : x = TwoTo[m] /\ y = TwoTo[k]
    BY Powers
  <2>2. TwoTo[m + k] = x * y
    BY <1>3, <2>1
  <2>3. m + (k + 1) = (m + k) + 1 /\ m + k \in Nat
    OBVIOUS
  <2>4. TwoTo[m + (k + 1)] = 2 * (x * y) /\ TwoTo[k + 1] = 2 * y
    BY <2>1, <2>2, <2>3, Powers
  <2>5. 2 * (x * y) = x * (2 * y)
    OBVIOUS
  <2> QED BY <2>1, <2>4, <2>5
<1>4. Nat \subseteq A
  <2> HIDE DEF A
  <2> QED BY <1>2, <1>3, NatSet
<1>5. TwoTo[m + n] = TwoTo[m] * TwoTo[n]
  BY <1>4
<1>6. PICK x \in Nat \ {0}, y \in Nat \ {0} : x = TwoTo[m] /\ y = TwoTo[n]
  BY Powers, Zenon
<1>7. x <= x * y
  OBVIOUS
<1> QED BY <1>5, <1>6, <1>7

-----------------------------------------------------------------------------
(* Durations *)

\* A duration can be positive, and so can the default of the maximum.
LEMMA DurationFacts ==
  /\ MaxDuration \in Nat /\ MaxDuration >= 3
  /\ DefaultMax \in 1 .. MaxDuration
  /\ DefaultBase \in 1 .. MaxDuration
<1> DEFINE n == DurationBits - 3
<1>1. n \in Nat /\ DurationBits - 1 = (n + 1) + 1
  BY BackoffAssumption
<1> HIDE DEF n
<1>2. TwoTo[n] \in Nat \ {0} /\ TwoTo[(n + 1) + 1] = 4 * TwoTo[n]
  BY <1>1, Powers
<1>3. MaxDuration = 4 * TwoTo[n] - 1
  BY <1>1, <1>2 DEF MaxDuration
<1>4. MaxDuration \in Nat /\ MaxDuration >= 3
  BY <1>2, <1>3
<1> QED BY <1>4 DEF DefaultMax, DefaultBase

\* A duration that is not too long does not wrap around.
LEMMA WrapKeeps ==
  ASSUME NEW x \in 0 .. MaxDuration
  PROVE  Wrap(x) = x
<1>1. ASSUME NEW y \in Nat, NEW z \in Nat, y < z
      PROVE  y % z = y
  BY <1>1
<1>2. PICK m \in Nat : m = MaxDuration
  BY DurationFacts
<1>3. (x + m + 1) % (2 * (m + 1)) = x + m + 1
  BY <1>1, <1>2
<1> QED BY <1>2, <1>3 DEF Wrap

\* A turn of the loop keeps a result positive and in range.
LEMMA DoubledRange ==
  ASSUME NEW x \in 1 .. MaxDuration, NEW max \in 1 .. MaxDuration
  PROVE  /\ Doubled(x, max) \in 1 .. MaxDuration
         /\ x >= max => Doubled(x, max) = x
         /\ x < max /\ 2 * x > max => Doubled(x, max) = max
         /\ x < max /\ 2 * x <= max => Doubled(x, max) = 2 * x
<1>1. MaxDuration \in Nat
  BY DurationFacts
<1>2. x > max \div 2 <=> 2 * x > max
  BY <1>1
<1>3. CASE 2 * x <= max
  <2>1. 2 * x \in 0 .. MaxDuration /\ 2 * x \in 1 .. MaxDuration
    BY <1>1, <1>3
  <2> QED BY <1>1, <1>2, <1>3, <2>1, WrapKeeps DEF Doubled
<1>4. CASE 2 * x > max
  BY <1>1, <1>2, <1>4 DEF Doubled
<1> QED BY <1>1, <1>3, <1>4

\* The turns of a loop stay in a set.
StaysIn(S, max) == \A x \in S : Doubled(x, max) \in S

\* The results of such a loop.
LEMMA ResultsStep ==
  ASSUME NEW S, NEW base \in S, NEW max, StaysIn(S, max)
  PROVE  /\ Results(base, max)[0] = base
         /\ \A n \in Nat : Results(base, max)[n + 1]
                             = Doubled(Results(base, max)[n], max)
<1> DEFINE step == [n \in Nat |-> [x \in S |-> Doubled(x, max)]]
           Loop(f) ==
             f = [i \in Nat |-> IF i = 0 THEN base ELSE Doubled(f[i - 1], max)]
<1>1. step \in [Nat -> [S -> S]]
  BY DEF StaysIn
<1>2. PICK f \in [Nat -> S] : Iterates(f, base, step)
  <2> HIDE DEF step
  <2> QED BY <1>1, Iteration
<1>3. ASSUME NEW n \in Nat \ {0}
      PROVE  f[n] = Doubled(f[n - 1], max)
  <2>1. n - 1 \in Nat
    OBVIOUS
  <2>2. f[n - 1] \in S
    BY <2>1
  <2> QED BY <1>2, <2>2, Zenon DEF Iterates
<1>4. Loop(f)
  BY <1>2, <1>3 DEF Iterates
<1>5. Loop(Results(base, max))
  BY <1>4 DEF Results
<1> QED BY <1>5

\* The loop computes the doubled base, capped: what it keeps from turn to turn.
LEMMA ResultsCapped ==
  ASSUME NEW base \in 1 .. MaxDuration, NEW max \in 1 .. MaxDuration
  PROVE  \A n \in Nat : Lesser(Results(base, max)[n], max)
                           = Lesser(max, base * TwoTo[n])
<1> DEFINE S == 1 .. MaxDuration
           result(n) == Results(base, max)[n]
           A == {n \in Nat : /\ result(n) \in S
                             /\ Lesser(result(n), max)
                                  = Lesser(max, base * TwoTo[n])}
<1>1. MaxDuration \in Nat
  BY DurationFacts
<1>2. base \in S /\ StaysIn(S, max)
  BY DoubledRange DEF StaysIn
<1>3. result(0) = base /\ \A n \in Nat : result(n + 1) = Doubled(result(n), max)
  <2> HIDE DEF S
  <2> QED BY <1>2, ResultsStep
<1> HIDE DEF result
<1>4. 0 \in A
  <2>1. base * TwoTo[0] = base
    BY <1>1, Powers
  <2>2. Lesser(base, max) = Lesser(max, base)
    BY <1>1 DEF Lesser
  <2> QED BY <1>2, <1>3, <2>1, <2>2, Zenon
<1>5. ASSUME NEW n \in Nat, n \in A
      PROVE  n + 1 \in A
  <2>1. PICK x \in S : x = result(n)
    BY <1>5
  <2>2. PICK y \in Nat : y = base * TwoTo[n] /\ base * TwoTo[n + 1] = 2 * y
    <3>1. TwoTo[n] \in Nat /\ base \in Nat /\ TwoTo[n + 1] = 2 * TwoTo[n]
      BY <1>1, Powers
    <3> QED BY <3>1
  <2>3. Lesser(x, max) = Lesser(max, y)
    BY <1>5, <2>1, <2>2
  <2>4. result(n + 1) = Doubled(x, max) /\ Doubled(x, max) \in S
    BY <1>2, <1>3, <2>1 DEF StaysIn
  <2>5. Lesser(Doubled(x, max), max) = Lesser(max, 2 * y)
    <3>1. PICK d \in S : d = Doubled(x, max)
      BY <2>4
    <3>2. /\ x >= max => d = x
          /\ x < max /\ 2 * x > max => d = max
          /\ x < max /\ 2 * x <= max => d = 2 * x
      BY <3>1, DoubledRange, Zenon
    <3>3. max \in Nat /\ x \in Nat /\ d \in Nat
      BY <1>1
    <3>4. Lesser(d, max) = Lesser(max, 2 * y)
      BY <2>3, <3>2, <3>3 DEF Lesser
    <3> QED BY <3>1, <3>4
  <2> QED BY <2>2, <2>4, <2>5
<1>6. Nat \subseteq A
  <2> HIDE DEF A
  <2> QED BY <1>4, <1>5, NatSet
<1> QED BY <1>6 DEF result
-----------------------------------------------------------------------------
(* The delay *)

\* The delay that is meant: the base doubled count times, capped.
Ideal(count, base, max) ==
  Lesser(OrDefault(max, DefaultMax),
         OrDefault(base, DefaultBase) * TwoTo[count])

\* ExponentialBackoff returns it, and it is a duration within the limit.
LEMMA BackoffIdeal ==
  ASSUME NEW count \in Nat, NEW base \in Durations, NEW max \in Durations
  PROVE  /\ ExponentialBackoff(count, base, max) = Ideal(count, base, max)
         /\ OrDefault(max, DefaultMax) \in 1 .. MaxDuration
         /\ Ideal(count, base, max) \in 1 .. OrDefault(max, DefaultMax)
<1> DEFINE first == OrDefault(base, DefaultBase)
           limit == OrDefault(max, DefaultMax)
<1>1. first \in 1 .. MaxDuration /\ limit \in 1 .. MaxDuration
  BY DurationFacts DEF OrDefault, Durations
<1>2. ExponentialBackoff(count, base, max)
        = Lesser(Results(first, limit)[count], limit)
  <2>1. (IF count < 0 THEN 0 ELSE count) = count
    OBVIOUS
  <2> QED BY <2>1 DEF ExponentialBackoff
<1> HIDE DEF first, limit
<1>3. Lesser(Results(first, limit)[count], limit)
        = Lesser(limit, first * TwoTo[count])
  BY <1>1, ResultsCapped
<1>4. Lesser(limit, first * TwoTo[count]) \in 1 .. limit
  <2>1. PICK p \in Nat \ {0} : p = TwoTo[count]
    BY Powers
  <2>2. first \in Nat \ {0} /\ limit \in Nat \ {0}
    BY <1>1, DurationFacts
  <2>3. first * p \in Nat \ {0}
    BY <2>1, <2>2
  <2> QED BY <2>1, <2>2, <2>3 DEF Lesser
<1> QED BY <1>1, <1>2, <1>3, <1>4 DEF Ideal, first, limit

\* Factors that are positive can be dropped from an inequality.
LEMMA CancelFactor ==
  ASSUME NEW x \in Int, NEW y \in Int, NEW k \in Nat \ {0}
  PROVE  /\ x * k < y * k => x < y
         /\ x * k <= y * k => x <= y
OBVIOUS

\* A number drawn between lower and upper, rounded down.
LEMMA DrawnBetween ==
  ASSUME NEW lower \in Int, NEW upper \in Int, NEW parts \in Nat \ {0},
         lower < upper, NEW r \in 0 .. parts - 1
  PROVE  LET d == (lower * parts + r * (upper - lower)) \div (parts * parts)
         IN  d \in Int /\ d * parts < upper /\ lower < (d + 1) * parts
<1> DEFINE n == lower * parts + r * (upper - lower)
           q == parts * parts
           d == n \div q
<1>1. q \in Nat \ {0} /\ n \in Int
  OBVIOUS
<1>2. d \in Int /\ d * q <= n /\ n < d * q + q
  <2> HIDE DEF n, q
  <2> QED BY <1>1
<1>3. PICK w \in Nat \ {0} : w = upper - lower
  OBVIOUS
<1>4. 0 <= r * w /\ r * w < parts * w
  <2>1. r \in Nat /\ parts - r \in Nat \ {0}
    OBVIOUS
  <2>2. (parts - r) * w \in Nat \ {0} /\ r * w \in Nat
    BY <2>1
  <2>3. (parts - r) * w = parts * w - r * w
    OBVIOUS
  <2> QED BY <2>2, <2>3
<1>5. lower * parts <= n /\ n < upper * parts
  <2>1. parts * w = upper * parts - lower * parts
    BY <1>3
  <2> QED BY <1>3, <1>4, <2>1
<1>6. d * q = (d * parts) * parts /\ d * q + q = ((d + 1) * parts) * parts
  <2>1. ASSUME NEW x \in Int
        PROVE  /\ x * q = (x * parts) * parts
               /\ x * q + q = ((x + 1) * parts) * parts
    OBVIOUS
  <2> HIDE DEF n, q, d
  <2> QED BY <1>2, <2>1
<1> HIDE DEF n, q, d
<1>7. (d * parts) * parts < upper * parts
  BY <1>1, <1>2, <1>5, <1>6
<1>8. lower * parts < ((d + 1) * parts) * parts
  BY <1>1, <1>2, <1>5, <1>6
<1>9. d * parts < upper /\ lower < (d + 1) * parts
  BY <1>2, <1>7, <1>8, CancelFactor
<1> QED BY <1>2, <1>9 DEF n, q, d

\* What jitter does to a delay.
LEMMA JitterBounded ==
  ASSUME NEW count \in Nat, NEW base \in Durations, NEW max \in Durations,
         NEW jitter \in Int,
         NEW d \in ExponentialBackoffWithJitter(count, base, max, jitter)
  PROVE  LET limit == OrDefault(max, DefaultMax)
             ideal == Ideal(count, base, max)
         IN  /\ d \in 1 .. limit
             /\ d > ideal => (d - ideal) * JitterParts <= jitter * ideal
             /\ d < ideal => \/ d = 1
                             \/ (ideal - d - 1) * JitterParts < jitter * ideal
<1> DEFINE limit == OrDefault(max, DefaultMax)
           ideal == Ideal(count, base, max)
           part == Lesser(jitter, JitterParts)
           lower == ideal * (JitterParts - part)
           upper == Lesser(ideal * (JitterParts + part), max * JitterParts)
           Drawn(r) == (lower * JitterParts + r * (upper - lower))
                         \div (JitterParts * JitterParts)
<1>1. /\ ExponentialBackoff(count, base, max) = ideal
      /\ limit \in Nat \ {0} /\ ideal \in Nat \ {0} /\ ideal <= limit
  BY BackoffIdeal, DurationFacts
<1>2. d \in IF jitter <= 0 \/ upper <= lower
              THEN {ideal}
              ELSE {OrDefault(Drawn(r), 1) : r \in 0 .. JitterParts - 1}
  BY <1>1 DEF ExponentialBackoffWithJitter
<1>3. JitterParts \in Nat \ {0} /\ max \in Int /\ (max > 0 => limit = max)
  BY BackoffAssumption, DurationFacts DEF Durations, OrDefault
<1> HIDE DEF limit, ideal
<1>4. CASE jitter <= 0 \/ upper <= lower
  <2>1. d = ideal
    BY <1>2, <1>4
  <2> QED BY <1>1, <2>1 DEF limit, ideal
<1>5. CASE ~(jitter <= 0 \/ upper <= lower)
  <2>1. PICK r \in 0 .. JitterParts - 1 : d = OrDefault(Drawn(r), 1)
    BY <1>2, <1>5
  <2>2. part \in 1 .. JitterParts /\ part <= jitter
    BY <1>3, <1>5 DEF Lesser
  <2> HIDE DEF part
  <2>3. /\ lower \in Nat /\ upper \in Int /\ lower < upper
        /\ upper <= ideal * (JitterParts + part)
        /\ upper <= max * JitterParts
    <3>1. ideal * (JitterParts - part) \in Nat
      BY <1>1, <1>3, <2>2
    <3>2. ideal * (JitterParts + part) \in Int /\ max * JitterParts \in Int
      BY <1>1, <1>3, <2>2
    <3> QED BY <1>5, <3>1, <3>2 DEF Lesser
  <2>4. max * JitterParts > 0 => max > 0
    BY <1>3
  <2>5. limit = max /\ max \in Nat
    BY <1>3, <2>3, <2>4
  <2>6. lower = ideal * JitterParts - ideal * part
    BY <1>1, <1>3, <2>2
  <2>7. upper <= ideal * JitterParts + ideal * part
    BY <1>1, <1>3, <2>2, <2>3
  <2>8. ideal * part <= jitter * ideal
    BY <1>1, <2>2
  <2>9. PICK x \in Int : /\ x = Drawn(r)
                         /\ x * JitterParts < upper
                         /\ lower < (x + 1) * JitterParts
    <3> HIDE DEF lower, upper
    <3> QED BY <1>3, <2>1, <2>3, DrawnBetween
  <2> HIDE DEF lower, upper, Drawn
  <2>10. d = IF x <= 0 THEN 1 ELSE x
    BY <2>1, <2>9 DEF OrDefault
  <2>11. x <= limit
    <3>1. x * JitterParts <= limit * JitterParts
      BY <1>3, <2>3, <2>5, <2>9
    <3> QED BY <1>1, <1>3, <3>1, CancelFactor
  <2>12. (x - ideal) * JitterParts <= jitter * ideal
    <3>1. (x - ideal) * JitterParts = x * JitterParts - ideal * JitterParts
      BY <1>1, <1>3
    <3> QED BY <1>1, <1>3, <2>2, <2>3, <2>7, <2>8, <2>9, <3>1
  <2>13. (ideal - x - 1) * JitterParts < jitter * ideal
    <3>1. (ideal - x - 1) * JitterParts
            = ideal * JitterParts - (x + 1) * JitterParts
      BY <1>1, <1>3
    <3> QED BY <1>1, <1>3, <2>2, <2>3, <2>6, <2>8, <2>9, <3>1
  <2> QED BY <1>1, <2>10, <2>11, <2>12, <2>13 DEF limit, ideal
<1> QED BY <1>4, <1>5

\* For every retry count and every width of a duration: the doubling does not
\* wrap around, the delay is the doubled base or the maximum, and jitter keeps
\* it positive, within the maximum and near that value (ExponentialBackoff,
\* ExponentialBackoffWithJitter).
THEOREM BackoffDelays == \A count \in Nat : DelayBounded(count)
<1> SUFFICES ASSUME NEW count \in Nat
             PROVE  DelayBounded(count)
  OBVIOUS
<1>1. ASSUME NEW base \in Durations, NEW max \in Durations
      PROVE  ExponentialBackoff(count, base, max) = Ideal(count, base, max)
  BY BackoffIdeal
<1> QED BY <1>1, JitterBounded DEF DelayBounded, Ideal
-----------------------------------------------------------------------------
(* The options of a task *)

\* The options of the client with any numbers, not only those of an instance.
Texts == {"", "other"}
TextFields == {"id", "queue"}
NumberFields ==
  {"priority", "maxRetry", "timeout", "deadline", "runAt", "runIn"}
AnyOption ==
  {NilOption} \cup [field : TextFields, value : Texts]
              \cup [field : NumberFields, value : Int]

\* taskOptions
TaskOptions ==
  [id : Texts \cup {"random"}, queue : Texts \cup {"default"},
   priority : Int, maxRetry : Int, timeout : Int, deadline : Int,
   runAt : Int, runAtSet : BOOLEAN, runIn : Int, runInSet : BOOLEAN]

\* An option is nil, a text or a number.
LEMMA OptionKinds ==
  ASSUME NEW o \in AnyOption
  PROVE  \/ o.field = "nil"
         \/ o.field \in TextFields /\ o.value \in Texts
         \/ o.field \in NumberFields /\ o.value \in Int
BY DEF AnyOption, NilOption

\* What an option does to the fields.
LEMMA ApplyFields ==
  ASSUME NEW o \in AnyOption, NEW options \in TaskOptions
  PROVE  LET new == Apply(o, options)
         IN  /\ new \in TaskOptions
             /\ \A f \in Plain :
                  new[f] = IF o.field = f THEN o.value ELSE options[f]
             /\ o.field = "runAt" => new.runAt = o.value /\ ~new.runInSet
             /\ o.field = "runIn" => new.runIn = o.value /\ new.runInSet
             /\ o.field \notin {"runAt", "runIn"} =>
                  /\ new.runAt = options.runAt /\ new.runIn = options.runIn
                  /\ new.runInSet = options.runInSet
<1>1. CASE o.field = "nil"
  BY <1>1 DEF Apply, Plain
<1>2. CASE o.field = "runAt"
  <2>1. o.value \in Int
    BY <1>2, OptionKinds DEF TextFields
  <2>2. Apply(o, options) = [options EXCEPT !.runAt = o.value,
                               !.runAtSet = TRUE, !.runInSet = FALSE]
    BY <1>2 DEF Apply
  <2> QED BY <1>2, <2>1, <2>2, Zenon DEF TaskOptions, Plain
<1>3. CASE o.field = "runIn"
  <2>1. o.value \in Int
    BY <1>3, OptionKinds DEF TextFields
  <2>2. Apply(o, options) = [options EXCEPT !.runIn = o.value,
                               !.runInSet = TRUE, !.runAtSet = FALSE]
    BY <1>3 DEF Apply
  <2> QED BY <1>3, <2>1, <2>2, Zenon DEF TaskOptions, Plain
<1>4. CASE o.field \in Plain
  <2>1. Apply(o, options) = [options EXCEPT ![o.field] = o.value]
    BY <1>4 DEF Apply, Plain
  <2>2. CASE o.field \in {"id", "queue"}
    <3>1. o.value \in Texts
      BY <2>2, OptionKinds DEF NumberFields
    <3>2. CASE o.field = "id"
      BY <2>1, <3>1, <3>2 DEF TaskOptions, Plain
    <3>3. CASE o.field = "queue"
      BY <2>1, <3>1, <3>3 DEF TaskOptions, Plain
    <3> QED BY <2>2, <3>2, <3>3
  <2>3. CASE o.field \in Plain \ {"id", "queue"}
    <3>1. o.value \in Int
      BY <2>3, OptionKinds DEF TextFields, Plain
    <3>2. CASE o.field = "priority"
      BY <2>1, <3>1, <3>2 DEF TaskOptions, Plain
    <3>3. CASE o.field = "maxRetry"
      BY <2>1, <3>1, <3>3 DEF TaskOptions, Plain
    <3>4. CASE o.field = "timeout"
      BY <2>1, <3>1, <3>4 DEF TaskOptions, Plain
    <3>5. CASE o.field = "deadline"
      BY <2>1, <3>1, <3>5 DEF TaskOptions, Plain
    <3> QED BY <2>3, <3>2, <3>3, <3>4, <3>5 DEF Plain
  <2> QED BY <1>4, <2>2, <2>3 DEF Plain
<1>5. o.field \in Plain \cup {"nil", "runAt", "runIn"}
  BY OptionKinds DEF TextFields, NumberFields, Plain
<1> QED BY <1>1, <1>2, <1>3, <1>4, <1>5

\* The options before the first is applied.
LEMMA DefaultOptions ==
  /\ Defaults \in TaskOptions
  /\ Defaults.runAt = Now /\ Defaults.runIn = 0 /\ ~Defaults.runInSet
  /\ Defaults.id # "" /\ Defaults.queue # ""
  /\ Defaults.priority = 0 /\ Defaults.maxRetry = 3 /\ Defaults.timeout = 0
<1>1. Defaults \in TaskOptions
  <2>1. /\ "random" \in Texts \cup {"random"}
        /\ "default" \in Texts \cup {"default"}
    OBVIOUS
  <2>2. Now \in Int
    BY ClientAssumption
  <2> QED BY <2>1, <2>2 DEF Defaults, TaskOptions
<1>2. /\ Defaults.runAt = Now /\ Defaults.runIn = 0 /\ ~Defaults.runInSet
      /\ Defaults.priority = 0 /\ Defaults.maxRetry = 3 /\ Defaults.timeout = 0
  BY DEF Defaults
<1>3. Defaults.id # "" /\ Defaults.queue # ""
  BY DEF Defaults
<1> QED BY <1>1, <1>2, <1>3, Zenon

\* The options are applied one after the other.
LEMMA AppliedStep ==
  ASSUME NEW all \in Seq(AnyOption)
  PROVE  /\ Applied(all)[0] = Defaults
         /\ \A n \in 0 .. Len(all) - 1 :
              Applied(all)[n + 1] = Apply(all[n + 1], Applied(all)[n])
<1> DEFINE S == TaskOptions
           len == Len(all)
           step == [k \in Nat |-> [x \in S |-> IF k \in 1 .. len
                                               THEN Apply(all[k], x) ELSE x]]
           Loop(f) == f = [n \in 0 .. len |->
                             IF n = 0 THEN Defaults
                             ELSE Apply(all[n], f[n - 1])]
<1>1. len \in Nat /\ \A k \in 1 .. len : all[k] \in AnyOption
  OBVIOUS
<1>2. Defaults \in S
  BY DefaultOptions, Zenon
<1> HIDE DEF S, len
<1>3. step \in [Nat -> [S -> S]]
  <2>1. ASSUME NEW k \in 1 .. len, NEW x \in S
        PROVE  Apply(all[k], x) \in S
    BY <1>1, ApplyFields DEF S
  <2> QED BY <2>1
<1>4. PICK h : h \in Prefixes(S, Defaults, step, len)
  <2> HIDE DEF step
  <2>1. \A n \in Nat : Prefixes(S, Defaults, step, n) # {}
    BY <1>2, <1>3, PrefixesExist, Zenon
  <2> QED BY <1>1, <2>1
<1>5. /\ h \in [0 .. len -> S] /\ h[0] = Defaults
      /\ \A k \in 0 .. len - 1 : h[k + 1] = step[k + 1][h[k]]
  BY <1>4, Zenon DEF Prefixes
<1>6. ASSUME NEW k \in 0 .. len - 1
      PROVE  h[k + 1] = Apply(all[k + 1], h[k])
  <2>1. k + 1 \in 1 .. len /\ k + 1 \in Nat /\ h[k] \in S
    BY <1>1, <1>5
  <2>2. step[k + 1][h[k]] = Apply(all[k + 1], h[k])
    BY <2>1
  <2> QED BY <1>5, <2>2
<1>7. ASSUME NEW n \in 0 .. len, n # 0
      PROVE  h[n] = Apply(all[n], h[n - 1])
  <2>1. n - 1 \in 0 .. len - 1 /\ (n - 1) + 1 = n
    BY <1>1, <1>7
  <2> QED BY <1>6, <2>1
<1>8. Loop(h)
  BY <1>5, <1>7
<1>9. Loop(Applied(all))
  BY <1>8 DEF Applied, len
<1> DEFINE g == Applied(all)
<1> HIDE DEF g
<1>10. /\ g[0] = Defaults
       /\ \A n \in 0 .. len - 1 : g[n + 1] = Apply(all[n + 1], g[n])
  BY <1>1, <1>9 DEF g
<1> QED BY <1>10 DEF g, len

\* Before the first option there is none of any field.
LEMMA LastNone ==
  ASSUME NEW s, NEW fields, NEW default
  PROVE  LastOf(s, 0, fields, default) = default
<1>1. {k \in 1 .. 0 : s[k].field \in fields} = {}
  OBVIOUS
<1> QED BY <1>1 DEF LastOf

\* One more option replaces the last of its field.
LastReplaced(s, n, fields, default) ==
  LastOf(s, n + 1, fields, default)
    = IF s[n + 1].field \in fields THEN s[n + 1]
      ELSE LastOf(s, n, fields, default)

\* It does, after any options.
LEMMA LastStep ==
  ASSUME NEW s, NEW n \in Nat, NEW fields, NEW default
  PROVE  LastReplaced(s, n, fields, default)
<1> DEFINE At(k) == {j \in 1 .. k : s[j].field \in fields}
           Latest(S) == CHOOSE j \in S : \A m \in S : m <= j
<1>1. \A k : LastOf(s, k, fields, default)
              = IF At(k) = {} THEN default ELSE s[Latest(At(k))]
  BY Zenon DEF LastOf
<1>2. CASE s[n + 1].field \in fields
  <2>1. n + 1 \in At(n + 1) /\ \A m \in At(n + 1) : m \in Nat /\ m <= n + 1
    BY <1>2
  <2>2. Latest(At(n + 1)) = n + 1
    BY <2>1
  <2> HIDE DEF At, Latest
  <2> QED BY <1>1, <1>2, <2>1, <2>2 DEF LastReplaced
<1>3. CASE s[n + 1].field \notin fields
  <2>1. At(n + 1) = At(n)
    BY <1>3
  <2> HIDE DEF At, Latest
  <2> QED BY <1>1, <1>3, <2>1 DEF LastReplaced
<1> QED BY <1>2, <1>3

\* What the options are after n of them, when none is refused.
Told(s, n, options) ==
  /\ options \in TaskOptions
  /\ options.id # "" /\ options.queue # ""
  /\ options.priority >= 0 /\ options.maxRetry >= 0 /\ options.timeout >= 0
  /\ \A f \in Plain :
       options[f] = LastOf(s, n, {f}, [value |-> Defaults[f]]).value
  /\ AskedTime(s, n)
       = IF options.runInSet THEN Now + options.runIn ELSE options.runAt

\* Before the first option.
LEMMA ToldFirst ==
  ASSUME NEW s
  PROVE  Told(s, 0, Defaults)
<1>1. \A f \in Plain :
        Defaults[f] = LastOf(s, 0, {f}, [value |-> Defaults[f]]).value
  <2>1. \A f \in Plain : LastOf(s, 0, {f}, [value |-> Defaults[f]])
                            = [value |-> Defaults[f]]
    BY LastNone
  <2> QED BY <2>1
<1>2. AskedTime(s, 0) = Now
  <2>1. LastOf(s, 0, {"runAt", "runIn"}, ProcessIn(0)) = ProcessIn(0)
    BY LastNone
  <2>2. ProcessIn(0).field = "runIn" /\ ProcessIn(0).value = 0
    BY DEF ProcessIn
  <2> QED BY <2>1, <2>2, ClientAssumption DEF AskedTime
<1>3. Now = IF Defaults.runInSet THEN Now + Defaults.runIn ELSE Defaults.runAt
  BY DefaultOptions
<1>4. Defaults.priority >= 0 /\ Defaults.maxRetry >= 0 /\ Defaults.timeout >= 0
  BY DEF Defaults
<1> QED BY <1>1, <1>2, <1>3, <1>4, DefaultOptions DEF Told

\* One more option that is not refused.
LEMMA ToldNext ==
  ASSUME NEW s, NEW n \in Nat, NEW options, Told(s, n, options),
         s[n + 1] \in AnyOption, ~Invalid(s[n + 1])
  PROVE  Told(s, n + 1, Apply(s[n + 1], options))
<1> DEFINE o == s[n + 1]
           new == Apply(o, options)
<1>1. /\ options \in TaskOptions /\ new \in TaskOptions
      /\ \A f \in Plain : new[f] = IF o.field = f THEN o.value ELSE options[f]
      /\ o.field = "runAt" => new.runAt = o.value /\ ~new.runInSet
      /\ o.field = "runIn" => new.runIn = o.value /\ new.runInSet
      /\ o.field \notin {"runAt", "runIn"} =>
           /\ new.runAt = options.runAt /\ new.runIn = options.runIn
           /\ new.runInSet = options.runInSet
  BY ApplyFields DEF Told
<1> HIDE DEF new
<1>2. new.id # "" /\ new.queue # ""
  <2>1. /\ new.id = IF o.field = "id" THEN o.value ELSE options.id
        /\ new.queue = IF o.field = "queue" THEN o.value ELSE options.queue
    BY <1>1 DEF Plain
  <2>2. o.field \in {"id", "queue"} => o.value # ""
    BY DEF Invalid
  <2> QED BY <2>1, <2>2 DEF Told
<1>3. new.priority >= 0 /\ new.maxRetry >= 0 /\ new.timeout >= 0
  <2>1. /\ new.priority
             = IF o.field = "priority" THEN o.value ELSE options.priority
        /\ new.maxRetry
             = IF o.field = "maxRetry" THEN o.value ELSE options.maxRetry
        /\ new.timeout
             = IF o.field = "timeout" THEN o.value ELSE options.timeout
    BY <1>1 DEF Plain
  <2>2. o.field \in {"priority", "maxRetry", "timeout"} => o.value \in Int
    BY OptionKinds DEF TextFields
  <2>3. o.field \in {"priority", "maxRetry", "timeout"} => ~(o.value < 0)
    BY Zenon DEF Invalid
  <2>4. o.field \in {"priority", "maxRetry", "timeout"} => o.value >= 0
    <3> HIDE DEF o
    <3> QED BY <2>2, <2>3
  <2> QED BY <2>1, <2>4 DEF Told
<1>4. ASSUME NEW f \in Plain
      PROVE  new[f] = LastOf(s, n + 1, {f}, [value |-> Defaults[f]]).value
  <2> DEFINE F == {f}
             first == [value |-> Defaults[f]]
  <2> HIDE DEF F, first
  <2>1. LastReplaced(s, n, F, first)
    BY LastStep
  <2>2. LastOf(s, n + 1, F, first)
          = IF o.field \in F THEN o ELSE LastOf(s, n, F, first)
    BY <2>1 DEF LastReplaced
  <2>3. o.field \in F <=> o.field = f
    BY DEF F
  <2>4. options[f] = LastOf(s, n, F, first).value
    BY DEF Told, F, first
  <2>5. new[f] = LastOf(s, n + 1, F, first).value
    BY <1>1, <2>2, <2>3, <2>4
  <2> QED BY <2>5 DEF F, first
<1>5. AskedTime(s, n + 1)
        = IF new.runInSet THEN Now + new.runIn ELSE new.runAt
  <2> DEFINE F == {"runAt", "runIn"}
             first == ProcessIn(0)
             last(k) == LastOf(s, k, F, first)
  <2> HIDE DEF F, first
  <2>1. LastReplaced(s, n, F, first)
    BY LastStep
  <2>2. last(n + 1) = IF o.field \in {"runAt", "runIn"} THEN o ELSE last(n)
    BY <2>1 DEF F, LastReplaced
  <2>3. \A k : AskedTime(s, k) = IF last(k).field = "runAt" THEN last(k).value
                                 ELSE Now + last(k).value
    BY DEF AskedTime, F, first
  <2> HIDE DEF last
  <2>4. CASE o.field = "runAt"
    BY <1>1, <2>2, <2>3, <2>4
  <2>5. CASE o.field = "runIn"
    BY <1>1, <2>2, <2>3, <2>5
  <2>6. CASE o.field \notin {"runAt", "runIn"}
    <3>1. AskedTime(s, n + 1) = AskedTime(s, n)
      BY <2>2, <2>3, <2>6
    <3> QED BY <1>1, <2>6, <3>1 DEF Told
  <2> QED BY <2>4, <2>5, <2>6
<1> QED BY <1>1, <1>2, <1>3, <1>4, <1>5 DEF Told, new

\* Any number of options, none of them refused.
LEMMA ToldAll ==
  ASSUME NEW all \in Seq(AnyOption), \A n \in DOMAIN all : ~Invalid(all[n])
  PROVE  Told(all, Len(all), Applied(all)[Len(all)])
<1> DEFINE g == Applied(all)
           Good == {n \in Nat : n <= Len(all) => Told(all, n, g[n])}
<1>1. Len(all) \in Nat /\ DOMAIN all = 1 .. Len(all)
      /\ \A n \in 1 .. Len(all) : all[n] \in AnyOption
  OBVIOUS
<1>2. g[0] = Defaults
      /\ \A n \in 0 .. Len(all) - 1 : g[n + 1] = Apply(all[n + 1], g[n])
  BY AppliedStep
<1> HIDE DEF g
<1>3. 0 \in Good
  BY <1>2, ToldFirst
<1>4. ASSUME NEW n \in Nat, n \in Good
      PROVE  n + 1 \in Good
  <2>1. SUFFICES ASSUME n + 1 <= Len(all)
                 PROVE  Told(all, n + 1, g[n + 1])
    OBVIOUS
  <2>2. n \in 0 .. Len(all) - 1 /\ n + 1 \in 1 .. Len(all) /\ n <= Len(all)
    BY <1>1, <2>1
  <2>3. Told(all, n, g[n])
    BY <1>4, <2>2
  <2>4. all[n + 1] \in AnyOption /\ ~Invalid(all[n + 1])
    BY <1>1, <2>2
  <2>5. Told(all, n + 1, Apply(all[n + 1], g[n]))
    BY <2>3, <2>4, ToldNext
  <2> QED BY <1>2, <2>2, <2>5
<1>5. Nat \subseteq Good
  <2> HIDE DEF Good
  <2> QED BY <1>3, <1>4, NatSet
<1> QED BY <1>1, <1>5 DEF g

\* Enqueue obeys the options of the task and of the call.
LEMMA EnqueueObeys ==
  ASSUME NEW taskOpts \in Seq(AnyOption), NEW opts \in Seq(AnyOption)
  PROVE  Obeys(ClientEnqueue(taskOpts, opts), taskOpts \o opts)
<1> DEFINE all == taskOpts \o opts
           options == Applied(all)[Len(all)]
           sent == ClientEnqueue(taskOpts, opts)
           time == IF options.runInSet THEN Now + options.runIn
                   ELSE options.runAt
<1>1. all \in Seq(AnyOption)
  OBVIOUS
<1>2. CASE \E n \in DOMAIN all : Invalid(all[n])
  BY <1>2, Zenon DEF Obeys, ClientEnqueue
<1>3. CASE \A n \in DOMAIN all : ~Invalid(all[n])
  <2>1. Told(all, Len(all), options)
    <3> HIDE DEF all
    <3> QED BY <1>1, <1>3, ToldAll
  <2>2. sent = [call |-> IF time > Now THEN "Schedule" ELSE "Enqueue",
                id |-> options.id, queue |-> options.queue,
                priority |-> options.priority, maxRetry |-> options.maxRetry,
                timeout |-> options.timeout, deadline |-> options.deadline,
                runAt |-> time, createdAt |-> Now,
                state |-> IF time > Now THEN "scheduled" ELSE "pending"]
    BY <1>3, Zenon DEF ClientEnqueue
  <2> HIDE DEF all, options, sent, time
  <2>3. /\ sent.id = options.id /\ sent.queue = options.queue
        /\ sent.priority = options.priority /\ sent.maxRetry = options.maxRetry
        /\ sent.timeout = options.timeout /\ sent.deadline = options.deadline
        /\ sent.runAt = time /\ sent.createdAt = Now
        /\ sent.call = IF time > Now THEN "Schedule" ELSE "Enqueue"
        /\ sent.state = IF time > Now THEN "scheduled" ELSE "pending"
    BY <2>2
  <2>4. Validate(sent)
    BY <2>1, <2>3 DEF Validate, Told
  <2>5. sent.runAt = AskedTime(all, Len(all))
    BY <2>1, <2>3 DEF Told, time
  <2>6. \A f \in Plain : sent[f] = options[f]
    BY <2>3 DEF Plain
  <2>7. \A f \in Plain :
          sent[f] = LastOf(all, Len(all), {f}, [value |-> Defaults[f]]).value
    BY <2>1, <2>6 DEF Told
  <2>8. IF sent.runAt > sent.createdAt
          THEN sent.call = "Schedule" /\ sent.state = "scheduled"
          ELSE sent.call = "Enqueue" /\ sent.state = "pending"
    BY <2>3
  <2>9. Obeys(sent, all)
    BY <1>3, <2>4, <2>5, <2>7, <2>8, Zenon DEF Obeys
  <2> QED BY <2>9 DEF all, sent
<1> QED BY <1>2, <1>3

\* Whatever options the task and the call bring, in whatever number and order:
\* what Enqueue, EnqueueAt and EnqueueIn hand to the store is what the options
\* ask for (client.go).
THEOREM ClientObeys ==
  \A taskOpts, opts \in Seq(AnyOption), time \in Int :
    /\ Obeys(ClientEnqueue(taskOpts, opts), taskOpts \o opts)
    /\ Obeys(EnqueueAt(taskOpts, time, opts),
             taskOpts \o (<<ProcessAt(time)>> \o opts))
    /\ Obeys(EnqueueIn(taskOpts, time, opts),
             taskOpts \o (<<ProcessIn(time)>> \o opts))
<1> SUFFICES ASSUME NEW taskOpts \in Seq(AnyOption),
                    NEW opts \in Seq(AnyOption), NEW time \in Int
             PROVE  /\ Obeys(ClientEnqueue(taskOpts, opts), taskOpts \o opts)
                    /\ Obeys(EnqueueAt(taskOpts, time, opts),
                             taskOpts \o (<<ProcessAt(time)>> \o opts))
                    /\ Obeys(EnqueueIn(taskOpts, time, opts),
                             taskOpts \o (<<ProcessIn(time)>> \o opts))
  BY Zenon
<1>1. ProcessAt(time) \in AnyOption /\ ProcessIn(time) \in AnyOption
  BY DEF ProcessAt, ProcessIn, AnyOption, NumberFields
<1>2. /\ <<ProcessAt(time)>> \o opts \in Seq(AnyOption)
      /\ <<ProcessIn(time)>> \o opts \in Seq(AnyOption)
  BY <1>1
<1> QED BY <1>2, EnqueueObeys, Zenon DEF EnqueueAt, EnqueueIn

\* The three calls are told apart.
LEMMA WaysDiffer ==
  /\ <<ProcessAt(Now + 1)>> # <<>> /\ <<ProcessIn(0)>> # <<>>
  /\ <<ProcessAt(Now + 1)>> # <<ProcessIn(0)>>
BY DEF ProcessAt, ProcessIn

\* So for the requests of an instance.
LEMMA NothingMisread == Misread = {}
<1> DEFINE lists == UNION {[1 .. n -> Options] : n \in 0 .. MaxOptions}
<1>1. Options \subseteq AnyOption
  <2>1. [field : {"id", "queue"}, value : {"", "other"}] \subseteq AnyOption
    BY DEF AnyOption, TextFields, Texts
  <2>2. ASSUME NEW f \in NumberFields, NEW n \in Int
        PROVE  [field |-> f, value |-> n] \in AnyOption
    BY DEF AnyOption
  <2>3. /\ [field : {"priority", "maxRetry", "timeout"}, value : {-1, 1}]
             \subseteq [field : NumberFields, value : Int]
        /\ [field : {"deadline"}, value : {0, Now}]
             \subseteq [field : NumberFields, value : Int]
    BY ClientAssumption DEF NumberFields
  <2>4. \A n \in Int : ProcessAt(n) \in AnyOption /\ ProcessIn(n) \in AnyOption
    BY <2>2 DEF ProcessAt, ProcessIn, NumberFields
  <2>5. {0, Now - 1, Now + 2} \subseteq Int /\ {-1, 0, 1} \subseteq Int
    BY ClientAssumption
  <2>6. /\ NilOption \in AnyOption
        /\ [field : NumberFields, value : Int] \subseteq AnyOption
    BY DEF AnyOption
  <2> QED BY <2>1, <2>3, <2>4, <2>5, <2>6, Zenon DEF Options
<1>2. lists \subseteq Seq(AnyOption)
  BY <1>1, ClientAssumption
<1>3. ASSUME NEW taskOpts \in lists, NEW way \in Ways, NEW opts \in lists
      PROVE  Obeys(Sent(taskOpts, way, opts), taskOpts \o (way \o opts))
  <2>1. taskOpts \in Seq(AnyOption) /\ opts \in Seq(AnyOption)
    BY <1>2
  <2>2. Now + 1 \in Int /\ 0 \in Int
    BY ClientAssumption
  <2>3. CASE way = <<>>
    <3>1. /\ way \o opts = opts
          /\ Sent(taskOpts, way, opts) = ClientEnqueue(taskOpts, opts)
      BY <2>1, <2>3 DEF Sent
    <3> QED BY <2>1, <2>2, <3>1, ClientObeys, Zenon
  <2>4. CASE way = <<ProcessAt(Now + 1)>>
    <3>1. Sent(taskOpts, way, opts) = EnqueueAt(taskOpts, Now + 1, opts)
      BY <2>4, WaysDiffer DEF Sent
    <3> QED BY <2>1, <2>2, <2>4, <3>1, ClientObeys, Zenon
  <2>5. CASE way = <<ProcessIn(0)>>
    <3>1. Sent(taskOpts, way, opts) = EnqueueIn(taskOpts, 0, opts)
      BY <2>5, WaysDiffer DEF Sent
    <3> QED BY <2>1, <2>2, <2>5, <3>1, ClientObeys, Zenon
  <2> QED BY <2>3, <2>4, <2>5 DEF Ways
<1>4. Misread = {x \in lists \X Ways \X lists :
                   ~Obeys(Sent(x[1], x[2], x[3]), x[1] \o (x[2] \o x[3]))}
  BY DEF Misread
<1> HIDE DEF lists
<1> QED BY <1>3, <1>4
-----------------------------------------------------------------------------
(* Rounding to multiples *)

\* The quotient and the remainder.
LEMMA Division ==
  ASSUME NEW x \in Int, NEW u \in Nat \ {0}
  PROVE  \E b \in Int, r \in 0 .. u - 1 :
           b = x \div u /\ r = x % u /\ x = u * b + r
<1>1. x \div u \in Int /\ x % u \in 0 .. u - 1 /\ x % u = x - u * (x \div u)
  OBVIOUS
<1>2. PICK b \in Int, r \in 0 .. u - 1 :
        b = x \div u /\ r = x % u /\ r = x - u * b
  BY <1>1, Zenon
<1>3. x = u * b + r
  BY ONLY <1>2, x \in Int, u \in Nat, b \in Int, r \in Int
<1> QED BY <1>2, <1>3, Zenon

\* The result is a multiple, at most half of u away.
LEMMA RoundedNear ==
  ASSUME NEW x \in Int, NEW u \in Nat \ {0}
  PROVE  /\ Rounded(x, u) \in Int
         /\ 2 * (Rounded(x, u) - x) <= u
         /\ 2 * (x - Rounded(x, u)) <= u
<1>1. PICK b \in Int, r \in 0 .. u - 1 :
        b = x \div u /\ r = x % u /\ x = u * b + r
  BY Division
<1>2. Rounded(x, u) = u * (IF 2 * r > u \/ (2 * r = u /\ b % 2 = 1)
                           THEN b + 1 ELSE b)
  BY <1>1, Zenon DEF Rounded
<1>3. PICK p \in Int : p = u * b /\ u * (b + 1) = p + u
  BY <1>1
<1>4. \/ Rounded(x, u) = p + u /\ 2 * r >= u
      \/ Rounded(x, u) = p /\ 2 * r <= u
  BY <1>1, <1>2, <1>3
<1> QED BY <1>1, <1>3, <1>4

\* Rounding keeps the order.
LEMMA RoundedMonotone ==
  ASSUME NEW x \in Int, NEW y \in Int, NEW u \in Nat \ {0}, x <= y
  PROVE  Rounded(x, u) <= Rounded(y, u)
<1>1. PICK b \in Int, r \in 0 .. u - 1 :
        b = x \div u /\ r = x % u /\ x = u * b + r
  BY Division
<1>2. PICK c \in Int, s \in 0 .. u - 1 :
        c = y \div u /\ s = y % u /\ y = u * c + s
  BY Division
<1> DEFINE n == IF 2 * r > u \/ (2 * r = u /\ b % 2 = 1) THEN b + 1 ELSE b
           m == IF 2 * s > u \/ (2 * s = u /\ c % 2 = 1) THEN c + 1 ELSE c
<1>3. Rounded(x, u) = u * n /\ Rounded(y, u) = u * m
  BY <1>1, <1>2, Zenon DEF Rounded
<1>4. n \in Int /\ m \in Int
  OBVIOUS
<1>5. n <= m
  <2>1. x = u * b + r /\ y = u * c + s
    BY <1>1, <1>2, Zenon
  <2>2. CASE b = c
    <3>1. r <= s
      BY <2>1, <2>2
    <3> QED BY <2>2, <3>1
  <2>3. CASE b < c
    BY <2>3
  <2>4. CASE c < b
    <3>1. PICK k \in Nat : b = c + 1 + k
      BY <2>4
    <3>2. u * b = u * c + u + u * k /\ u * k >= 0
      BY <3>1
    <3> QED BY <2>1, <3>2
  <2> QED BY <2>2, <2>3, <2>4
<1> HIDE DEF n, m
<1>6. u * n <= u * m
  <2>1. PICK k \in Nat : m = n + k
    BY <1>4, <1>5
  <2>2. u * m = u * n + u * k /\ u * k >= 0
    BY <1>4, <2>1
  <2> QED BY <1>4, <2>2
<1> QED BY <1>3, <1>6

\* A multiple is its own rounding.
LEMMA RoundedExact ==
  ASSUME NEW k \in Int, NEW u \in Nat \ {0}
  PROVE  Rounded(u * k, u) = u * k
<1> DEFINE x == u * k
<1>1. x \in Int
  OBVIOUS
<1>2. PICK b \in Int, r \in 0 .. u - 1 :
        b = x \div u /\ r = x % u /\ x = u * b + r
  <2> HIDE DEF x
  <2> QED BY <1>1, Division
<1>3. r = 0 /\ b = k
  <2>1. u * (k - b) = r
    BY <1>2
  <2>2. CASE k - b >= 1
    <3>1. u * (k - b) >= u
      BY <1>2, <2>2
    <3> QED BY <1>2, <2>1, <3>1
  <2>3. CASE k - b <= -1
    <3>1. u * (k - b) <= -u
      BY <1>2, <2>3
    <3> QED BY <1>2, <2>1, <3>1
  <2>4. CASE k = b
    BY <1>2, <2>1, <2>4
  <2> QED BY <1>2, <2>2, <2>3, <2>4
<1>4. Rounded(x, u) = u * (IF 2 * r > u \/ (2 * r = u /\ b % 2 = 1)
                           THEN b + 1 ELSE b)
  BY <1>2, Zenon DEF Rounded
<1> HIDE DEF x
<1>5. Rounded(x, u) = u * k
  BY <1>3, <1>4
<1> QED BY <1>5 DEF x
-----------------------------------------------------------------------------
(* Rounding to float64 *)

\* The exponent of a number that fits with exponent n.
LEMMA ExponentLeast ==
  ASSUME NEW x \in Int, NEW n \in 0 .. MantissaBits,
         Magnitude(x) < TwoTo[MantissaBits + n]
  PROVE  LET e == Exponent(x)
         IN  /\ e \in 0 .. n
             /\ Magnitude(x) < TwoTo[MantissaBits + e]
             /\ e > 0 => Magnitude(x) >= TwoTo[MantissaBits + (e - 1)]
<1> DEFINE fits == {e \in 0 .. MantissaBits :
                      Magnitude(x) < TwoTo[MantissaBits + e]}
           e == Exponent(x)
<1>1. MantissaBits \in Nat
  BY RankAssumption
<1>2. n \in fits /\ fits \subseteq Nat
  BY <1>1
<1>3. e = CHOOSE k \in fits : \A d \in fits : k <= d
  BY DEF Exponent
<1>4. \E k \in fits : \A d \in fits : k <= d
  <2> HIDE DEF fits
  <2> QED BY <1>2, LeastElement
<1>5. e \in fits /\ \A d \in fits : e <= d
  <2> HIDE DEF fits, e
  <2> QED BY <1>3, <1>4
<1> HIDE DEF e
<1>6. e \in 0 .. n /\ Magnitude(x) < TwoTo[MantissaBits + e]
  BY <1>1, <1>2, <1>5
<1>7. ASSUME e > 0
      PROVE  Magnitude(x) >= TwoTo[MantissaBits + (e - 1)]
  <2>1. e - 1 \in 0 .. MantissaBits /\ ~(e <= e - 1)
    BY <1>1, <1>6, <1>7
  <2>2. ~(Magnitude(x) < TwoTo[MantissaBits + (e - 1)])
    BY <1>5, <2>1
  <2>3. Magnitude(x) \in Int /\ TwoTo[MantissaBits + (e - 1)] \in Int
    BY <1>1, <2>1, Powers DEF Magnitude
  <2> QED BY <2>2, <2>3
<1> QED BY <1>6, <1>7 DEF e

\* The error is at most half the distance of neighbours.
LEMMA FloatNear ==
  ASSUME NEW x \in Int, NEW n \in 0 .. MantissaBits,
         Magnitude(x) < TwoTo[MantissaBits + n]
  PROVE  /\ Float64(x) \in Int
         /\ 2 * (Float64(x) - x) <= TwoTo[n]
         /\ 2 * (x - Float64(x)) <= TwoTo[n]
<1>1. PICK e \in 0 .. n : e = Exponent(x)
  BY ExponentLeast
<1>2. MantissaBits \in Nat
  BY RankAssumption
<1>3. e \in Nat /\ n - e \in Nat /\ e + (n - e) = n
  BY <1>2
<1>4. PICK u \in Nat \ {0}, v \in Nat : u = TwoTo[e] /\ v = TwoTo[n] /\ u <= v
  <2>1. TwoTo[e] <= TwoTo[e + (n - e)]
    BY <1>3, PowersGrow, Zenon
  <2>2. TwoTo[e] \in Nat \ {0} /\ TwoTo[n] \in Nat
    BY <1>2, <1>3, Powers
  <2> QED BY <1>3, <2>1, <2>2
<1>5. Float64(x) = Rounded(x, u)
  BY <1>1, <1>4 DEF Float64
<1>6. /\ Rounded(x, u) \in Int
      /\ 2 * (Rounded(x, u) - x) <= u /\ 2 * (x - Rounded(x, u)) <= u
  BY RoundedNear
<1> QED BY <1>4, <1>5, <1>6

\* Rounding does not cross a multiple.
LEMMA RoundedBetween ==
  ASSUME NEW x \in Int, NEW u \in Nat \ {0}, NEW k \in Int,
         NEW y \in Int, y = u * k
  PROVE  /\ x <= y => Rounded(x, u) <= y
         /\ y <= x => y <= Rounded(x, u)
<1>1. Rounded(y, u) = y
  <2>1. Rounded(u * k, u) = u * k
    BY RoundedExact
  <2> QED BY <2>1
<1>2. /\ x <= y => Rounded(x, u) <= Rounded(y, u)
      /\ y <= x => Rounded(y, u) <= Rounded(x, u)
  BY RoundedMonotone
<1> QED BY <1>1, <1>2

\* A number with the smaller exponent e stays within the power of two that a
\* number with the larger exponent d does not fall below.
LEMMA Crossing ==
  ASSUME NEW x \in Int, NEW y \in Int, NEW e \in Nat, NEW d \in Nat, e < d,
         Magnitude(x) < TwoTo[MantissaBits + e],
         Magnitude(y) >= TwoTo[MantissaBits + (d - 1)]
  PROVE  LET r == Rounded(x, TwoTo[e])
             s == Rounded(y, TwoTo[d])
         IN  (x <= y => r <= s) /\ (y <= x => s <= r)
<1>1. MantissaBits \in Nat /\ MantissaBits - 1 \in Nat
  BY RankAssumption
<1>2. PICK u \in Nat \ {0}, v \in Nat \ {0}, k \in Nat, m \in Nat :
        /\ u = TwoTo[e] /\ v = TwoTo[d]
        /\ k = TwoTo[MantissaBits] /\ m = TwoTo[MantissaBits - 1]
  BY <1>1, Powers, Zenon
<1>3. TwoTo[MantissaBits + e] = u * k
  <2>1. TwoTo[e + MantissaBits] = TwoTo[e] * TwoTo[MantissaBits]
    BY <1>1, PowersGrow
  <2> QED BY <1>1, <1>2, <2>1
<1>4. TwoTo[MantissaBits + (d - 1)] = v * m
  <2>1. TwoTo[d + (MantissaBits - 1)] = TwoTo[d] * TwoTo[MantissaBits - 1]
    BY <1>1, PowersGrow
  <2>2. d + (MantissaBits - 1) = MantissaBits + (d - 1)
    BY <1>1
  <2> QED BY <1>2, <2>1, <2>2
<1>5. PICK B \in Nat, C \in Nat : B = u * k /\ C = v * m /\ B <= C
  <2>1. /\ MantissaBits + e \in Nat /\ (d - 1) - e \in Nat
        /\ (MantissaBits + e) + ((d - 1) - e) = MantissaBits + (d - 1)
    BY <1>1
  <2>2. TwoTo[MantissaBits + e] <= TwoTo[(MantissaBits + e) + ((d - 1) - e)]
    BY <2>1, PowersGrow, Zenon
  <2>3. u * k <= v * m
    BY <1>3, <1>4, <2>1, <2>2
  <2> QED BY <2>3
<1>6. x < B /\ -B < x /\ (y <= -C \/ C <= y)
  BY <1>3, <1>4, <1>5 DEF Magnitude
<1>7. PICK r \in Int, s \in Int : r = Rounded(x, u) /\ s = Rounded(y, v)
  BY RoundedNear
<1>8. PICK i \in Int, j \in Int, D \in Int, E \in Int :
        /\ i = -k /\ D = -B /\ D = u * i
        /\ j = -m /\ E = -C /\ E = v * j
  <2>1. u * (-k) = -(u * k) /\ v * (-m) = -(v * m)
    OBVIOUS
  <2> QED BY <1>5, <2>1
<1>9. D <= r /\ r <= B
  <2>1. D <= x /\ x <= B
    BY <1>6, <1>8
  <2>2. D <= x => D <= Rounded(x, u)
    BY <1>8, RoundedBetween, Zenon
  <2>3. x <= B => Rounded(x, u) <= B
    <3>1. k \in Int /\ B \in Int /\ B = u * k
      BY <1>5
    <3> QED BY <3>1, RoundedBetween, Zenon
  <2> QED BY <1>7, <2>1, <2>2, <2>3
<1>10. (y <= E => s <= E) /\ (C <= y => C <= s)
  <2>1. y <= E => Rounded(y, v) <= E
    BY <1>8, RoundedBetween, Zenon
  <2>2. C <= y => C <= Rounded(y, v)
    BY <1>5, RoundedBetween
  <2> QED BY <1>7, <2>1, <2>2
<1>11. (x <= y => r <= s) /\ (y <= x => s <= r)
  BY <1>5, <1>6, <1>8, <1>9, <1>10
<1> QED BY <1>2, <1>7, <1>11

\* Float64 keeps the order of numbers in its range.
LEMMA FloatMonotone ==
  ASSUME NEW x \in Int, NEW y \in Int, x <= y,
         Magnitude(x) < TwoTo[MantissaBits + MantissaBits],
         Magnitude(y) < TwoTo[MantissaBits + MantissaBits]
  PROVE  Float64(x) <= Float64(y)
<1>1. MantissaBits \in Nat \ {0} /\ MantissaBits \in 0 .. MantissaBits
  BY RankAssumption
<1>2. PICK e \in Nat : /\ e = Exponent(x)
                       /\ Magnitude(x) < TwoTo[MantissaBits + e]
                       /\ e > 0 => Magnitude(x) >= TwoTo[MantissaBits + (e - 1)]
  BY <1>1, ExponentLeast
<1>3. PICK d \in Nat : /\ d = Exponent(y)
                       /\ Magnitude(y) < TwoTo[MantissaBits + d]
                       /\ d > 0 => Magnitude(y) >= TwoTo[MantissaBits + (d - 1)]
  BY <1>1, ExponentLeast
<1>4. Float64(x) = Rounded(x, TwoTo[e]) /\ Float64(y) = Rounded(y, TwoTo[d])
  BY <1>2, <1>3 DEF Float64
<1>5. \A n \in Nat : TwoTo[n] \in Nat \ {0}
  BY Powers
<1>6. CASE e = d
  BY <1>4, <1>5, <1>6, RoundedMonotone
<1>7. CASE e < d
  <2>1. Magnitude(y) >= TwoTo[MantissaBits + (d - 1)]
    BY <1>3, <1>7
  <2>2. Rounded(x, TwoTo[e]) <= Rounded(y, TwoTo[d])
    BY <1>2, <1>7, <2>1, Crossing, Zenon
  <2> QED BY <1>4, <2>2, Zenon
<1>8. CASE d < e
  <2>1. Magnitude(x) >= TwoTo[MantissaBits + (e - 1)]
    BY <1>2, <1>8
  <2>2. Rounded(x, TwoTo[e]) <= Rounded(y, TwoTo[d])
    BY <1>3, <1>8, <2>1, Crossing, Zenon
  <2> QED BY <1>4, <2>2, Zenon
<1> QED BY <1>6, <1>7, <1>8

\* Numbers up to the mantissa are exact.
LEMMA FloatExact ==
  ASSUME NEW x \in Int, Magnitude(x) <= TwoTo[MantissaBits]
  PROVE  Float64(x) = x
<1>1. /\ MantissaBits \in Nat \ {0}
      /\ 0 \in 0 .. MantissaBits /\ 1 \in 0 .. MantissaBits
  BY RankAssumption
<1>2. PICK k \in Nat \ {0} : k = TwoTo[MantissaBits]
  BY <1>1, Powers
<1>3. PICK e \in 0 .. 1 :
        /\ e = Exponent(x)
        /\ e > 0 => Magnitude(x) >= TwoTo[MantissaBits + (e - 1)]
  <2>1. TwoTo[MantissaBits + 1] = 2 * k
    BY <1>1, <1>2, Powers
  <2>2. Magnitude(x) < TwoTo[MantissaBits + 1]
    BY <1>2, <2>1 DEF Magnitude
  <2> QED BY <1>1, <2>2, ExponentLeast
<1>4. CASE e = 0
  <2>1. PICK u \in Nat \ {0} : u = TwoTo[e] /\ u = 1
    BY <1>4, Powers
  <2>2. Rounded(u * x, u) = u * x
    BY RoundedExact, Zenon
  <2>3. u * x = x
    BY <2>1
  <2> QED BY <1>3, <2>1, <2>2, <2>3, Zenon DEF Float64
<1>5. CASE e = 1
  <2>1. MantissaBits + (e - 1) = MantissaBits
    BY <1>1, <1>5
  <2>2. x = k \/ x = -k
    BY <1>2, <1>3, <1>5, <2>1 DEF Magnitude
  <2>3. TwoTo[0 + 1] = 2 * TwoTo[0] /\ TwoTo[0] = 1
    BY Powers
  <2>4. PICK u \in Nat \ {0} : u = TwoTo[e] /\ u = 2
    BY <1>5, <2>3
  <2>5. PICK h \in Nat : k = 2 * h
    <3>1. MantissaBits - 1 \in Nat /\ (MantissaBits - 1) + 1 = MantissaBits
      BY <1>1
    <3> QED BY <1>2, <3>1, Powers
  <2>6. PICK i \in Int : x = u * i
    <3>1. x = 2 * h \/ x = 2 * (-h)
      BY <2>2, <2>5
    <3>2. h \in Int /\ -h \in Int
      OBVIOUS
    <3> QED BY <2>4, <3>1, <3>2, Zenon
  <2>7. Rounded(u * i, u) = u * i
    BY RoundedExact, Zenon
  <2> QED BY <1>3, <2>4, <2>6, <2>7, Zenon DEF Float64
<1> QED BY <1>4, <1>5

-----------------------------------------------------------------------------
(* The rank *)

\* The priorities and creation times.
Priorities == 0 .. MaxPriority
Creations == 0 .. MaxCreatedAt

\* What the conversions and the product leave: one rounding of the weighted
\* priority and one of the sum.
LEMMA RankSteps ==
  ASSUME NEW p \in Priorities, NEW t \in Creations
  PROVE  taskRank(p, t) = Float64(Float64(-(p * PriorityWeight)) + t)
<1>1. /\ PriorityWeight \in Nat /\ MaxCreatedAt \in Nat /\ MaxPriority \in Nat
      /\ TwoTo[MantissaBits] \in Nat /\ MaxPriority <= TwoTo[MantissaBits]
      /\ MaxCreatedAt <= TwoTo[MantissaBits]
  BY RankAssumption, Powers
<1>2. Float64(-p) = -p
  <2>1. -p \in Int /\ Magnitude(-p) <= TwoTo[MantissaBits]
    BY <1>1 DEF Magnitude, Priorities
  <2> QED BY <2>1, FloatExact
<1>3. Float64(t) = t
  <2>1. t \in Int /\ Magnitude(t) <= TwoTo[MantissaBits]
    BY <1>1 DEF Magnitude, Creations
  <2> QED BY <2>1, FloatExact
<1>4. (-p) * PriorityWeight = -(p * PriorityWeight)
  BY <1>1 DEF Priorities
<1> QED BY <1>2, <1>3, <1>4 DEF taskRank

\* The weighted priority and the sum are in range, with the exponent n that
\* RankAssumption names, and so the rank is less than 2^n from what it is meant
\* to be.
LEMMA RankNear ==
  \E g \in Nat :
    /\ 2 * g < PriorityWeight - MaxCreatedAt
    /\ \A p \in Priorities, t \in Creations :
         LET w == Float64(-(p * PriorityWeight))
             exact == t - p * PriorityWeight
         IN  /\ w \in Int /\ taskRank(p, t) \in Int
             /\ Magnitude(w + t) < TwoTo[MantissaBits + MantissaBits]
             /\ exact - g <= taskRank(p, t) /\ taskRank(p, t) <= exact + g
<1>1. /\ MantissaBits \in Nat /\ PriorityWeight \in Nat \ {0}
      /\ MaxCreatedAt \in Nat /\ MaxPriority \in Nat
      /\ MaxCreatedAt < PriorityWeight
  BY RankAssumption, Powers
<1>2. PICK n \in 0 .. MantissaBits :
        /\ (MaxPriority + 1) * PriorityWeight <= TwoTo[MantissaBits + n]
        /\ 2 * TwoTo[n] < PriorityWeight - MaxCreatedAt
  BY RankAssumption
<1>3. PICK g \in Nat, b \in Nat : /\ g = TwoTo[n] /\ b = TwoTo[MantissaBits + n]
                                 /\ b <= TwoTo[MantissaBits + MantissaBits]
  <2>1. /\ n \in Nat /\ MantissaBits + n \in Nat /\ MantissaBits - n \in Nat
        /\ (MantissaBits + n) + (MantissaBits - n) = MantissaBits + MantissaBits
    BY <1>1
  <2>2. TwoTo[MantissaBits + n]
          <= TwoTo[(MantissaBits + n) + (MantissaBits - n)]
    BY <2>1, PowersGrow, Zenon
  <2> QED BY <2>1, <2>2, Powers
<1>4. ASSUME NEW p \in Priorities, NEW t \in Creations
      PROVE  LET w == Float64(-(p * PriorityWeight))
                 exact == t - p * PriorityWeight
             IN  /\ w \in Int /\ taskRank(p, t) \in Int
                 /\ Magnitude(w + t) < TwoTo[MantissaBits + MantissaBits]
                 /\ exact - g <= taskRank(p, t) /\ taskRank(p, t) <= exact + g
  <2>1. p \in Nat /\ p <= MaxPriority /\ t \in Nat /\ t <= MaxCreatedAt
    BY <1>1 DEF Priorities, Creations
  <2>2. PICK x \in Int : /\ x = -(p * PriorityWeight) /\ x <= 0
                         /\ PriorityWeight - x <= b
    <3>1. PICK m \in Nat : MaxPriority = p + m
      BY <1>1, <2>1
    <3>2. (MaxPriority + 1) * PriorityWeight
            = p * PriorityWeight + PriorityWeight + m * PriorityWeight
      BY <1>1, <2>1, <3>1
    <3>3. p * PriorityWeight \in Nat /\ m * PriorityWeight \in Nat
      BY <1>1, <2>1
    <3>4. PriorityWeight + p * PriorityWeight <= b
      BY <1>1, <1>2, <1>3, <3>2, <3>3
    <3> QED BY <1>1, <3>3, <3>4
  <2>3. Magnitude(x) < TwoTo[MantissaBits + n]
    BY <1>1, <1>3, <2>2 DEF Magnitude
  <2>4. PICK w \in Int : /\ w = Float64(x)
                         /\ 2 * (w - x) <= g /\ 2 * (x - w) <= g
    BY <1>3, <2>3, FloatNear
  <2>5. PICK y \in Int : y = w + t /\ Magnitude(y) < b
    BY <1>1, <1>2, <1>3, <2>1, <2>2, <2>4 DEF Magnitude
  <2>6. PICK f \in Int : /\ f = Float64(y)
                         /\ 2 * (f - y) <= g /\ 2 * (y - f) <= g
    BY <1>3, <2>5, FloatNear
  <2>7. taskRank(p, t) = f
    BY <2>2, <2>4, <2>5, <2>6, RankSteps
  <2>8. t - p * PriorityWeight = t + x
    BY <1>1, <2>1, <2>2
  <2>9. (t + x) - g <= f /\ f <= (t + x) + g
    BY <2>1, <2>4, <2>5, <2>6
  <2>10. Magnitude(y) < TwoTo[MantissaBits + MantissaBits]
    <3>1. TwoTo[MantissaBits + MantissaBits] \in Nat /\ Magnitude(y) \in Int
      BY <1>1, Powers DEF Magnitude
    <3> QED BY <1>3, <2>5, <3>1
  <2> QED BY <2>2, <2>4, <2>5, <2>7, <2>8, <2>9, <2>10
<1> QED BY <1>2, <1>3, <1>4

\* Two tasks are ranked as their priorities and creation times say.
LEMMA RanksOrdered ==
  ASSUME NEW p \in Priorities, NEW q \in Priorities,
         NEW t \in Creations, NEW u \in Creations
  PROVE  Ordered(p, q, t, u)
<1>1. /\ PriorityWeight \in Nat \ {0} /\ MaxCreatedAt \in Nat
      /\ MantissaBits \in Nat /\ TwoTo[MantissaBits] \in Nat
      /\ MaxCreatedAt <= TwoTo[MantissaBits]
  BY RankAssumption, Powers
<1>2. /\ p \in Nat /\ q \in Nat
      /\ t \in 0 .. MaxCreatedAt /\ u \in 0 .. MaxCreatedAt
  BY RankAssumption DEF Priorities, Creations
<1>3. PICK g \in Nat :
        /\ 2 * g < PriorityWeight - MaxCreatedAt
        /\ \A i \in Priorities, k \in Creations :
             LET w == Float64(-(i * PriorityWeight))
                 exact == k - i * PriorityWeight
             IN  /\ w \in Int /\ taskRank(i, k) \in Int
                 /\ Magnitude(w + k) < TwoTo[MantissaBits + MantissaBits]
                 /\ exact - g <= taskRank(i, k) /\ taskRank(i, k) <= exact + g
  BY RankNear
<1>4. ASSUME p > q
      PROVE  taskRank(p, t) < taskRank(q, u)
  <2>1. PICK r \in Int : r = taskRank(p, t) /\ r <= (t - p * PriorityWeight) + g
    BY <1>3
  <2>2. PICK s \in Int : s = taskRank(q, u) /\ (u - q * PriorityWeight) - g <= s
    BY <1>3
  <2>3. PICK m \in Nat : p = q + 1 + m
    BY <1>2, <1>4
  <2>4. p * PriorityWeight
          = q * PriorityWeight + PriorityWeight + m * PriorityWeight
    BY <1>1, <1>2, <2>3
  <2>5. PICK y \in Nat, z \in Nat :
          y = q * PriorityWeight /\ z = m * PriorityWeight
    BY <1>1, <1>2
  <2>6. r < s
    BY <1>1, <1>2, <1>3, <2>1, <2>2, <2>4, <2>5
  <2> QED BY <2>1, <2>2, <2>6
<1>5. ASSUME p = q, t <= u
      PROVE  taskRank(p, t) <= taskRank(q, u)
  <2>1. PICK w \in Int :
          /\ w = Float64(-(p * PriorityWeight))
          /\ Magnitude(w + t) < TwoTo[MantissaBits + MantissaBits]
          /\ Magnitude(w + u) < TwoTo[MantissaBits + MantissaBits]
    BY <1>3
  <2>2. PICK x \in Int, y \in Int : x = w + t /\ y = w + u /\ x <= y
    BY <1>1, <1>2, <1>5
  <2>3. Float64(x) <= Float64(y)
    BY <2>1, <2>2, FloatMonotone
  <2>4. taskRank(p, t) = Float64(x) /\ taskRank(q, u) = Float64(y)
    BY <1>5, <2>1, <2>2, RankSteps
  <2> QED BY <2>3, <2>4
<1>6. ASSUME p = q, t < u, p * PriorityWeight <= TwoTo[MantissaBits]
      PROVE  taskRank(p, t) < taskRank(q, u)
  <2>1. PICK x \in Int : x = -(p * PriorityWeight) /\ x <= 0
                         /\ -x <= TwoTo[MantissaBits]
    <3>1. p * PriorityWeight \in Nat
      BY <1>1, <1>2
    <3> QED BY <1>1, <1>6, <3>1
  <2>2. Float64(x) = x
    <3>1. Magnitude(x) <= TwoTo[MantissaBits]
      BY <1>1, <2>1 DEF Magnitude
    <3> QED BY <3>1, FloatExact
  <2>3. ASSUME NEW k \in 0 .. MaxCreatedAt
        PROVE  Float64(x + k) = x + k
    <3>1. PICK y \in Int : y = x + k /\ Magnitude(y) <= TwoTo[MantissaBits]
      BY <1>1, <2>1 DEF Magnitude
    <3>2. Float64(y) = y
      BY <3>1, FloatExact
    <3> QED BY <3>1, <3>2
  <2>4. taskRank(p, t) = x + t /\ taskRank(q, u) = x + u
    BY <1>2, <1>6, <2>1, <2>2, <2>3, RankSteps
  <2> QED BY <1>1, <1>2, <1>6, <2>1, <2>4
<1> QED BY <1>4, <1>5, <1>6 DEF Ordered

\* No two tasks are ranked wrongly.
LEMMA NothingMisranked == Misranked = {}
BY RanksOrdered DEF Misranked, Priorities, Creations
=============================================================================
