------------------------------- MODULE Backoff -------------------------------
(***************************************************************************)
(* The delay before a retry, server/server.go: ExponentialBackoff and       *)
(* ExponentialBackoffWithJitter.                                            *)
(*                                                                         *)
(* A time.Duration is a signed integer of DurationBits bits (64 in the      *)
(* program), and doubling wraps around.  The jitter is a fraction of        *)
(* JitterParts, and so is the random number; products of the two are exact  *)
(* here and rounded in float64, which moves a delay by less than its last   *)
(* significant bit.                                                         *)
(***************************************************************************)
EXTENDS PowersOfTwo

CONSTANTS
  DurationBits,  \* 64 in the program
  MaxCount,      \* bound on the retry count
  JitterParts    \* jitter and random numbers are multiples of 1/JitterParts

ASSUME BackoffAssumption ==
  /\ DurationBits \in Nat \ {0, 1, 2}
  /\ MaxCount \in Nat
  /\ JitterParts \in Nat \ {0}

MaxDuration == TwoTo[DurationBits - 1] - 1
Durations == -MaxDuration - 1 .. MaxDuration

Wrap(x) == ((x + MaxDuration + 1) % (2 * (MaxDuration + 1))) - MaxDuration - 1

Lesser(x, y) == IF x < y THEN x ELSE y
OrDefault(d, default) == IF d <= 0 THEN default ELSE d

\* The defaults of the program, two seconds and an hour, as durations of an
\* instance.
DefaultBase == 1
DefaultMax == MaxDuration \div 2

\* Mutant: nothing stops the doubling before the duration wraps around.
DoubledBlindly(result, max) ==
  IF result >= max THEN result ELSE Wrap(2 * result)

\* One turn of the loop; a result that has reached max ends it.
Doubled(result, max) ==
  CASE result >= max -> result
    [] result < max /\ result > max \div 2 -> max
    [] OTHER -> Wrap(2 * result)

\* The result after every number of turns.
Results(base, max) ==
  LET result[i \in Nat] == IF i = 0 THEN base ELSE Doubled(result[i - 1], max)
  IN  result

ExponentialBackoff(retryCount, base, max) ==
  LET count == IF retryCount < 0 THEN 0 ELSE retryCount
      limit == OrDefault(max, DefaultMax)
  IN  Lesser(Results(OrDefault(base, DefaultBase), limit)[count], limit)

\* The delays that some random number yields; jitter counts parts.
ExponentialBackoffWithJitter(retryCount, base, max, jitter) ==
  LET delay == ExponentialBackoff(retryCount, base, max)
      part == Lesser(jitter, JitterParts)
      lower == delay * (JitterParts - part)
      upper == Lesser(delay * (JitterParts + part), max * JitterParts)
      Drawn(r) == (lower * JitterParts + r * (upper - lower))
                    \div (JitterParts * JitterParts)
  IN  IF jitter <= 0 \/ upper <= lower
        THEN {delay}
        ELSE {OrDefault(Drawn(r), 1) : r \in 0 .. JitterParts - 1}

\* The delay before retry count is base * 2^count, but at most max: the doubling
\* does not wrap around, however large max is.  With jitter it is positive, at
\* most max, and no further from that delay than the jitter allows.
DelayBounded(count) ==
  \A base, max \in Durations :
    LET limit == OrDefault(max, DefaultMax)
        ideal == Lesser(limit, OrDefault(base, DefaultBase) * TwoTo[count])
    IN  /\ ExponentialBackoff(count, base, max) = ideal
        /\ \A jitter \in -1 .. JitterParts + 1 :
             \A d \in ExponentialBackoffWithJitter(count, base, max, jitter) :
               /\ d \in 1 .. limit
               /\ d > ideal => (d - ideal) * JitterParts <= jitter * ideal
               /\ d < ideal => \/ d = 1
                               \/ (ideal - d - 1) * JitterParts < jitter * ideal

BoundedCounts == {count \in 0 .. MaxCount : DelayBounded(count)}
=============================================================================
