------------------------------ MODULE TaskRank ------------------------------
(***************************************************************************)
(* taskRank of internal/redisstore/rdb.go: the score of a task in           *)
(* pending_rank, computed in float64.                                       *)
(*                                                                         *)
(* A float64 holds MantissaBits significant bits: an integer that needs     *)
(* more is rounded to the nearest multiple of a power of two, ties to even. *)
(* The printed score ("%.3f" of an integral float64) has every digit, and   *)
(* Redis reads the same float64 back.                                       *)
(*                                                                         *)
(* The program has 53 bits and the weight 10^15, so that products are exact *)
(* up to priority 9.  An instance keeps that ratio: 8 bits and weight 28.   *)
(* WithPriority takes any int: MaxPriority is the limit up to which the     *)
(* rounding is too fine to hide a difference of one (2^51 in the program).  *)
(***************************************************************************)
EXTENDS PowersOfTwo

CONSTANTS
  MantissaBits,    \* 53 in the program
  PriorityWeight,  \* 1e15 in the program
  MaxPriority,     \* bound on TaskMessage.Priority
  MaxCreatedAt     \* bound on CreatedAt.UnixMilli(), well below the weight

ASSUME RankAssumption ==
  /\ MantissaBits \in Nat \ {0}
  /\ PriorityWeight \in 1 .. TwoTo[MantissaBits]
  /\ MaxPriority \in 0 .. TwoTo[MantissaBits]
  /\ MaxCreatedAt \in 0 .. PriorityWeight - 1
  /\ \E e \in 0 .. MantissaBits :
       /\ (MaxPriority + 1) * PriorityWeight <= TwoTo[MantissaBits + e]
       /\ 2 * TwoTo[e] < PriorityWeight - MaxCreatedAt

Magnitude(x) == IF x < 0 THEN -x ELSE x

\* Neighbours of x in float64 are TwoTo[Exponent(x)] apart.
Exponent(x) ==
  LET fits == {e \in 0 .. MantissaBits :
                 Magnitude(x) < TwoTo[MantissaBits + e]}
  IN  CHOOSE e \in fits : \A d \in fits : e <= d

\* The nearest multiple of u, and of two the even one.
Rounded(x, u) ==
  LET below == x \div u
      rest == x % u
      up == 2 * rest > u \/ (2 * rest = u /\ below % 2 = 1)
  IN  u * (IF up THEN below + 1 ELSE below)

\* Conversion to float64, and the rounding of every operation on it.
Float64(x) == Rounded(x, TwoTo[Exponent(x)])

\* Mutant: the weight is smaller than the creation times.
taskRankLight(priority, createdAt) ==
  Float64(Float64(Float64(-priority) * (MaxCreatedAt \div 2))
            + Float64(createdAt))

taskRank(priority, createdAt) ==
  Float64(Float64(Float64(-priority) * PriorityWeight) + Float64(createdAt))

\* Two tasks, of priorities p and q and created at t and u, are ranked right.
Ordered(p, q, t, u) ==
  LET r == taskRank(p, t)
      s == taskRank(q, u)
  IN  /\ p > q => r < s
      /\ p = q /\ t <= u => r <= s
      /\ p = q /\ t < u /\ p * PriorityWeight <= TwoTo[MantissaBits] => r < s

Misranked ==
  {c \in (0 .. MaxPriority) \X (0 .. MaxPriority)
           \X (0 .. MaxCreatedAt) \X (0 .. MaxCreatedAt) :
     ~Ordered(c[1], c[2], c[3], c[4])}
=============================================================================
