----------------------------- MODULE WaitProofs -----------------------------
(***************************************************************************)
(* Theorems about the waits, of the supervisor (Reconnect: they stay       *)
(* within the upper bound of any policy, and above the lower bound of one  *)
(* that doubles or more) and of the retry loop (RetryDelay: the shift is   *)
(* as good as one that cannot overflow).                                   *)
(***************************************************************************)
EXTENDS Reconnect, RetryDelay, WellFoundedInduction, TLAPS

(***************************************************************************)
(* Reconnect                                                               *)
(***************************************************************************)
(* The normalized policy: 1 <= Min <= Max <= DurMax, multiplier >= 1.      *)
LEMMA PolicyNormal ==
  /\ Min \in 1..DurMax
  /\ Max \in Min..DurMax
  /\ num \in Nat /\ den \in Nat \ {0} /\ den <= num
  BY ReconnectAssumption DEF ReconnectAssumption, Min, Max, Greatest, num, den

(* Division from below: a multiple of the divisor bounds the quotient.     *)
LEMMA QuotientAtLeast ==
  ASSUME NEW a \in Nat, NEW d \in Nat \ {0}, NEW q \in Nat, q * d <= a
  PROVE  q <= a \div d
<1>1. a \div d \in Nat
  OBVIOUS
<1>2. a < d * (a \div d) + d
  OBVIOUS
<1>3. SUFFICES ASSUME a \div d < q PROVE FALSE
  BY <1>1
<1>4. d * (a \div d + 1) <= d * q
  BY <1>1, <1>3
<1>5. d * (a \div d + 1) = d * (a \div d) + d
  BY <1>1
<1> QED
  BY <1>1, <1>2, <1>4, <1>5

(* What Next computes before the cap: an integer; and at least twice the   *)
(* current wait unless the multiplication overflows.                       *)
LEMMA ScaledBounds ==
  ASSUME NEW cur \in Nat \ {0}, NEW x \in Scaled(cur)
  PROVE  /\ x \in Int
         /\ num >= 2 * den => x < 0 \/ x >= Least(2 * cur, DurMax)
<1>1. /\ DurMax \in Nat /\ num \in Nat /\ den \in Nat \ {0}
  BY PolicyNormal, ReconnectAssumption DEF ReconnectAssumption
<1>2. cur * num \in Nat /\ (cur * num) \div den \in Nat
  BY <1>1
<1>3. ASSUME num >= 2 * den PROVE (cur * num) \div den >= 2 * cur
  <2>1. (2 * cur) * den <= cur * num
    <3>1. cur * (2 * den) <= cur * num
      BY <1>1, <1>3
    <3> QED
      BY <1>1, <3>1
  <2> QED
    BY <1>1, <1>2, <2>1, QuotientAtLeast
<1> QED
  BY <1>1, <1>2, <1>3 DEF Scaled, Least

(* The cap, applied to any integer.                                        *)
LEMMA CappedBounds ==
  ASSUME NEW x \in Int
  PROVE  /\ Capped(x) \in 1..Max
         /\ \A b \in Nat : x <= 0 \/ x >= Least(b, DurMax) => Capped(x) >= Least(b, Max)
  BY PolicyNormal, ReconnectAssumption DEF ReconnectAssumption, Capped, Least

(* Jitter stays within the upper half of what it is given.                 *)
LEMMA JitteredBounds ==
  ASSUME NEW x \in Nat \ {0}, NEW y \in Jittered(x)
  PROVE  y \in 1..x /\ y >= x \div 2
  BY DEF Jittered

(* One failure: the next wait is within the cap and, for a policy that     *)
(* doubles or more, no shorter than this one or than half of the cap.      *)
LEMMA NextBackoffBounds ==
  ASSUME NEW cur \in 1..Max, NEW y \in NextBackoff(cur)
  PROVE  /\ y \in 1..Max
         /\ num >= 2 * den => y >= Least(cur, Max \div 2)
<1>1. Max \in Nat /\ Min \in Nat /\ DurMax \in Nat /\ cur \in Nat \ {0}
  BY PolicyNormal, ReconnectAssumption DEF ReconnectAssumption
<1>2. PICK x \in Scaled(cur) : y \in Jittered(Capped(x))
  BY <1>1 DEF NextBackoff
<1>3. x \in Int /\ (num >= 2 * den => x < 0 \/ x >= Least(2 * cur, DurMax))
  BY <1>1, ScaledBounds
<1>4. /\ Capped(x) \in 1..Max
      /\ num >= 2 * den => Capped(x) >= Least(2 * cur, Max)
  BY <1>1, <1>3, CappedBounds
<1>5. y \in 1..Capped(x) /\ y >= Capped(x) \div 2
  BY <1>1, <1>2, <1>4, JitteredBounds
<1> QED
  BY <1>1, <1>4, <1>5 DEF Least

(* The invariant: the waits are of the right type and keep their floor.    *)
BackoffInv == TypeOK /\ BackoffKeepsItsFloor

(* The supervisor starts from the lower bound.                             *)
LEMMA BackoffInit == Init => BackoffInv
  BY PolicyNormal, ReconnectAssumption
  DEF Init, BackoffInv, TypeOK, BackoffKeepsItsFloor, Least, ReconnectAssumption

(* Only a failed dial computes a wait; a successful one resets it.         *)
LEMMA BackoffStep == BackoffInv /\ [Next]_vars => BackoffInv'
<1> SUFFICES ASSUME BackoffInv, [Next]_vars PROVE BackoffInv'
  OBVIOUS
<1> USE DEF BackoffInv, TypeOK
<1>0. Max \in Nat /\ Min \in 1..Max /\ num \in Nat /\ den \in Nat
  BY PolicyNormal, ReconnectAssumption DEF ReconnectAssumption
<1>1. CASE UNCHANGED backoff /\ phase' \in {"up", "sleep", "dial", "closed"}
  BY <1>1 DEF BackoffKeepsItsFloor
<1>2. CASE DialFails
  <2>1. /\ backoff' \in 1..Max
        /\ num >= 2 * den => backoff' >= Least(backoff, Max \div 2)
    BY <1>2, NextBackoffBounds DEF DialFails
  <2> QED
    BY <1>0, <1>2, <2>1 DEF DialFails, BackoffKeepsItsFloor, Least
<1>3. CASE DialSucceeds
  BY <1>0, <1>3 DEF DialSucceeds, BackoffKeepsItsFloor, Least
<1> QED
  BY <1>1, <1>2, <1>3 DEF Next, Lost, Slept, Closed, Stopped, vars

(* The invariant of the supervisor's waits, for every policy.              *)
LEMMA BackoffInvariant == Spec => []BackoffInv
  BY BackoffInit, BackoffStep, PTL DEF Spec

(***************************************************************************)
(* No policy, however its fields are set, makes the supervisor wait longer *)
(* than its upper bound or spin without waiting.                           *)
(***************************************************************************)
THEOREM BackoffTypeCorrect == Spec => []TypeOK
  BY BackoffInvariant, PTL DEF BackoffInv

(***************************************************************************)
(* A policy that doubles or more keeps to its lower bound.                 *)
(***************************************************************************)
THEOREM BackoffFloor == Spec => []BackoffKeepsItsFloor
  BY BackoffInvariant, PTL DEF BackoffInv

(***************************************************************************)
(* Under such a policy a failure never makes the supervisor hurry.         *)
(***************************************************************************)
THEOREM BackoffGrows == Spec => FailuresNeverHurry
<1>1. BackoffInv /\ [Next]_vars =>
        [num >= 2 * den /\ phase = "dial" /\ phase' = "sleep" =>
           backoff' >= Least(backoff, Max \div 2)]_vars
  <2> SUFFICES ASSUME BackoffInv, DialFails, num >= 2 * den
               PROVE  backoff' >= Least(backoff, Max \div 2)
    BY DEF Next, Lost, Slept, DialSucceeds, Closed, Stopped, vars
  <2> QED
    BY NextBackoffBounds DEF DialFails, BackoffInv, TypeOK
<1> QED
  BY <1>1, BackoffInvariant, PTL DEF Spec, FailuresNeverHurry

(***************************************************************************)
(* Counting, and functions defined by it                                   *)
(***************************************************************************)
(* The order of the natural numbers is well-founded.                       *)
LEMMA OrderIsWellFounded ==
  \E R : IsWellFoundedOn(R, Nat) /\ \A n, m \in Nat : n < m => <<n, m>> \in R
<1>1. IsWellFoundedOn(OpToRel(<, Nat), Nat)
  BY NatLessThanWellFounded, Zenon
<1>2. \A n, m \in Nat : n < m => <<n, m>> \in OpToRel(<, Nat)
  BY DEF OpToRel
<1> QED
  BY <1>1, <1>2, Zenon

(* A set of natural numbers that is not empty has a least element.         *)
LEMMA SmallestOf ==
  ASSUME NEW T \in SUBSET Nat, T # {}
  PROVE  \E m \in T : \A n \in T : m <= n
<1>1. PICK R : IsWellFoundedOn(R, Nat) /\ \A n, m \in Nat : n < m => <<n, m>> \in R
  BY OrderIsWellFounded
<1>2. IsWellFoundedOn(R, Nat)
  BY <1>1
<1>3. T \subseteq Nat
  OBVIOUS
<1>4. PICK m \in T : \A n \in T : ~ (<<n, m>> \in R)
  BY <1>2, <1>3, WFMin, Zenon
<1>5. \A n, k \in Nat : n < k => <<n, k>> \in R
  BY <1>1
<1>6. \A n \in T : ~ (n < m)
  BY <1>3, <1>4, <1>5, Zenon
<1> QED
  BY <1>3, <1>6

(* A set that holds 0 and the successor of each of its elements is Nat.    *)
LEMMA Counting ==
  ASSUME NEW T \in SUBSET Nat, 0 \in T, \A n \in T : n + 1 \in T
  PROVE  T = Nat
<1> SUFFICES ASSUME T # Nat PROVE FALSE
  OBVIOUS
<1>1. PICK m \in Nat \ T : \A n \in Nat \ T : m <= n
  BY SmallestOf
<1>2. m - 1 \in T
  BY <1>1
<1> QED
  BY <1>1, <1>2

(* g follows the equations of an iteration of next from a up to n.         *)
Follows(g, n, a, next) == g[0] = a /\ \A k \in 1..n : g[k] = next[g[k - 1]]

(* Functions that follow the same equations agree.                         *)
LEMMA FollowersAgree ==
  ASSUME NEW a, NEW next, NEW g, NEW h, NEW n \in Nat,
         Follows(g, n, a, next), Follows(h, n, a, next)
  PROVE  \A k \in 0..n : g[k] = h[k]
<1> DEFINE T == {k \in Nat : k <= n => g[k] = h[k]}
<1>1. 0 \in T
  BY DEF Follows
<1>2. ASSUME NEW k \in T PROVE k + 1 \in T
  BY <1>2 DEF Follows
<1>3. T = Nat
  <2> HIDE DEF T
  <2> QED
    BY <1>1, <1>2, Counting, T \in SUBSET Nat DEF T
<1> QED
  BY <1>3

(* So a function of the natural numbers may be defined by iteration.       *)
LEMMA Iteration ==
  ASSUME NEW S, NEW a \in S, NEW next \in [S -> S]
  PROVE  \E f \in [Nat -> S] : f[0] = a /\ \A k \in Nat : f[k + 1] = next[f[k]]
<1> DEFINE Partial(n) == {g \in [0..n -> S] : Follows(g, n, a, next)}
           T == {n \in Nat : Partial(n) # {}}
<1>1. 0 \in T
  <2> DEFINE g == [k \in 0..0 |-> a]
  <2>1. g \in Partial(0)
    BY DEF Follows
  <2> QED
    BY <2>1
<1>2. ASSUME NEW n \in T PROVE n + 1 \in T
  <2>1. PICK g \in Partial(n) : TRUE
    BY <1>2
  <2> DEFINE h == [k \in 0..(n + 1) |-> IF k = n + 1 THEN next[g[n]] ELSE g[k]]
  <2>2. g \in [0..n -> S] /\ n \in Nat /\ g[n] \in S
    BY <2>1
  <2>3. h \in [0..(n + 1) -> S]
    BY <2>2
  <2>4. Follows(h, n + 1, a, next)
    BY <2>1, <2>2 DEF Follows
  <2> QED
    BY <2>2, <2>3, <2>4
<1>3. T = Nat
  <2>1. T \in SUBSET Nat
    OBVIOUS
  <2> HIDE DEF T
  <2> QED
    BY <1>1, <1>2, <2>1, Counting
<1> DEFINE G(n) == CHOOSE g \in Partial(n) : TRUE
           f == [n \in Nat |-> G(n)[n]]
<1>4. ASSUME NEW n \in Nat
      PROVE  G(n) \in [0..n -> S] /\ Follows(G(n), n, a, next)
  BY <1>3, n \in T
<1> HIDE DEF Partial, T, G
<1>5. f \in [Nat -> S]
  BY <1>4
<1>6. f[0] = a
  BY <1>4 DEF Follows
<1>7. ASSUME NEW k \in Nat PROVE f[k + 1] = next[f[k]]
  <2>1. Follows(G(k), k, a, next) /\ Follows(G(k + 1), k, a, next)
    BY <1>4 DEF Follows
  <2>2. G(k + 1)[k] = G(k)[k]
    BY <2>1, FollowersAgree
  <2>3. G(k + 1)[k + 1] = next[G(k + 1)[k]]
    BY <1>4 DEF Follows
  <2> QED
    BY <2>2, <2>3
<1> QED
  BY <1>5, <1>6, <1>7

(***************************************************************************)
(* RetryDelay: the shift                                                   *)
(***************************************************************************)
(* Powers of two double.                                                   *)
LEMMA PowersDouble ==
  /\ PowerOf2 \in [Nat -> Nat \ {0}] /\ PowerOf2[0] = 1
  /\ \A k \in Nat : PowerOf2[k + 1] = 2 * PowerOf2[k]
<1> DEFINE next == [x \in Nat \ {0} |-> 2 * x]
           Equation(f) == f = [k \in Nat |-> IF k = 0 THEN 1 ELSE 2 * f[k - 1]]
<1>1. PICK f \in [Nat -> Nat \ {0}] : f[0] = 1 /\ \A k \in Nat : f[k + 1] = next[f[k]]
  <2> DEFINE S == Nat \ {0}
             one == 1
  <2>1. next \in [S -> S] /\ one \in S
    OBVIOUS
  <2> HIDE DEF next, S, one
  <2>2. \E f \in [Nat -> S] : f[0] = one /\ \A k \in Nat : f[k + 1] = next[f[k]]
    BY <2>1, Iteration
  <2> QED
    BY <2>2 DEF S, one
<1>2. Equation(f)
  <2>1. \A k \in Nat \ {0} : f[k] = 2 * f[k - 1]
    <3> TAKE k \in Nat \ {0}
    <3>1. k - 1 \in Nat /\ (k - 1) + 1 = k
      OBVIOUS
    <3> QED
      BY <1>1, <3>1
  <2> QED
    BY <1>1, <2>1
<1>3. Equation(PowerOf2)
  BY <1>2 DEF PowerOf2
<1> HIDE DEF next
<1>4. PowerOf2[0] = 1 /\ \A k \in Nat : PowerOf2[k + 1] = 2 * PowerOf2[k]
  BY <1>3
<1>5. PowerOf2 = [k \in Nat |-> PowerOf2[k]]
  BY <1>3
<1> DEFINE T == {k \in Nat : PowerOf2[k] \in Nat \ {0}}
<1>6. T = Nat
  <2>1. T \in SUBSET Nat /\ 0 \in T /\ \A k \in T : k + 1 \in T
    BY <1>4
  <2> HIDE DEF T
  <2> QED
    BY <2>1, Counting
<1>7. \A k \in Nat : PowerOf2[k] \in Nat \ {0}
  BY <1>6
<1>8. PowerOf2 \in [Nat -> Nat \ {0}]
  <2> HIDE DEF T
  <2> QED
    BY <1>5, <1>7
<1> QED
  BY <1>4, <1>8

(* A power of two divides every later one.                                 *)
LEMMA PowersDivide ==
  ASSUME NEW k \in Nat, NEW w \in Nat, k <= w
  PROVE  \E c \in Nat \ {0} : PowerOf2[w] = c * PowerOf2[k]
<1> DEFINE T == {n \in Nat : k <= n => \E c \in Nat \ {0} : PowerOf2[n] = c * PowerOf2[k]}
<1>1. ASSUME NEW n \in Nat, n = k PROVE n \in T
  BY <1>1, PowersDouble, PowerOf2[n] = 1 * PowerOf2[k]
<1>2. ASSUME NEW n \in T PROVE n + 1 \in T
  <2>1. CASE n + 1 <= k
    BY <1>1, <2>1
  <2>2. CASE k <= n
    <3>1. PICK c \in Nat \ {0} : PowerOf2[n] = c * PowerOf2[k]
      BY <1>2, <2>2
    <3>2. PowerOf2[n + 1] = (2 * c) * PowerOf2[k] /\ 2 * c \in Nat \ {0}
      BY <3>1, PowersDouble
    <3> QED
      BY <3>2
  <2> QED
    BY <2>1, <2>2
<1>3. 0 \in T
  BY <1>1
<1>4. T \in SUBSET Nat
  OBVIOUS
<1>5. T = Nat
  <2> HIDE DEF T
  <2> QED
    BY <1>2, <1>3, <1>4, Counting
<1> QED
  BY <1>5

(* The widths: IntMax and its power of two.                                *)
LEMMA Widths ==
  /\ Base \in Nat \ {0} /\ Cap \in Nat /\ Base <= Cap
  /\ Width \in Nat \ {0} /\ Width - 1 \in Nat
  /\ IntMax \in Nat /\ 2 * (IntMax + 1) = PowerOf2[Width]
  /\ Base * Cap <= IntMax /\ Cap * 120 <= IntMax
<1>1. Width - 1 \in Nat /\ (Width - 1) + 1 = Width
  BY DelayAssumption DEF DelayAssumption
<1>2. PowerOf2[Width] = 2 * PowerOf2[Width - 1] /\ PowerOf2[Width - 1] \in Nat \ {0}
  BY <1>1, PowersDouble
<1> QED
  BY <1>1, <1>2, DelayAssumption DEF DelayAssumption, IntMax

(* What is left of n in the width: n up to a multiple of 2^Width.          *)
LEMMA WrappedIs ==
  ASSUME NEW n \in Int
  PROVE  /\ Wrapped(n) \in -(IntMax + 1)..IntMax
         /\ \E c \in Int : Wrapped(n) = n + c * PowerOf2[Width]
         /\ n \in 0..IntMax => Wrapped(n) = n
<1> DEFINE m == n % (2 * (IntMax + 1))
           q == n \div (2 * (IntMax + 1))
<1>1. IntMax \in Nat /\ 2 * (IntMax + 1) = PowerOf2[Width]
  BY Widths
<1>2. /\ m \in 0..(2 * IntMax + 1) /\ q \in Int
      /\ n = (2 * (IntMax + 1)) * q + m
  BY <1>1
<1>3. n \in 0..IntMax => m = n
  BY <1>1
<1>4. Wrapped(n) = IF m > IntMax THEN m - 2 * (IntMax + 1) ELSE m
  BY DEF Wrapped
<1> HIDE DEF m, q
<1>5. CASE m > IntMax
  <2>1. Wrapped(n) = n + (-q - 1) * (2 * (IntMax + 1)) /\ -q - 1 \in Int
    BY <1>1, <1>2, <1>4, <1>5
  <2>2. \E c \in Int : Wrapped(n) = n + c * PowerOf2[Width]
    BY <1>1, <2>1
  <2>3. Wrapped(n) \in -(IntMax + 1)..IntMax /\ ~ (n \in 0..IntMax)
    BY <1>1, <1>2, <1>3, <1>4, <1>5
  <2> QED
    BY <2>2, <2>3
<1>6. CASE ~ (m > IntMax)
  <2>1. Wrapped(n) = n + (-q) * (2 * (IntMax + 1)) /\ -q \in Int
    BY <1>1, <1>2, <1>4, <1>6
  <2>2. \E c \in Int : Wrapped(n) = n + c * PowerOf2[Width]
    BY <1>1, <2>1
  <2>3. Wrapped(n) \in -(IntMax + 1)..IntMax /\ (n \in 0..IntMax => Wrapped(n) = n)
    BY <1>1, <1>2, <1>3, <1>4, <1>6
  <2> QED
    BY <2>2, <2>3
<1> QED
  BY <1>5, <1>6

(* The iteration that the shift is.                                        *)
LEMMA ShiftIterates ==
  /\ Shifted[0] = Base
  /\ \A k \in Nat : Shifted[k] \in Int /\ Shifted[k + 1] = Wrapped(2 * Shifted[k])
<1> DEFINE next == [x \in Int |-> Wrapped(2 * x)]
           Equation(f) == f = [k \in Nat |-> IF k = 0 THEN Base ELSE Wrapped(2 * f[k - 1])]
<1>0. Base \in Int /\ \A x \in Int : Wrapped(2 * x) \in Int
  BY WrappedIs, Widths
<1>1. next \in [Int -> Int]
  BY <1>0
<1>2. \A x \in Int : next[x] = Wrapped(2 * x)
  OBVIOUS
<1> HIDE DEF next
<1>3. PICK f \in [Nat -> Int] : f[0] = Base /\ \A k \in Nat : f[k + 1] = next[f[k]]
  <2> DEFINE S == Int
  <2>1. next \in [S -> S] /\ Base \in S
    BY <1>0, <1>1
  <2> HIDE DEF S
  <2>2. \E f \in [Nat -> S] : f[0] = Base /\ \A k \in Nat : f[k + 1] = next[f[k]]
    BY <2>1, Iteration
  <2> QED
    BY <2>2 DEF S
<1>4. Equation(f)
  <2>1. \A k \in Nat \ {0} : f[k] = Wrapped(2 * f[k - 1])
    <3> TAKE k \in Nat \ {0}
    <3>1. k - 1 \in Nat /\ (k - 1) + 1 = k
      OBVIOUS
    <3>2. f[(k - 1) + 1] = next[f[k - 1]] /\ f[k - 1] \in Int
      BY <1>3, <3>1
    <3> QED
      BY <1>2, <3>1, <3>2
  <2> QED
    BY <1>3, <2>1
<1>5. Equation(Shifted)
  BY <1>4 DEF Shifted
<1>6. Shifted[0] = Base /\ \A k \in Nat : Shifted[k + 1] = Wrapped(2 * Shifted[k])
  BY <1>5
<1> DEFINE T == {k \in Nat : Shifted[k] \in Int}
<1>7. T = Nat
  <2>1. ASSUME NEW k \in T PROVE k + 1 \in T
    <3>1. Shifted[k] \in Int /\ k \in Nat
      OBVIOUS
    <3>2. Wrapped(2 * Shifted[k]) \in Int
      BY <1>0, <3>1
    <3> QED
      BY <1>6, <3>1, <3>2
  <2>2. T \in SUBSET Nat /\ 0 \in T
    BY <1>0, <1>6
  <2> HIDE DEF T
  <2> QED
    BY <2>1, <2>2, Counting
<1> QED
  BY <1>6, <1>7

(* base << k as the code means it while it fits, and once it does not: a   *)
(* multiple of 2^k, and 0 when all bits have left.                         *)
ShiftInv(k) ==
  /\ k < Width => \E c \in Int : Shifted[k] = c * PowerOf2[k]
  /\ k >= Width => Shifted[k] = 0
  /\ Base * PowerOf2[k] <= IntMax => Shifted[k] = Base * PowerOf2[k]

(* It holds of every shift.                                                *)
LEMMA ShiftInvariant == \A k \in Nat : ShiftInv(k)
<1> DEFINE T == {k \in Nat : ShiftInv(k)}
<1>1. 0 \in T
  <2>1. Shifted[0] = Base * PowerOf2[0] /\ Shifted[0] = 1 * Shifted[0]
    BY ShiftIterates, PowersDouble, Widths
  <2> QED
    BY <2>1, ShiftIterates, PowersDouble, Widths DEF ShiftInv
<1>2. ASSUME NEW k \in T PROVE k + 1 \in T
  <2>1. /\ Shifted[k] \in Int /\ PowerOf2[k] \in Nat \ {0} /\ PowerOf2[Width] \in Nat \ {0}
        /\ PowerOf2[k + 1] = 2 * PowerOf2[k]
        /\ Shifted[k + 1] = Wrapped(2 * Shifted[k])
    BY ShiftIterates, PowersDouble, Widths
  <2>2. /\ Shifted[k + 1] \in -(IntMax + 1)..IntMax
        /\ \E c \in Int : Shifted[k + 1] = 2 * Shifted[k] + c * PowerOf2[Width]
        /\ 2 * Shifted[k] \in 0..IntMax => Shifted[k + 1] = 2 * Shifted[k]
    <3> DEFINE x == 2 * Shifted[k]
               y == Shifted[k + 1]
    <3>1. x \in Int /\ y = Wrapped(x)
      BY <2>1 DEF ShiftInv
    <3> HIDE DEF x, y
    <3>2. /\ y \in -(IntMax + 1)..IntMax
          /\ \E c \in Int : y = x + c * PowerOf2[Width]
          /\ x \in 0..IntMax => y = x
      BY <3>1, WrappedIs
    <3> QED
      BY <3>2 DEF x, y
  <2>3. ASSUME Base * PowerOf2[k + 1] <= IntMax PROVE Shifted[k + 1] = Base * PowerOf2[k + 1]
    <3>1. /\ Base * PowerOf2[k] \in Nat
          /\ Base * PowerOf2[k + 1] = 2 * (Base * PowerOf2[k])
      BY <2>1, Widths
    <3>2. Base * PowerOf2[k] <= IntMax
      BY <2>3, <3>1, Widths
    <3>3. Shifted[k] = Base * PowerOf2[k]
      BY <3>2 DEF ShiftInv
    <3> QED
      BY <2>2, <2>3, <3>1, <3>3, Widths
  <2>4. ASSUME k < Width
        PROVE  \E c \in Int : Shifted[k + 1] = c * PowerOf2[k + 1]
    <3>1. PICK a \in Int : Shifted[k] = a * PowerOf2[k]
      BY <2>4 DEF ShiftInv
    <3>2. PICK b \in Int : Shifted[k + 1] = 2 * Shifted[k] + b * PowerOf2[Width]
      BY <2>2
    <3>3. PICK d \in Nat \ {0} : PowerOf2[Width] = d * PowerOf2[k + 1]
      BY <2>4, PowersDivide, Widths
    <3>4. Shifted[k + 1] = a * PowerOf2[k + 1] + b * (d * PowerOf2[k + 1])
      <4>1. \A p \in Int : 2 * (a * p) = a * (2 * p)
        OBVIOUS
      <4> QED
        BY <2>1, <3>1, <3>2, <3>3, <4>1
    <3>5. \A p \in Int : a * p + b * (d * p) = (a + b * d) * p
      OBVIOUS
    <3>6. PowerOf2[k + 1] \in Int /\ a + b * d \in Int
      BY <2>1
    <3>7. Shifted[k + 1] = (a + b * d) * PowerOf2[k + 1]
      BY <3>4, <3>5, <3>6
    <3> QED
      BY <3>6, <3>7
  <2>5. ASSUME k + 1 >= Width PROVE Shifted[k + 1] = 0
    <3>1. PICK c \in Int : Shifted[k + 1] = c * PowerOf2[Width]
      <4>1. CASE k < Width
        <5>1. k + 1 = Width
          BY <2>5, <4>1, Widths
        <5> QED
          BY <2>4, <4>1, <5>1
      <4>2. CASE k >= Width
        <5>1. Shifted[k] = 0
          BY <4>2 DEF ShiftInv
        <5> QED
          BY <2>1, <2>2, <5>1
      <4> QED
        BY <4>1, <4>2, Widths
    <3>2. c * PowerOf2[Width] < PowerOf2[Width] /\ -PowerOf2[Width] < c * PowerOf2[Width]
      BY <2>1, <2>2, <3>1, Widths
    <3>3. c = 0
      BY <2>1, <3>2
    <3> QED
      BY <2>1, <3>1, <3>3
  <2> QED
    BY <2>3, <2>4, <2>5, Widths DEF ShiftInv
<1>3. T \in SUBSET Nat
  OBVIOUS
<1>4. T = Nat
  <2> HIDE DEF T
  <2> QED
    BY <1>1, <1>2, <1>3, Counting
<1> QED
  BY <1>4

(***************************************************************************)
(* RetryDelay: the wait                                                    *)
(***************************************************************************)
(* retryBackoff without its integers: the doubled base up to the cap.  No  *)
(* bits lost above change that, because those that stay are a multiple of  *)
(* a power of two beyond the cap.                                          *)
THEOREM ExponentIs ==
  ASSUME NEW k \in Nat
  PROVE  Exponent(k + 1) = IF Base * PowerOf2[k] <= Cap THEN Base * PowerOf2[k] ELSE Cap
<1> DEFINE p == PowerOf2[k]
           d == Shifted[k]
<1>1. p \in Nat \ {0} /\ d \in Int /\ Base * p \in Nat \ {0}
  <2>1. p \in Nat \ {0} /\ d \in Int
    BY PowersDouble, ShiftIterates
  <2>2. Base \in Nat \ {0}
    BY Widths
  <2> HIDE DEF p, d
  <2> QED
    BY <2>1, <2>2
<1>2. Exponent(k + 1) = IF d <= 0 \/ d > Cap THEN Cap ELSE d
  <2>1. (k + 1) - 1 = k
    OBVIOUS
  <2> QED
    BY <2>1 DEF Exponent
<1>3. ShiftInv(k)
  BY ShiftInvariant
<1>4. CASE Base * p <= IntMax
  <2>1. d = Base * p
    BY <1>3, <1>4 DEF ShiftInv
  <2>2. d \in Nat \ {0} /\ Cap \in Nat
    BY <1>1, <2>1, Widths
  <2>3. Exponent(k + 1) = IF d <= Cap THEN d ELSE Cap
    BY <1>2, <2>2
  <2> QED
    BY <2>1, <2>3
<1>5. CASE Base * p > IntMax
  <2>1. Cap < p
    <3>1. SUFFICES ASSUME p <= Cap PROVE FALSE
      BY <1>1, Widths
    <3>2. Base * p <= Base * Cap
      BY <1>1, <3>1, Widths
    <3> QED
      BY <1>1, <1>5, <3>2, Widths
  <2>2. d <= 0 \/ d > Cap
    <3>1. CASE k >= Width
      BY <1>3, <3>1 DEF ShiftInv
    <3>2. CASE k < Width
      <4>1. PICK c \in Int : d = c * p
        BY <1>3, <3>2 DEF ShiftInv
      <4>2. c <= 0 => c * p <= 0
        BY <1>1
      <4>3. c >= 1 => c * p >= p
        BY <1>1
      <4> HIDE DEF p, d
      <4> QED
        BY <1>1, <2>1, <4>1, <4>2, <4>3, Widths
    <3> QED
      BY <3>1, <3>2, Widths
  <2>3. ~ (Base * p <= Cap)
    <3>1. Cap <= Cap * 120
      BY Widths
    <3> QED
      BY <1>1, <1>5, <3>1, Widths
  <2> QED
    BY <1>2, <2>2, <2>3
<1> QED
  BY <1>1, <1>4, <1>5, Widths

(* The wait before jitter lies between the base and the cap and never      *)
(* decreases.                                                              *)
LEMMA ExponentBounds ==
  ASSUME NEW n \in Nat \ {0}
  PROVE  Exponent(n) \in Base..Cap /\ Exponent(n + 1) >= Exponent(n)
<1> DEFINE p == PowerOf2[n - 1]
<1>1. n - 1 \in Nat /\ (n - 1) + 1 = n /\ n \in Nat
  OBVIOUS
<1>2. p \in Nat \ {0} /\ PowerOf2[n] = 2 * p
  BY <1>1, PowersDouble
<1>3. Exponent(n) = IF Base * p <= Cap THEN Base * p ELSE Cap
  BY <1>1, ExponentIs
<1>4. Exponent(n + 1) = IF Base * (2 * p) <= Cap THEN Base * (2 * p) ELSE Cap
  BY <1>1, <1>2, ExponentIs
<1>5. Base * p \in Nat /\ Base * p >= Base /\ Base * (2 * p) = 2 * (Base * p)
  BY <1>2, Widths
<1> HIDE DEF p
<1> QED
  BY <1>3, <1>4, <1>5, Widths

(* Division by 100 is monotonic.                                           *)
LEMMA Hundredths ==
  ASSUME NEW a \in Nat, NEW b \in Nat, a <= b
  PROVE  a \div 100 <= b \div 100
  OBVIOUS

(* It loses less than one hundred.                                         *)
LEMMA HundredthsOf ==
  ASSUME NEW a \in Nat
  PROVE  /\ a \div 100 \in Nat
         /\ 100 * (a \div 100) <= a /\ a < 100 * (a \div 100) + 100
  OBVIOUS

(* Jitter: a fifth up or down.                                             *)
LEMMA DelayBounds ==
  ASSUME NEW n \in Nat \ {0}, NEW d \in Delays(n)
  PROVE  /\ d \in Nat
         /\ (Exponent(n) * 80) \div 100 <= d /\ d <= (Exponent(n) * 120) \div 100
         /\ (Base * 80) \div 100 <= d /\ d <= (Cap * 120) \div 100
<1>1. Exponent(n) \in Nat /\ Base <= Exponent(n) /\ Exponent(n) <= Cap
  BY ExponentBounds, Widths
<1>2. PICK f \in 80..120 : d = (Exponent(n) * f) \div 100
  BY DEF Delays
<1>3. /\ Exponent(n) * f \in Nat /\ Exponent(n) * 80 \in Nat /\ Exponent(n) * 120 \in Nat
      /\ Exponent(n) * 80 <= Exponent(n) * f /\ Exponent(n) * f <= Exponent(n) * 120
  BY <1>1, <1>2
<1>4. /\ Base * 80 \in Nat /\ Cap * 120 \in Nat
      /\ Base * 80 <= Exponent(n) * f /\ Exponent(n) * f <= Cap * 120
  BY <1>1, <1>3, Widths
<1> QED
  BY <1>2, <1>3, <1>4, Hundredths

(* The invariant: every wait is one of those of its attempt.               *)
RetryInv == attempt \in Nat \ {0} /\ delay \in Delays(attempt)

(* It holds from the first retry on.                                       *)
LEMMA RetryInvariant == RetrySpec => []RetryInv
<1>1. RetryInit => RetryInv
  BY DEF RetryInit, RetryInv
<1>2. RetryInv /\ [RetryNext]_retryVars => RetryInv'
  <2> SUFFICES ASSUME RetryInv, [RetryNext]_retryVars PROVE RetryInv'
    OBVIOUS
  <2>1. CASE Retry
    BY <2>1 DEF Retry, RetryInv
  <2>2. CASE UNCHANGED retryVars
    BY <2>2 DEF RetryInv, retryVars, Delays, Exponent
  <2> QED
    BY <2>1, <2>2 DEF RetryNext, LastAttempt
<1> QED
  BY <1>1, <1>2, PTL DEF RetrySpec

(***************************************************************************)
(* No wait between two attempts is shorter than the base less its jitter   *)
(* or longer than the cap with it, however many attempts there are: a      *)
(* shift that overflows is never taken for a short wait.                   *)
(***************************************************************************)
THEOREM DelaysStayInBounds == RetrySpec => []DelayInBounds
<1>1. RetryInv => DelayInBounds
  <2> SUFFICES ASSUME RetryInv PROVE DelayInBounds
    OBVIOUS
  <2>1. delay \in Nat /\ (Base * 80) \div 100 <= delay /\ delay <= (Cap * 120) \div 100
    BY DelayBounds DEF RetryInv
  <2>2. (Base * 80) \div 100 \in Int /\ (Cap * 120) \div 100 \in Int
    BY Widths
  <2> QED
    BY <2>1, <2>2 DEF DelayInBounds
<1> QED
  BY <1>1, RetryInvariant, PTL

(***************************************************************************)
(* A later wait is shorter than an earlier one by the jitter at most.      *)
(***************************************************************************)
THEOREM DelaysGrow == RetrySpec => DelayGrows
<1>1. RetryInv /\ RetryInv' /\ [RetryNext]_retryVars
        => [120 * (delay' + 1) >= 80 * delay]_retryVars
  <2> SUFFICES ASSUME RetryInv, RetryInv', Retry \/ LastAttempt, retryVars' # retryVars
               PROVE  120 * (delay' + 1) >= 80 * delay
    BY DEF RetryNext
  <2>1. Retry
    BY DEF LastAttempt
  <2>2. attempt \in Nat \ {0} /\ attempt' = attempt + 1
    BY <2>1 DEF Retry, RetryInv
  <2> DEFINE e == Exponent(attempt)
             g == Exponent(attempt + 1)
  <2>3. e \in Nat /\ g \in Nat /\ g >= e
    BY <2>2, ExponentBounds, Widths
  <2>4. delay \in Nat /\ delay <= (e * 120) \div 100
    BY <2>2, DelayBounds DEF RetryInv
  <2>5. delay' \in Delays(attempt + 1)
    BY <2>1, <2>2 DEF Retry
  <2>6. delay' \in Nat /\ (g * 80) \div 100 <= delay'
    BY <2>2, <2>5, DelayBounds
  <2> HIDE DEF e, g
  <2>7. 100 * delay <= e * 120
    <3>1. e * 120 \in Nat
      BY <2>3
    <3> QED
      BY <2>4, <3>1, HundredthsOf
  <2>8. g * 80 < 100 * (delay' + 1)
    <3>1. g * 80 \in Nat
      BY <2>3
    <3> QED
      BY <2>6, <3>1, HundredthsOf
  <2>9. \A x, y, a, b \in Nat :
          b >= a /\ 100 * x <= a * 120 /\ b * 80 < 100 * (y + 1) => 120 * (y + 1) >= 80 * x
    OBVIOUS
  <2> QED
    BY <2>3, <2>4, <2>6, <2>7, <2>8, <2>9
<1> QED
  BY <1>1, RetryInvariant, PTL DEF RetrySpec, DelayGrows
=============================================================================
