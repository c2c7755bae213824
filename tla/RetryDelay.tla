----------------------------- MODULE RetryDelay -----------------------------
(***************************************************************************)
(* internal/run/run.go, retryBackoff: the waits between the attempts of    *)
(* one call of Trace, as the retry loop takes them one after the other.    *)
(* Base, Cap and the width of the integer keep the proportions of          *)
(* 200ms, 5s and int64 that matter: see the README.                        *)
(***************************************************************************)
EXTENDS Integers

CONSTANTS
  Base,       \* 200 * time.Millisecond
  Cap,        \* 5 * time.Second
  Width,      \* bits of a time.Duration
  MaxAttempt  \* bound: the attempts looked at

PowerOf2[k \in Nat] == IF k = 0 THEN 1 ELSE 2 * PowerOf2[k - 1]
IntMax == PowerOf2[Width - 1] - 1

(* In nanoseconds and 64 bits: 2e8 * 5e9 < 2^63, and so is 120 * 5e9.      *)
ASSUME DelayAssumption ==
  /\ Base \in Nat \ {0} /\ Cap \in Nat /\ Base <= Cap
  /\ Width \in Nat \ {0}
  /\ Base * Cap <= IntMax /\ Cap * 120 <= IntMax
  /\ MaxAttempt \in Nat \ {0}

(* Two's complement                                                        *)
Wrapped(n) == LET m == n % (2 * (IntMax + 1)) IN
  IF m > IntMax THEN m - 2 * (IntMax + 1) ELSE m

(* Shifted[k] is base << k: bits that leave the top are lost.              *)
Shifted[k \in Nat] == IF k = 0 THEN Base ELSE Wrapped(2 * Shifted[k - 1])

(* Variant: the cap without the check for overflow.                        *)
ExponentUnchecked(attempt) == LET d == Shifted[attempt - 1] IN IF d > Cap THEN Cap ELSE d

Exponent(attempt) == LET d == Shifted[attempt - 1] IN
  IF d <= 0 \/ d > Cap THEN Cap ELSE d

Delays(attempt) == LET d == Exponent(attempt) IN {(d * factor) \div 100 : factor \in 80..120}

VARIABLES
  attempt, \* the loop counter of Trace, 1 for the first retry
  delay    \* the wait before it

retryVars == <<attempt, delay>>

RetryInit == attempt = 1 /\ delay \in Delays(1)

Retry ==
  /\ attempt < MaxAttempt
  /\ attempt' = attempt + 1
  /\ delay' \in Delays(attempt')

LastAttempt == attempt = MaxAttempt /\ UNCHANGED retryVars

RetryNext == Retry \/ LastAttempt

RetrySpec == RetryInit /\ [][RetryNext]_retryVars

(***************************************************************************)
(* However many retries there are, no wait is shorter than the first one   *)
(* can be or longer than the cap and its jitter: in particular a shift     *)
(* that overflows is never taken for a short wait.                         *)
(***************************************************************************)
DelayInBounds == delay \in (Base * 80) \div 100 .. (Cap * 120) \div 100

(***************************************************************************)
(* Waits grow: a later wait is shorter than an earlier one by the jitter   *)
(* at most.                                                                *)
(***************************************************************************)
DelayGrows == [][120 * (delay' + 1) >= 80 * delay]_retryVars
=============================================================================
