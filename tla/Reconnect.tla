----------------------------- MODULE Reconnect -----------------------------
(***************************************************************************)
(* How long the supervisor waits between dials: core.ReconnectPolicy       *)
(* (Normalized, Next) and the backoff variable of socket/reconnect.go,     *)
(* supervise.  Session has the same loop with the waits left out.          *)
(* Durations are naturals up to DurMax, the multiplier is the fraction     *)
(* MulNum / MulDen, and a value a random number picks is any of its range. *)
(***************************************************************************)
EXTENDS Integers

CONSTANTS
  MinBackoff, MaxBackoff, \* the policy as the caller wrote it
  MulNum, MulDen,
  Jitter,
  DefaultMin, DefaultMax, \* time.Second, 30 * time.Second
  DurMax                  \* largest time.Duration

ASSUME ReconnectAssumption ==
  /\ MinBackoff \in Int /\ MaxBackoff \in Int
  /\ MulNum \in Int /\ MulDen \in Nat \ {0}
  /\ Jitter \in BOOLEAN
  /\ DurMax \in Nat
  /\ DefaultMin \in 1..DurMax /\ DefaultMax \in 1..DurMax
  /\ MinBackoff <= DurMax /\ MaxBackoff <= DurMax

Least(a, b) == IF a < b THEN a ELSE b
Greatest(a, b) == IF a < b THEN b ELSE a

(* Normalized                                                              *)
Min == IF MinBackoff <= 0 THEN DefaultMin ELSE MinBackoff
Max == Greatest(IF MaxBackoff <= 0 THEN DefaultMax ELSE MaxBackoff, Min)
num == IF MulNum < MulDen THEN 2 ELSE MulNum
den == IF MulNum < MulDen THEN 1 ELSE MulDen

(* The conversion of a float64 beyond the range of int64 gives whatever    *)
(* the processor gives: the least value, or the largest.                   *)
Scaled(cur) == LET x == (cur * num) \div den IN
  IF x > DurMax THEN {-DurMax - 1, DurMax} ELSE {x}

(* Variants: the cap without the check for overflow; full jitter.          *)
CappedUnchecked(x) == Least(x, Max)
JitteredFully(x) == IF Jitter /\ x > 0 THEN 1..x ELSE {x}

Capped(x) == IF x <= 0 THEN Max ELSE Least(x, Max)

(* Equal jitter: half and a random part below half; none on a wait of 1.   *)
Jittered(x) == LET half == x \div 2 IN
  IF Jitter /\ half > 0 THEN half..(2 * half - 1) ELSE {x}

NextBackoff(cur) ==
  UNION {Jittered(Capped(x)) : x \in Scaled(IF cur <= 0 THEN Min ELSE cur)}

VARIABLES
  phase,   \* "up" (connected), "sleep", "dial", "closed"
  backoff

vars == <<phase, backoff>>

Init == phase = "up" /\ backoff = Min

Lost == phase = "up" /\ phase' = "sleep" /\ UNCHANGED backoff

Slept == phase = "sleep" /\ phase' = "dial" /\ UNCHANGED backoff

DialFails ==
  /\ phase = "dial"
  /\ phase' = "sleep"
  /\ backoff' \in NextBackoff(backoff)

DialSucceeds ==
  /\ phase = "dial"
  /\ phase' = "up"
  /\ backoff' = Min

(* Close is seen while connected and while asleep, never inside a dial.    *)
Closed == phase \in {"up", "sleep"} /\ phase' = "closed" /\ UNCHANGED backoff

Stopped == phase = "closed" /\ UNCHANGED vars

Next == Lost \/ Slept \/ DialFails \/ DialSucceeds \/ Closed \/ Stopped

Spec == Init /\ [][Next]_vars

TypeOK ==
  /\ phase \in {"up", "sleep", "dial", "closed"}
  /\ backoff \in 1..Max

(***************************************************************************)
(* A policy that doubles or more never goes below its lower bound, except  *)
(* as far as half of its upper bound does: jitter, truncation and overflow *)
(* take away what the multiplier gave and no more.                         *)
(***************************************************************************)
BackoffKeepsItsFloor == num >= 2 * den => backoff >= Least(Min, Max \div 2)

(***************************************************************************)
(* Under such a policy one more failure never shortens the wait, until it  *)
(* reaches the jitter range of the upper bound; a multiplication that      *)
(* overflows does not bring the supervisor back to dialling in a hurry.    *)
(***************************************************************************)
FailuresNeverHurry ==
  [][num >= 2 * den /\ phase = "dial" /\ phase' = "sleep" =>
       backoff' >= Least(backoff, Max \div 2)]_vars
=============================================================================
