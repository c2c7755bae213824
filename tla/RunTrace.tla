----------------------------- MODULE RunTrace -----------------------------
(***************************************************************************)
(* internal/run/run.go, Trace: one target measured with a timeout per      *)
(* attempt and retries, and the classification of errors it relies on      *)
(* (core.IsRetryable).  Several calls run at once under one parent         *)
(* context, as the workers of Batch make them.                             *)
(***************************************************************************)
EXTENDS Integers

CONSTANTS
  Targets,     \* the targets measured, one call of Trace for each
  Retries,     \* the values of o.Retry looked at
  IntMax,      \* largest int
  Timed,       \* o.Timeout > 0
  OnceErrors   \* errors an attempt may end with of its own accord

(* "failed" is scamper's own errmsg in a record, which has no class.        *)
Retryable == {"unavailable", "protocol", "parse", "timeout", "deadline", "canceled"}
Fatal == {"command", "invalid", "closed", "failed"}
Errors == Retryable \cup Fatal

ASSUME RunAssumption ==
  /\ IntMax \in Nat
  /\ Retries \subseteq Int /\ Retries # {}
  /\ \A r \in Retries : r <= IntMax
  /\ Timed \in BOOLEAN
  /\ OnceErrors \subseteq Errors \ {"deadline", "canceled"}

IsRetryable(err) == err \in Retryable

VARIABLES
  retry,    \* o.Retry, the same for every call
  parent,   \* the parent context: "live", or its Err(): "canceled", "deadline"
  tpc,      \* tpc[t]: "idle", "call" (inside once), "sleep", "done"
  attempt,  \* attempt[t]: the loop counter
  traceErr, \* traceErr[t]: the error Trace returns, "none" for success
  last      \* history: how t's last attempt ended: "ok", "own" (its own timeout),
            \* "other", or "never" when there was none

runVars == <<retry, tpc, attempt, traceErr, last>>

(* Negative and overflowing counts mean a single attempt.                  *)
(* (Wrap is the two's complement of an int whose largest value is IntMax.) *)
Wrap(n) == IF n > IntMax THEN n - 2 * (IntMax + 1) ELSE n
attempts == IF retry < 0 \/ Wrap(retry + 1) < 1 THEN 1 ELSE Wrap(retry + 1)

RunInit ==
  /\ retry \in Retries
  /\ tpc = [t \in Targets |-> "idle"]
  /\ attempt = [t \in Targets |-> 0]
  /\ traceErr = [t \in Targets |-> "none"]
  /\ last = [t \in Targets |-> "never"]

(* A loop that no attempt enters would return no error.                    *)
Begin(t) ==
  /\ tpc[t] = "idle"
  /\ tpc' = [tpc EXCEPT ![t] = IF attempts > 0 THEN "call" ELSE "done"]
  /\ UNCHANGED <<retry, attempt, traceErr, last>>

Return(t, err) ==
  /\ tpc' = [tpc EXCEPT ![t] = "done"]
  /\ traceErr' = [traceErr EXCEPT ![t] = err]

(* A deadline, whoever set it, is reported as the TimeoutError of this     *)
(* call when the call has a timeout.                                       *)
ReturnLast(t, err) == Return(t, IF err = "deadline" /\ Timed THEN "timeout" ELSE err)

(* The attempt succeeds: a result with neither err nor res.Error.          *)
Succeeds(t) ==
  /\ tpc[t] = "call"
  /\ Return(t, "none")
  /\ last' = [last EXCEPT ![t] = "ok"]
  /\ UNCHANGED <<retry, attempt>>

(* The attempt fails (a res.Error counts as its error): stop on an error   *)
(* that is not retryable, on a parent that has ended and after the last    *)
(* attempt.                                                                *)
FailsWithin(limit, t, err) ==
  /\ tpc[t] = "call"
  /\ IF IsRetryable(err) /\ parent = "live" /\ attempt[t] + 1 < limit
     THEN /\ tpc' = [tpc EXCEPT ![t] = "sleep"]
          /\ attempt' = [attempt EXCEPT ![t] = @ + 1]
          /\ traceErr' = [traceErr EXCEPT ![t] = err]
     ELSE ReturnLast(t, err) /\ UNCHANGED attempt
  /\ UNCHANGED retry

(* Variants: an attempt too many, one too few, attempts never counted.     *)
FailsOnceMore(t, err) == FailsWithin(attempts + 1, t, err)
FailsOnceLess(t, err) == FailsWithin(attempts - 1, t, err)
FailsUncounted(t, err) ==
  /\ tpc[t] = "call"
  /\ IF IsRetryable(err) /\ parent = "live"
     THEN /\ tpc' = [tpc EXCEPT ![t] = "sleep"]
          /\ traceErr' = [traceErr EXCEPT ![t] = err]
     ELSE ReturnLast(t, err)
  /\ UNCHANGED <<retry, attempt>>

Fails(t, err) == FailsWithin(attempts, t, err)

(* What once returns: an error of its own, its own timeout, or the error   *)
(* of the parent context.                                                  *)
OnceFails(t) ==
  \/ /\ \E err \in OnceErrors : Fails(t, err)
     /\ last' = [last EXCEPT ![t] = "other"]
  \/ /\ Timed
     /\ Fails(t, "deadline")
     /\ last' = [last EXCEPT ![t] = "own"]
  \/ /\ parent # "live"
     /\ Fails(t, parent)
     /\ last' = [last EXCEPT ![t] = "other"]

(* sleepCtx: the timer, or the parent context, ends the wait.              *)
Wakes(t) ==
  /\ tpc[t] = "sleep"
  /\ tpc' = [tpc EXCEPT ![t] = "call"]
  /\ UNCHANGED <<retry, attempt, traceErr, last>>

SleepCut(t) ==
  /\ tpc[t] = "sleep"
  /\ parent # "live"
  /\ ReturnLast(t, traceErr[t])
  /\ UNCHANGED <<retry, attempt, last>>

TraceStep(t) == Succeeds(t) \/ OnceFails(t) \/ Wakes(t) \/ SleepCut(t)

(***************************************************************************)
(* A call of Trace reports success only when its last attempt succeeded;   *)
(* it gives up with a retryable error only when it has used up its         *)
(* attempts or its context has ended.  No early surrender, and a retry     *)
(* count that overflows int still means one full attempt rather than an    *)
(* empty result that looks like a success.                                 *)
(***************************************************************************)
GivesUpOnlyWhenItMust == \A t \in Targets :
  tpc[t] = "done" =>
    IF traceErr[t] = "none" THEN last[t] = "ok"
    ELSE IsRetryable(traceErr[t]) => parent # "live" \/ attempt[t] + 1 = attempts
=============================================================================
