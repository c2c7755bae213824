------------------------------- MODULE Batch -------------------------------
(***************************************************************************)
(* internal/run/run.go, Batch: the submitter, the bounded queue, the       *)
(* worker pool, and the calls of Trace (RunTrace) the workers make under   *)
(* the batch's own cancellable context.                                    *)
(***************************************************************************)
EXTENDS RunTrace, Sequences, FiniteSets

CONSTANTS
  Concurrency,        \* b.Concurrency
  DefaultConcurrency, \* the mode's default
  QueueSize,          \* b.QueueSize
  StopOnError,        \* b.StopOnError
  DropOnBackpressure, \* b.DropOnBackpressure
  UserCancels         \* may the caller's context end

N == Cardinality(Targets)

ASSUME BatchAssumption ==
  /\ Targets = 1..N /\ N \in Nat \ {0}
  /\ Concurrency \in Int /\ DefaultConcurrency \in Int /\ QueueSize \in Int
  /\ {StopOnError, DropOnBackpressure, UserCancels} \subseteq BOOLEAN

Smaller(a, b) == IF a < b THEN a ELSE b
Larger(a, b) == IF a < b THEN b ELSE a

conc == LET asked == IF Concurrency > 0 THEN Concurrency ELSE Larger(DefaultConcurrency, 1)
        IN Smaller(asked, N)
qsize == Larger(QueueSize, conc)
Workers == 1..conc

VARIABLES
  userCtx,   \* the caller's context: "live", "canceled", "deadline"
  jobs,      \* the queue: indexes of targets
  jobsClosed,\* close(jobs) has happened
  submitter, \* "submit", "offer", "close", "wait", "pass", "returned"
  next,      \* the target the submitter is at
  slot,      \* the slot the final pass is at
  worker,    \* worker[w]: "idle", "trace", "stop", "exit"
  holds,     \* holds[w]: the target worker w is at, 0 for none
  results,   \* results[t]: the Error of slot t, "none" for success
  completed, \* the progress counter
  \* history
  submitted, \* targets OnSubmit was called for
  enqueued,  \* targets that entered the queue
  dropped    \* targets refused on a full queue

batchVars == <<userCtx, jobs, jobsClosed, submitter, next, slot, worker, holds,
               results, completed, submitted, enqueued, dropped>>
vars == <<parent, runVars, batchVars>>

Init ==
  /\ RunInit
  /\ parent = "live"
  /\ userCtx = "live"
  /\ jobs = <<>> /\ jobsClosed = FALSE
  /\ submitter = "submit" /\ next = 1 /\ slot = 1
  /\ worker = [w \in Workers |-> "idle"]
  /\ holds = [w \in Workers |-> 0]
  /\ results = [t \in Targets |-> "stopped"]
  /\ completed = 0
  /\ submitted = {} /\ enqueued = {} /\ dropped = {}

(***************************************************************************)
(* The submitter                                                           *)
(***************************************************************************)
CallOnSubmit ==
  /\ submitter = "submit"
  /\ next <= N
  /\ submitted' = submitted \cup {next}
  /\ submitter' = "offer"
  /\ UNCHANGED <<parent, runVars, userCtx, jobs, jobsClosed, next, slot, worker, holds, results,
                 completed, enqueued, dropped>>

Enqueue ==
  /\ submitter = "offer"
  /\ Len(jobs) < qsize
  /\ jobs' = Append(jobs, next)
  /\ enqueued' = enqueued \cup {next}
  /\ next' = next + 1
  /\ submitter' = "submit"
  /\ UNCHANGED <<parent, runVars, userCtx, jobsClosed, slot, worker, holds, results, completed,
                 submitted, dropped>>

(* Variant: a dropped target is not counted as completed.                  *)
DropUncounted ==
  /\ submitter = "offer"
  /\ DropOnBackpressure
  /\ Len(jobs) >= qsize
  /\ parent = "live"
  /\ dropped' = dropped \cup {next}
  /\ next' = next + 1
  /\ submitter' = "submit"
  /\ UNCHANGED <<parent, runVars, userCtx, jobs, jobsClosed, slot, worker, holds, results,
                 completed, submitted, enqueued>>

(* The default case of select: no other case is ready.                     *)
Drop ==
  /\ submitter = "offer"
  /\ DropOnBackpressure
  /\ Len(jobs) >= qsize
  /\ parent = "live"
  /\ results' = [results EXCEPT ![next] = "stopped"]
  /\ completed' = completed + 1
  /\ dropped' = dropped \cup {next}
  /\ next' = next + 1
  /\ submitter' = "submit"
  /\ UNCHANGED <<parent, runVars, userCtx, jobs, jobsClosed, slot, worker, holds, submitted,
                 enqueued>>

StopSubmitting ==
  /\ \/ submitter = "offer" /\ parent # "live"
     \/ submitter = "submit" /\ next > N
  /\ submitter' = "close"
  /\ UNCHANGED <<parent, runVars, userCtx, jobs, jobsClosed, next, slot, worker, holds, results,
                 completed, submitted, enqueued, dropped>>

CloseJobs ==
  /\ submitter = "close"
  /\ jobsClosed' = TRUE
  /\ submitter' = "wait"
  /\ UNCHANGED <<parent, runVars, userCtx, jobs, next, slot, worker, holds, results, completed,
                 submitted, enqueued, dropped>>

WorkersDone == \A w \in Workers : worker[w] = "exit"

(* Variant: the workers are not waited for.                                *)
GoToPass ==
  /\ submitter = "wait"
  /\ submitter' = "pass"
  /\ UNCHANGED <<parent, runVars, userCtx, jobs, jobsClosed, next, slot, worker, holds, results,
                 completed, submitted, enqueued, dropped>>

WaitForWorkers == WorkersDone /\ GoToPass

(* Variant: the final pass leaves the slots alone.                         *)
PassNothing ==
  /\ submitter = "pass" /\ slot <= N
  /\ slot' = slot + 1
  /\ UNCHANGED <<parent, runVars, userCtx, jobs, jobsClosed, submitter, next, worker, holds,
                 results, completed, submitted, enqueued, dropped>>

(* A slot that still says stopped takes over the error of the caller's     *)
(* context, which is asked for every slot and may end during the pass.     *)
PassSlot ==
  /\ submitter = "pass" /\ slot <= N
  /\ results' = [results EXCEPT ![slot] =
       IF @ = "stopped" /\ userCtx # "live" THEN userCtx ELSE @]
  /\ slot' = slot + 1
  /\ UNCHANGED <<parent, runVars, userCtx, jobs, jobsClosed, submitter, next, worker, holds,
                 completed, submitted, enqueued, dropped>>

Finish ==
  /\ submitter = "pass" /\ slot > N
  /\ submitter' = "returned"
  /\ UNCHANGED <<parent, runVars, userCtx, jobs, jobsClosed, next, slot, worker, holds, results,
                 completed, submitted, enqueued, dropped>>

Submitter ==
  \/ CallOnSubmit \/ Enqueue \/ Drop \/ StopSubmitting
  \/ CloseJobs \/ WaitForWorkers \/ PassSlot \/ Finish

(***************************************************************************)
(* The workers                                                             *)
(***************************************************************************)
Take(w) ==
  /\ worker[w] = "idle"
  /\ jobs # <<>>
  /\ worker' = [worker EXCEPT ![w] = "trace"]
  /\ holds' = [holds EXCEPT ![w] = Head(jobs)]
  /\ jobs' = Tail(jobs)
  /\ Begin(Head(jobs))
  /\ UNCHANGED <<parent, userCtx, jobsClosed, submitter, next, slot, results, completed, submitted,
                 enqueued, dropped>>

Measure(w) ==
  /\ worker[w] = "trace"
  /\ TraceStep(holds[w])
  /\ UNCHANGED <<parent, batchVars>>

(* The result goes to its own slot, then it is counted and reported.       *)
Store(w) ==
  /\ worker[w] = "trace"
  /\ tpc[holds[w]] = "done"
  /\ results' = [results EXCEPT ![holds[w]] = traceErr[holds[w]]]
  /\ completed' = completed + 1
  /\ worker' = [worker EXCEPT ![w] = "stop"]
  /\ UNCHANGED <<parent, runVars, userCtx, jobs, jobsClosed, submitter, next, slot, holds,
                 submitted, enqueued, dropped>>

(* On to the next target, after cancelling the batch context if told to.   *)
GoOn(w, stop) ==
  /\ worker[w] = "stop"
  /\ IF stop
     THEN /\ parent' = IF parent = "live" THEN "canceled" ELSE parent
     ELSE UNCHANGED <<parent>>
  /\ worker' = [worker EXCEPT ![w] = "idle"]
  /\ holds' = [holds EXCEPT ![w] = 0]
  /\ UNCHANGED <<runVars, userCtx, jobs, jobsClosed, submitter, next, slot, results, completed,
                 submitted, enqueued, dropped>>

(* Variant: any error stops the batch, a retryable one too.                *)
StopOnAnyError(w) == LET err == traceErr[holds[w]] IN GoOn(w, err # "none" /\ StopOnError)

(* The first error that is not retryable cancels the batch context.        *)
StopOrGoOn(w) == LET err == traceErr[holds[w]] IN
  GoOn(w, err # "none" /\ StopOnError /\ ~IsRetryable(err))

Exit(w) ==
  /\ worker[w] = "idle"
  /\ jobs = <<>> /\ jobsClosed
  /\ worker' = [worker EXCEPT ![w] = "exit"]
  /\ UNCHANGED <<parent, runVars, userCtx, jobs, jobsClosed, submitter, next, slot, holds, results,
                 completed, submitted, enqueued, dropped>>

WorkerStep(w) == Take(w) \/ Measure(w) \/ Store(w) \/ StopOrGoOn(w) \/ Exit(w)

(* The caller's context ends, and the batch context with it.               *)
UserCtxEnds == \E why \in {"canceled", "deadline"} :
  /\ UserCancels
  /\ userCtx = "live" /\ submitter # "returned"
  /\ userCtx' = why
  /\ parent' = IF parent = "live" THEN why ELSE parent
  /\ UNCHANGED <<runVars, jobs, jobsClosed, submitter, next, slot, worker, holds, results,
                 completed, submitted, enqueued, dropped>>

Returned == submitter = "returned" /\ UNCHANGED vars

Next == Submitter \/ (\E w \in Workers : WorkerStep(w)) \/ UserCtxEnds \/ Returned

Spec == Init /\ [][Next]_vars

(***************************************************************************)
(* Safety                                                                  *)
(***************************************************************************)
TypeOK ==
  /\ parent \in {"live", "canceled", "deadline"}
  /\ retry \in Retries
  /\ tpc \in [Targets -> {"idle", "call", "sleep", "done"}]
  /\ attempt \in [Targets -> Nat]
  /\ \A t \in Targets : attempt[t] < attempts
  /\ traceErr \in [Targets -> Errors \cup {"none"}]
  /\ last \in [Targets -> {"never", "ok", "own", "other"}]
  /\ userCtx \in {"live", "canceled", "deadline"}
  /\ jobs \in Seq(Targets) /\ Len(jobs) <= qsize
  /\ jobsClosed \in BOOLEAN
  /\ submitter \in {"submit", "offer", "close", "wait", "pass", "returned"}
  /\ next \in 1..(N + 1) /\ slot \in 1..(N + 1)
  /\ submitter = "offer" => next <= N
  /\ worker \in [Workers -> {"idle", "trace", "stop", "exit"}]
  /\ holds \in [Workers -> Targets \cup {0}]
  /\ \A w \in Workers : worker[w] \in {"trace", "stop"} => holds[w] # 0
  /\ results \in [Targets -> Errors \cup {"none", "stopped"}]
  /\ completed \in Nat
  /\ submitted \subseteq Targets /\ enqueued \subseteq Targets /\ dropped \subseteq Targets

(* When Batch returns, every target that entered the queue was measured    *)
(* and its slot holds what its own Trace returned, no worker is left       *)
(* running, and progress has counted the measured and the dropped targets. *)
(* OnSubmit announced them and at most the one at which the batch stopped. *)
EveryTargetAccounted == submitter = "returned" =>
  /\ \A t \in enqueued : tpc[t] = "done" /\ results[t] = traceErr[t]
  /\ \A t \in Targets \ enqueued : tpc[t] = "idle" /\ results[t] \in {"stopped", userCtx}
  /\ completed = Cardinality(enqueued \cup dropped)
  /\ enqueued \cap dropped = {} /\ enqueued \cup dropped \subseteq submitted
  /\ Cardinality(submitted \ (enqueued \cup dropped)) <= 1

(* A slot is left at ErrBatchStopped only for a target that was dropped, or *)
(* because an error that is not retryable stopped the batch: neither the    *)
(* caller's context nor a retryable failure makes Batch skip a target so.   *)
StoppedForAReason == submitter = "returned" =>
  \A t \in Targets : results[t] = "stopped" =>
    t \in dropped \/ (StopOnError /\ \E u \in enqueued : results[u] \in Fatal)

(* The batch context ends only with the caller's or on a fatal result that *)
(* is already in its slot.                                                 *)
CancelHasCause == parent # "live" /\ userCtx = "live" =>
  StopOnError /\ \E u \in enqueued : tpc[u] = "done" /\ results[u] \in Fatal

(***************************************************************************)
(* Refinement: a target runs while a worker is in Trace with it, and is    *)
(* done when its outcome is in its slot and counted.                       *)
(***************************************************************************)
InTrace(t) == \E w \in Workers : worker[w] = "trace" /\ holds[w] = t
StageOf(t) == IF t \in dropped THEN "refused"
              ELSE IF InTrace(t) THEN "running"
              ELSE IF tpc[t] = "done" THEN "done" ELSE "waiting"

(* What the final pass writes is seen when Batch returns.                  *)
Shown(t) == IF submitter = "pass" /\ StageOf(t) # "done" THEN "stopped" ELSE results[t]

Pool == INSTANCE WorkerPool WITH
  Size <- conc,
  Outcomes <- Errors \cup {"none"},
  CtxErrors <- {"canceled", "deadline"},
  stage <- [t \in Targets |-> StageOf(t)],
  result <- [t \in Targets |-> Shown(t)],
  counted <- completed,
  over <- (submitter = "returned")

(* Queue, goroutines and contexts amount to a pool of workers: no target   *)
(* is measured twice, none starts or ends once Batch has returned, and the *)
(* final pass rewrites only the slots of targets that were not measured.   *)
ImplementsPool == Pool!Spec

(***************************************************************************)
(* What docs and comments say and the code does not do                     *)
(***************************************************************************)
(* core/errors.go, ErrBatchStopped: a batch that StopOnError ended early   *)
(* reports that error for the targets it did not get to; no target is      *)
(* reported as canceled when nobody but the batch cancelled.               *)
StoppedTargetsSaySo == submitter = "returned" /\ userCtx = "live" =>
  \A t \in Targets : results[t] # "canceled"
=============================================================================
