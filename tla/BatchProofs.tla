---------------------------- MODULE BatchProofs ----------------------------
(***************************************************************************)
(* Theorems about Batch, for every number of targets and of workers, every *)
(* size of the queue, every retry count and every order of events.         *)
(***************************************************************************)
EXTENDS Batch, SequenceTheorems, FiniteSetTheorems, TLAPS

(***************************************************************************)
(* Constants                                                               *)
(***************************************************************************)
(* There is work for every worker, and room in the queue for each of them. *)
LEMMA PoolSize ==
  /\ N \in Nat \ {0} /\ Targets = 1..N
  /\ conc \in Nat \ {0} /\ conc <= N
  /\ qsize \in Nat \ {0}
<1>1. N \in Nat \ {0} /\ Targets = 1..N
  BY BatchAssumption
<1>2. conc \in Nat \ {0} /\ conc <= N
  BY <1>1, BatchAssumption DEF conc, Smaller, Larger
<1>3. qsize \in Nat \ {0}
  BY <1>2, BatchAssumption DEF qsize, Larger
<1> QED
  BY <1>1, <1>2, <1>3

(* A loop is entered at least once, whatever the retry count.              *)
LEMMA AtLeastOneAttempt ==
  ASSUME retry \in Retries
  PROVE  attempts \in Nat \ {0}
<1>1. retry \in Int /\ retry <= IntMax /\ IntMax \in Nat
  BY RunAssumption
<1>2. CASE retry < 0
  BY <1>2 DEF attempts
<1>3. CASE retry >= 0 /\ retry = IntMax
  <2>1. Wrap(retry + 1) < 1
    BY <1>1, <1>3 DEF Wrap
  <2> QED
    BY <2>1 DEF attempts
<1>4. CASE retry >= 0 /\ retry < IntMax
  <2>1. Wrap(retry + 1) = retry + 1
    BY <1>1, <1>4 DEF Wrap
  <2> QED
    BY <1>1, <1>4, <2>1 DEF attempts
<1> QED
  BY <1>1, <1>2, <1>3, <1>4

(***************************************************************************)
(* Type correctness                                                        *)
(***************************************************************************)
(* The part of TypeOK about Trace.                                         *)
RunTypeOK ==
  /\ parent \in {"live", "canceled", "deadline"}
  /\ retry \in Retries
  /\ tpc \in [Targets -> {"idle", "call", "sleep", "done"}]
  /\ attempt \in [Targets -> Nat]
  /\ \A t \in Targets : attempt[t] < attempts
  /\ traceErr \in [Targets -> Errors \cup {"none"}]
  /\ last \in [Targets -> {"never", "ok", "own", "other"}]

(* A step of Trace(t) is about t alone and only taken inside the call.     *)
Only(t) == \A u \in Targets : u # t =>
  tpc'[u] = tpc[u] /\ attempt'[u] = attempt[u] /\ traceErr'[u] = traceErr[u] /\ last'[u] = last[u]

(* A failed attempt is followed by a sleep, or by the return of an error   *)
(* with which no attempt was left, or worth making.                        *)
LEMMA FailsFacts ==
  ASSUME RunTypeOK, NEW t \in Targets, NEW err \in Errors, Fails(t, err)
  PROVE  /\ retry' = retry /\ tpc[t] = "call" /\ traceErr'[t] # "none"
         /\ tpc' \in [Targets -> {"idle", "call", "sleep", "done"}]
         /\ attempt' \in [Targets -> Nat] /\ \A u \in Targets : attempt'[u] < attempts
         /\ traceErr' \in [Targets -> Errors \cup {"none"}]
         /\ \A u \in Targets : u # t =>
              tpc'[u] = tpc[u] /\ attempt'[u] = attempt[u] /\ traceErr'[u] = traceErr[u]
         /\ tpc'[t] = "sleep" \/
              (tpc'[t] = "done" /\ attempt'[t] = attempt[t] /\
                (IsRetryable(traceErr'[t]) => parent # "live" \/ attempt[t] + 1 = attempts))
<1>1. attempts \in Nat \ {0} /\ attempt[t] \in Nat /\ attempt[t] < attempts
  BY AtLeastOneAttempt DEF RunTypeOK
<1>2. err # "none" /\ "timeout" \in Errors /\ "deadline" \in Retryable
  BY DEF Errors, Retryable, Fatal
<1>3. CASE IsRetryable(err) /\ parent = "live" /\ attempt[t] + 1 < attempts
  BY <1>1, <1>2, <1>3 DEF Fails, FailsWithin, RunTypeOK
<1>4. CASE ~(IsRetryable(err) /\ parent = "live" /\ attempt[t] + 1 < attempts)
  <2>1. tpc[t] = "call" /\ ReturnLast(t, err) /\ attempt' = attempt /\ retry' = retry
    BY <1>4 DEF Fails, FailsWithin
  <2>2. PICK e \in Errors : /\ e # "none" /\ (IsRetryable(e) => IsRetryable(err))
                            /\ tpc' = [tpc EXCEPT ![t] = "done"] /\ traceErr' = [traceErr EXCEPT ![t] = e]
    BY <1>2, <2>1 DEF ReturnLast, Return, IsRetryable
  <2>3. IsRetryable(err) => parent # "live" \/ attempt[t] + 1 = attempts
    BY <1>1, <1>4
  <2> QED
    BY <1>1, <2>1, <2>2, <2>3 DEF RunTypeOK
<1> QED
  BY <1>3, <1>4

(* A step inside Trace keeps the types and is about its own target.        *)
LEMMA TraceFacts ==
  ASSUME RunTypeOK, NEW t \in Targets, TraceStep(t), parent' = parent
  PROVE  RunTypeOK' /\ Only(t) /\ retry' = retry /\ tpc[t] \in {"call", "sleep"} /\ tpc'[t] # "idle"
<1>1. attempts \in Nat \ {0}
  BY AtLeastOneAttempt DEF RunTypeOK
<1>2. retry' = retry => attempts' = attempts
  BY DEF attempts, Wrap
<1>3. CASE Succeeds(t) \/ Wakes(t)
  BY <1>2, <1>3 DEF Succeeds, Wakes, Return, RunTypeOK, Only
<1>4. CASE SleepCut(t)
  <2>1. PICK e \in Errors \cup {"none"} :
          tpc' = [tpc EXCEPT ![t] = "done"] /\ traceErr' = [traceErr EXCEPT ![t] = e]
    BY <1>4 DEF SleepCut, ReturnLast, Return, RunTypeOK, Errors, Retryable
  <2> QED
    BY <1>2, <1>4, <2>1 DEF SleepCut, RunTypeOK, Only
<1>5. CASE OnceFails(t)
  <2>1. PICK err \in Errors, l \in {"own", "other"} : Fails(t, err) /\ last' = [last EXCEPT ![t] = l]
    BY <1>5, RunAssumption DEF OnceFails, RunTypeOK, Errors, Retryable
  <2>2. /\ retry' = retry /\ tpc[t] = "call"
        /\ tpc' \in [Targets -> {"idle", "call", "sleep", "done"}]
        /\ attempt' \in [Targets -> Nat] /\ \A u \in Targets : attempt'[u] < attempts
        /\ traceErr' \in [Targets -> Errors \cup {"none"}]
        /\ \A u \in Targets : u # t =>
             tpc'[u] = tpc[u] /\ attempt'[u] = attempt[u] /\ traceErr'[u] = traceErr[u]
        /\ tpc'[t] # "idle"
    BY <2>1, FailsFacts
  <2>3. RunTypeOK'
    BY <1>2, <2>1, <2>2 DEF RunTypeOK
  <2>4. Only(t)
    BY <2>1, <2>2 DEF RunTypeOK, Only
  <2> QED
    BY <2>2, <2>3, <2>4
<1> QED
  BY <1>3, <1>4, <1>5 DEF TraceStep

(* So does the step that enters Trace, and it enters only once.            *)
LEMMA BeginFacts ==
  ASSUME RunTypeOK, NEW t \in Targets, Begin(t), parent' = parent
  PROVE  RunTypeOK' /\ Only(t) /\ retry' = retry /\ tpc[t] = "idle" /\ tpc'[t] = "call"
<1>1. attempts \in Nat \ {0} /\ attempts > 0
  BY AtLeastOneAttempt DEF RunTypeOK
<1>2. tpc' = [tpc EXCEPT ![t] = "call"] /\ UNCHANGED <<retry, attempt, traceErr, last>>
  BY <1>1 DEF Begin
<1>3. attempts' = attempts
  BY <1>2 DEF attempts, Wrap
<1> QED
  BY <1>2, <1>3 DEF Begin, RunTypeOK, Only

(* The queue holds targets, each of them once.                             *)
LEMMA TakeOne ==
  ASSUME TypeOK, jobs # <<>>
  PROVE  /\ Head(jobs) \in Targets /\ Tail(jobs) \in Seq(Targets) /\ Len(Tail(jobs)) <= qsize
         /\ Range(jobs) = {Head(jobs)} \cup Range(Tail(jobs))
         /\ IsInjective(jobs) => IsInjective(Tail(jobs)) /\ Head(jobs) \notin Range(Tail(jobs))
<1>1. jobs \in Seq(Targets) /\ Len(jobs) \in Nat /\ Len(jobs) <= qsize /\ qsize \in Nat
  BY PoolSize DEF TypeOK
<1>2. /\ Len(jobs) \in Nat \ {0} /\ Head(jobs) = jobs[1] /\ DOMAIN jobs = 1..Len(jobs)
      /\ Tail(jobs) \in Seq(Targets) /\ Len(Tail(jobs)) = Len(jobs) - 1
      /\ DOMAIN Tail(jobs) = 1..(Len(jobs) - 1)
      /\ \A k \in 1..(Len(jobs) - 1) : Tail(jobs)[k] = jobs[k + 1]
  BY <1>1
<1>3. 1 \in DOMAIN jobs
  BY <1>2
<1>4. Head(jobs) \in Targets /\ Len(Tail(jobs)) <= qsize
  BY <1>1, <1>2
<1>5. \A k \in DOMAIN Tail(jobs) : k \in Nat /\ k + 1 \in DOMAIN jobs /\ k + 1 # 1 /\ Tail(jobs)[k] = jobs[k + 1]
  BY <1>2
<1>6. ASSUME NEW k \in DOMAIN jobs
      PROVE  k = 1 \/ \E l \in DOMAIN Tail(jobs) : Tail(jobs)[l] = jobs[k]
  <2>1. k # 1 => k - 1 \in 1..(Len(jobs) - 1) /\ (k - 1) + 1 = k
    BY <1>2
  <2> QED
    BY <1>2, <2>1
<1>7. Range(jobs) = {Head(jobs)} \cup Range(Tail(jobs))
  <2>1. Range(jobs) \subseteq {Head(jobs)} \cup Range(Tail(jobs))
    BY <1>2, <1>6 DEF Range
  <2>2. Head(jobs) \in Range(jobs) /\ Range(Tail(jobs)) \subseteq Range(jobs)
    BY <1>2, <1>3, <1>5 DEF Range
  <2> QED
    BY <2>1, <2>2
<1>8. ASSUME IsInjective(jobs) PROVE IsInjective(Tail(jobs))
  <2> SUFFICES ASSUME NEW k \in DOMAIN Tail(jobs), NEW l \in DOMAIN Tail(jobs),
                      Tail(jobs)[k] = Tail(jobs)[l]
               PROVE  k = l
    BY DEF IsInjective
  <2>1. k + 1 = l + 1
    BY <1>5, <1>8 DEF IsInjective
  <2> QED
    BY <1>5, <2>1
<1>9. ASSUME IsInjective(jobs) PROVE Head(jobs) \notin Range(Tail(jobs))
  BY <1>2, <1>3, <1>5, <1>9 DEF IsInjective, Range
<1> QED
  BY <1>2, <1>4, <1>7, <1>8, <1>9

(* What one more target in the queue changes.                              *)
LEMMA PutOne ==
  ASSUME TypeOK, Len(jobs) < qsize, NEW t \in Targets
  PROVE  /\ Append(jobs, t) \in Seq(Targets) /\ Len(Append(jobs, t)) <= qsize
         /\ Range(Append(jobs, t)) = Range(jobs) \cup {t}
         /\ IsInjective(jobs) /\ t \notin Range(jobs) => IsInjective(Append(jobs, t))
<1>1. jobs \in Seq(Targets) /\ Len(jobs) \in Nat /\ qsize \in Nat
  BY PoolSize DEF TypeOK
<1>2. /\ Append(jobs, t) \in Seq(Targets) /\ Len(Append(jobs, t)) = Len(jobs) + 1
      /\ DOMAIN jobs = 1..Len(jobs) /\ DOMAIN Append(jobs, t) = 1..(Len(jobs) + 1)
      /\ \A k \in 1..Len(jobs) : Append(jobs, t)[k] = jobs[k]
      /\ Append(jobs, t)[Len(jobs) + 1] = t
  BY <1>1
<1>3. Len(Append(jobs, t)) <= qsize
  BY <1>1, <1>2
<1>4. \A k \in DOMAIN Append(jobs, t) : k \in DOMAIN jobs \/ k = Len(jobs) + 1
  BY <1>1, <1>2
<1>5. DOMAIN jobs \subseteq DOMAIN Append(jobs, t) /\ Len(jobs) + 1 \in DOMAIN Append(jobs, t)
  BY <1>1, <1>2
<1>6. Range(Append(jobs, t)) = Range(jobs) \cup {t}
  BY <1>2, <1>4, <1>5 DEF Range
<1>7. ASSUME IsInjective(jobs), t \notin Range(jobs) PROVE IsInjective(Append(jobs, t))
  BY <1>2, <1>4, <1>5, <1>7 DEF IsInjective, Range
<1> QED
  BY <1>2, <1>3, <1>6, <1>7

(* Base case of BatchTypeCorrect.                                          *)
LEMMA TypeInit ==
  ASSUME Init
  PROVE  TypeOK
<1>1. attempts \in Nat \ {0} /\ 0 < attempts
  BY AtLeastOneAttempt DEF Init, RunInit
<1>2. <<>> \in Seq(Targets) /\ Len(<<>>) = 0 /\ 0 <= qsize /\ 1 \in 1..(N + 1)
  BY PoolSize
<1>3. attempt \in [Targets -> Nat] /\ \A t \in Targets : attempt[t] < attempts
  BY <1>1 DEF Init, RunInit
<1> QED
  BY <1>2, <1>3 DEF Init, RunInit, TypeOK

(* What does not touch Trace's variables keeps their types.                *)
LEMMA RunRests ==
  ASSUME RunTypeOK, UNCHANGED runVars, parent' \in {"live", "canceled", "deadline"}
  PROVE  RunTypeOK'
<1>1. UNCHANGED <<retry, tpc, attempt, traceErr, last>>
  BY DEF runVars
<1>2. attempts' = attempts
  BY <1>1 DEF attempts, Wrap
<1> QED
  BY <1>1, <1>2 DEF RunTypeOK

(* Every step of submitter, worker and context keeps the types.            *)
LEMMA TypeStep ==
  ASSUME TypeOK, [Next]_vars
  PROVE  TypeOK'
<1> DEFINE PoolTypeOK ==
      /\ userCtx \in {"live", "canceled", "deadline"}
      /\ jobs \in Seq(Targets) /\ Len(jobs) <= qsize
      /\ jobsClosed \in BOOLEAN
      /\ submitter \in {"submit", "offer", "close", "wait", "pass", "returned"}
      /\ next \in 1..(N + 1) /\ slot \in 1..(N + 1)
      /\ submitter = "offer" => next <= N
      /\ worker \in [Workers -> {"idle", "trace", "stop", "exit"}]
      /\ holds \in [Workers -> Targets \cup {0}]
      /\ \A w \in Workers : worker[w] \in {"trace", "stop"} => holds[w] # 0
      /\ results \in [Targets -> Errors \cup {"none", "stopped"}]
      /\ completed \in Nat
      /\ submitted \subseteq Targets /\ enqueued \subseteq Targets /\ dropped \subseteq Targets
<1>1. RunTypeOK /\ PoolTypeOK
  BY DEF TypeOK, RunTypeOK
<1>2. SUFFICES RunTypeOK' /\ PoolTypeOK'
  BY DEF TypeOK, RunTypeOK
<1>3. Targets = 1..N /\ N \in Nat \ {0}
  BY PoolSize
<1>4. CASE CallOnSubmit \/ StopSubmitting \/ CloseJobs \/ WaitForWorkers \/ Finish
  <2>1. RunTypeOK'
    BY <1>1, <1>4, RunRests
    DEF CallOnSubmit, StopSubmitting, CloseJobs, WaitForWorkers, GoToPass, Finish, RunTypeOK
  <2>2. CallOnSubmit => next \in Targets /\ next <= N
    BY <1>1, <1>3 DEF CallOnSubmit
  <2>3. PoolTypeOK'
    BY <1>1, <1>4, <2>2
    DEF CallOnSubmit, StopSubmitting, CloseJobs, WaitForWorkers, GoToPass, Finish
  <2> QED
    BY <2>1, <2>3
<1>5. CASE Enqueue
  <2>1. RunTypeOK'
    BY <1>1, <1>5, RunRests DEF Enqueue, RunTypeOK
  <2>2. next \in Targets /\ next + 1 \in 1..(N + 1)
    BY <1>1, <1>3, <1>5 DEF Enqueue
  <2>3. jobs' \in Seq(Targets) /\ Len(jobs') <= qsize
    BY <1>5, <2>2, PutOne DEF Enqueue
  <2> QED
    BY <1>1, <1>5, <2>1, <2>2, <2>3 DEF Enqueue
<1>6. CASE Drop
  <2>1. RunTypeOK'
    BY <1>1, <1>6, RunRests DEF Drop, RunTypeOK
  <2>2. next \in Targets /\ next + 1 \in 1..(N + 1) /\ completed + 1 \in Nat
    BY <1>1, <1>3, <1>6 DEF Drop
  <2> QED
    BY <1>1, <1>6, <2>1, <2>2 DEF Drop
<1>7. CASE PassSlot
  <2>1. RunTypeOK'
    BY <1>1, <1>7, RunRests DEF PassSlot, RunTypeOK
  <2>2. userCtx # "live" => userCtx \in Errors
    BY <1>1 DEF Errors, Retryable
  <2>3. results' \in [Targets -> Errors \cup {"none", "stopped"}]
    BY <1>1, <1>7, <2>2 DEF PassSlot
  <2>4. slot + 1 \in 1..(N + 1)
    BY <1>1, <1>3, <1>7 DEF PassSlot
  <2> QED
    BY <1>1, <1>7, <2>1, <2>3, <2>4 DEF PassSlot
<1>8. ASSUME NEW w \in Workers, Take(w) PROVE RunTypeOK' /\ PoolTypeOK'
  <2>1. /\ Head(jobs) \in Targets /\ Tail(jobs) \in Seq(Targets) /\ Len(Tail(jobs)) <= qsize
    BY <1>8, TakeOne DEF Take
  <2>2. RunTypeOK'
    BY <1>1, <1>8, <2>1, BeginFacts DEF Take
  <2>3. Head(jobs) # 0
    BY <1>3, <2>1
  <2> QED
    BY <1>1, <1>8, <2>1, <2>2, <2>3 DEF Take
<1>9. ASSUME NEW w \in Workers, Measure(w) PROVE RunTypeOK' /\ PoolTypeOK'
  <2>1. holds[w] \in Targets
    BY <1>1, <1>9 DEF Measure
  <2>2. RunTypeOK'
    BY <1>1, <1>9, <2>1, TraceFacts DEF Measure
  <2> QED
    BY <1>1, <1>9, <2>2 DEF Measure, batchVars
<1>10. ASSUME NEW w \in Workers, Store(w) PROVE RunTypeOK' /\ PoolTypeOK'
  <2>1. RunTypeOK'
    BY <1>1, <1>10, RunRests DEF Store, RunTypeOK
  <2>2. holds[w] \in Targets /\ traceErr[holds[w]] \in Errors \cup {"none"} /\ completed + 1 \in Nat
    BY <1>1, <1>10 DEF Store, RunTypeOK
  <2> QED
    BY <1>1, <1>10, <2>1, <2>2 DEF Store
<1>11. ASSUME NEW w \in Workers, StopOrGoOn(w) PROVE RunTypeOK' /\ PoolTypeOK'
  <2>1. RunTypeOK'
    BY <1>1, <1>11, RunRests DEF StopOrGoOn, GoOn, RunTypeOK
  <2> QED
    BY <1>1, <1>11, <2>1 DEF StopOrGoOn, GoOn
<1>12. ASSUME NEW w \in Workers, Exit(w) PROVE RunTypeOK' /\ PoolTypeOK'
  <2>1. RunTypeOK'
    BY <1>1, <1>12, RunRests DEF Exit, RunTypeOK
  <2> QED
    BY <1>1, <1>12, <2>1 DEF Exit
<1>13. CASE UserCtxEnds
  <2>1. RunTypeOK'
    BY <1>1, <1>13, RunRests DEF UserCtxEnds, RunTypeOK
  <2> QED
    BY <1>1, <1>13, <2>1 DEF UserCtxEnds
<1>14. CASE UNCHANGED vars
  <2>1. RunTypeOK'
    BY <1>1, <1>14, RunRests DEF vars, RunTypeOK
  <2> QED
    BY <1>1, <1>14, <2>1 DEF vars, batchVars
<1> QED
  BY <1>4, <1>5, <1>6, <1>7, <1>8, <1>9, <1>10, <1>11, <1>12, <1>13, <1>14
  DEF Next, Submitter, WorkerStep, Returned

(* Every variable keeps its type: the queue its capacity, a call of Trace  *)
(* its number of attempts, and a worker in Trace has a target.             *)
THEOREM BatchTypeCorrect == Spec => []TypeOK
<1> QED
  BY TypeInit, TypeStep, PTL DEF Spec

(***************************************************************************)
(* Giving up                                                               *)
(***************************************************************************)
(* Only a call that has failed sleeps.                                     *)
SleepsOnError == \A t \in Targets : tpc[t] = "sleep" => traceErr[t] # "none"
SurrenderInv == SleepsOnError /\ GivesUpOnlyWhenItMust

(* A step inside one call of Trace keeps SurrenderInv.                     *)
LEMMA SurrenderOf ==
  ASSUME TypeOK, SurrenderInv, NEW t \in Targets, TraceStep(t), parent' = parent
  PROVE  SurrenderInv'
<1>1. RunTypeOK
  BY DEF TypeOK, RunTypeOK
<1>2. Only(t) /\ retry' = retry /\ tpc[t] # "done"
  BY <1>1, TraceFacts
<1>3. attempts' = attempts
  BY <1>2 DEF attempts, Wrap
<1>4. SUFFICES /\ tpc'[t] = "sleep" => traceErr'[t] # "none"
               /\ tpc'[t] = "done" =>
                    IF traceErr'[t] = "none" THEN last'[t] = "ok"
                    ELSE IsRetryable(traceErr'[t]) => parent # "live" \/ attempt'[t] + 1 = attempts
  BY <1>2, <1>3 DEF SurrenderInv, SleepsOnError, GivesUpOnlyWhenItMust, Only, IsRetryable
<1>5. CASE Succeeds(t)
  BY <1>1, <1>5 DEF Succeeds, Return, RunTypeOK
<1>6. CASE Wakes(t)
  BY <1>1, <1>6 DEF Wakes, RunTypeOK
<1>7. CASE SleepCut(t)
  <2>1. traceErr[t] # "none" /\ parent # "live" /\ tpc'[t] = "done" /\ traceErr'[t] # "none"
    BY <1>1, <1>7 DEF SleepCut, ReturnLast, Return, RunTypeOK, SurrenderInv, SleepsOnError
  <2> QED
    BY <2>1
<1>8. CASE OnceFails(t)
  <2>1. PICK err \in Errors : Fails(t, err)
    BY <1>1, <1>8, RunAssumption DEF OnceFails, RunTypeOK, Errors, Retryable
  <2>2. /\ traceErr'[t] # "none"
        /\ tpc'[t] = "sleep" \/
             (tpc'[t] = "done" /\ attempt'[t] = attempt[t] /\
               (IsRetryable(traceErr'[t]) => parent # "live" \/ attempt[t] + 1 = attempts))
    BY <1>1, <2>1, FailsFacts
  <2> QED
    BY <2>2
<1> QED
  BY <1>5, <1>6, <1>7, <1>8 DEF TraceStep

(* The calls of Trace change only in the hands of a worker, and a context  *)
(* that has ended stays so.                                                *)
LEMMA TracesMove ==
  ASSUME TypeOK, [Next]_vars
  PROVE  /\ parent # "live" => parent' # "live"
         /\ UNCHANGED runVars \/ \E w \in Workers : Take(w) \/ Measure(w)
BY DEF Next, Submitter, CallOnSubmit, Enqueue, Drop, StopSubmitting, CloseJobs, WaitForWorkers,
       GoToPass, PassSlot, Finish, WorkerStep, Take, Measure, Store, StopOrGoOn, GoOn, Exit,
       UserCtxEnds, Returned, vars

(* So does every other step, which leaves the calls alone or begins one.   *)
LEMMA SurrenderStep ==
  ASSUME TypeOK, SurrenderInv, [Next]_vars
  PROVE  SurrenderInv'
<1>1. RunTypeOK
  BY DEF TypeOK, RunTypeOK
<1>2. CASE UNCHANGED runVars
  <2>1. UNCHANGED <<retry, tpc, attempt, traceErr, last>> /\ (parent # "live" => parent' # "live")
    BY <1>2, TracesMove DEF runVars
  <2>2. attempts' = attempts
    BY <2>1 DEF attempts, Wrap
  <2> QED
    BY <2>1, <2>2 DEF SurrenderInv, SleepsOnError, GivesUpOnlyWhenItMust, IsRetryable
<1>3. ASSUME NEW w \in Workers, Take(w) PROVE SurrenderInv'
  <2>1. Head(jobs) \in Targets /\ Begin(Head(jobs)) /\ parent' = parent
    BY <1>3, TakeOne DEF Take
  <2>2. Only(Head(jobs)) /\ retry' = retry /\ tpc'[Head(jobs)] = "call"
    BY <1>1, <2>1, BeginFacts
  <2>3. attempts' = attempts
    BY <2>2 DEF attempts, Wrap
  <2> QED
    BY <2>1, <2>2, <2>3 DEF SurrenderInv, SleepsOnError, GivesUpOnlyWhenItMust, Only, IsRetryable
<1>4. ASSUME NEW w \in Workers, Measure(w) PROVE SurrenderInv'
  <2>1. holds[w] \in Targets /\ TraceStep(holds[w]) /\ parent' = parent
    BY <1>4, PoolSize DEF Measure, TypeOK
  <2> QED
    BY <2>1, SurrenderOf
<1> QED
  BY <1>2, <1>3, <1>4, TracesMove

(* Trace reports success only for a last attempt that succeeded, and gives *)
(* up with a retryable error only when its attempts or its context end,    *)
(* for every retry count, those included whose increment overflows.        *)
THEOREM NoEarlySurrender == Spec => []GivesUpOnlyWhenItMust
<1>1. Init => SurrenderInv
  BY DEF Init, RunInit, SurrenderInv, SleepsOnError, GivesUpOnlyWhenItMust
<1>2. TypeOK /\ SurrenderInv /\ [Next]_vars => SurrenderInv'
  BY SurrenderStep
<1>3. SurrenderInv => GivesUpOnlyWhenItMust
  BY DEF SurrenderInv
<1> QED
  BY <1>1, <1>2, <1>3, BatchTypeCorrect, PTL DEF Spec

(***************************************************************************)
(* The inductive invariant of the pool                                     *)
(***************************************************************************)
(* Targets are announced and queued (or dropped) in their order.           *)
Ordered ==
  /\ enqueued \cup dropped = 1..(next - 1) /\ enqueued \cap dropped = {}
  /\ 1..(next - 1) \subseteq submitted /\ submitted \subseteq 1..next
  /\ submitter = "offer" => next \in submitted
  /\ submitter \in {"close", "wait", "pass", "returned"} => next = N + 1 \/ parent # "live"

(* A queued target waits, is in the hands of one worker, or is in its slot. *)
Stored(t) == tpc[t] = "done" /\ results[t] = traceErr[t]
Placed ==
  /\ IsInjective(jobs) /\ Range(jobs) \subseteq enqueued
  /\ \A t \in Range(jobs) : tpc[t] = "idle"
  /\ \A w \in Workers : worker[w] = "trace" => holds[w] \in enqueued /\ tpc[holds[w]] # "idle"
  /\ \A v, w \in Workers : worker[v] = "trace" /\ worker[w] = "trace" /\ holds[v] = holds[w] => v = w
  /\ \A w \in Workers : worker[w] = "stop" => holds[w] \in enqueued /\ Stored(holds[w])
  /\ \A t \in enqueued : t \in Range(jobs) \/ InTrace(t) \/ Stored(t)

(* The slots of the others are as Batch made them until the final pass,    *)
(* which writes the error of the caller's context into some of them.       *)
InPass == submitter \in {"pass", "returned"}
Untaken == \A t \in Targets \ enqueued :
  /\ tpc[t] = "idle"
  /\ results[t] = "stopped" \/ (InPass /\ userCtx # "live" /\ results[t] = userCtx)

(* The progress counter counts the dropped and the stored targets.         *)
Counted == dropped \cup {t \in enqueued : t \notin Range(jobs) /\ ~InTrace(t)}
Tally == completed = Cardinality(Counted)

Ending ==
  /\ jobsClosed <=> submitter \in {"wait", "pass", "returned"}
  /\ \A w \in Workers : worker[w] = "exit" => jobs = <<>> /\ jobsClosed
  /\ InPass => WorkersDone
  /\ ~InPass => slot = 1
  /\ submitter = "returned" => slot > N

(* CancelHasCause, with the error in its final slot.                       *)
FatalStored == StopOnError /\ \E t \in enqueued : Stored(t) /\ results[t] \in Fatal
Caused == parent # "live" /\ userCtx = "live" => FatalStored

(* The pass leaves a target that was neither queued nor dropped at stopped *)
(* only behind a fatal result: the caller's context may have ended since.  *)
Passed == \A t \in Targets \ (enqueued \cup dropped) :
  slot > t /\ results[t] = "stopped" => FatalStored

PoolInv == Ordered /\ Placed /\ Untaken /\ Tally /\ Ending /\ Caused /\ Passed

(* The target the submitter is at has not been queued or dropped.          *)
LEMMA NextIsNew ==
  ASSUME TypeOK, Ordered, submitter = "offer"
  PROVE  /\ next \in Targets /\ next \notin enqueued /\ next \notin dropped
         /\ 1..((next + 1) - 1) = 1..(next - 1) \cup {next} /\ 1..next \subseteq 1..(next + 1)
<1>1. next \in 1..N /\ Targets = 1..N
  BY PoolSize DEF TypeOK
<1>2. next \notin 1..(next - 1)
  BY <1>1
<1>3. 1..((next + 1) - 1) = 1..(next - 1) \cup {next} /\ 1..next \subseteq 1..(next + 1)
  BY <1>1
<1> QED
  BY <1>1, <1>2, <1>3 DEF Ordered

(* Only the submitter announces, queues and drops, and it does so in       *)
(* order.                                                                  *)
LEMMA OrderedStep ==
  ASSUME TypeOK, Ordered, [Next]_vars
  PROVE  Ordered'
<1>1. next \in 1..(N + 1) /\ N \in Nat
  BY PoolSize DEF TypeOK
<1>2. CASE CallOnSubmit
  <2>1. next \in 1..next
    BY <1>1
  <2> QED
    BY <1>2, <2>1 DEF CallOnSubmit, Ordered
<1>3. CASE Enqueue
  <2>1. submitter = "offer"
    BY <1>3 DEF Enqueue
  <2> QED
    BY <1>3, <2>1, NextIsNew DEF Enqueue, Ordered
<1>4. CASE Drop
  <2>1. submitter = "offer"
    BY <1>4 DEF Drop
  <2> QED
    BY <1>4, <2>1, NextIsNew DEF Drop, Ordered
<1>5. CASE StopSubmitting
  <2>1. submitter = "submit" /\ next > N => next = N + 1
    BY <1>1
  <2> QED
    BY <1>5, <2>1 DEF StopSubmitting, Ordered
<1>6. CASE /\ UNCHANGED <<next, submitted, enqueued, dropped>> /\ (parent # "live" => parent' # "live")
           /\ \/ submitter' = submitter
              \/ submitter \in {"close", "wait", "pass"} /\ submitter' \in {"wait", "pass", "returned"}
  BY <1>6 DEF Ordered
<1> QED
  BY <1>2, <1>3, <1>4, <1>5, <1>6
  DEF Next, Submitter, CloseJobs, WaitForWorkers, GoToPass, PassSlot, Finish, WorkerStep, Take,
      Measure, Store, StopOrGoOn, GoOn, Exit, UserCtxEnds, Returned, vars, batchVars

(* What is in its slot stays there.                                        *)
LEMMA StoredStays ==
  ASSUME TypeOK, Ordered, [Next]_vars, NEW t \in enqueued, Stored(t)
  PROVE  Stored(t)' /\ results'[t] = results[t]
<1>1. RunTypeOK /\ t \in Targets
  BY DEF TypeOK, RunTypeOK
<1>2. CASE Drop
  <2>1. next # t
    BY <1>2, NextIsNew DEF Drop
  <2> QED
    BY <1>1, <1>2, <2>1 DEF Drop, Stored, TypeOK, runVars
<1>3. CASE PassSlot
  <2>1. results[t] # "stopped"
    BY <1>1 DEF Stored, RunTypeOK, Errors, Retryable, Fatal
  <2> QED
    BY <1>1, <1>3, <2>1 DEF PassSlot, Stored, TypeOK, runVars
<1>4. ASSUME NEW w \in Workers, Take(w) PROVE Stored(t)' /\ results'[t] = results[t]
  <2>1. Head(jobs) \in Targets /\ Begin(Head(jobs)) /\ parent' = parent /\ results' = results
    BY <1>4, TakeOne DEF Take
  <2>2. Only(Head(jobs)) /\ tpc[Head(jobs)] = "idle"
    BY <1>1, <2>1, BeginFacts
  <2> QED
    BY <1>1, <2>1, <2>2 DEF Only, Stored
<1>5. ASSUME NEW w \in Workers, Measure(w) PROVE Stored(t)' /\ results'[t] = results[t]
  <2>1. holds[w] \in Targets /\ TraceStep(holds[w]) /\ parent' = parent /\ results' = results
    BY <1>5, PoolSize DEF Measure, TypeOK, batchVars
  <2>2. Only(holds[w]) /\ tpc[holds[w]] # "done"
    BY <1>1, <2>1, TraceFacts
  <2> QED
    BY <1>1, <2>1, <2>2 DEF Only, Stored
<1>6. ASSUME NEW w \in Workers, Store(w) PROVE Stored(t)' /\ results'[t] = results[t]
  BY <1>1, <1>6 DEF Store, Stored, TypeOK, runVars
<1>7. CASE UNCHANGED runVars /\ results' = results
  BY <1>7 DEF Stored, runVars
<1> QED
  BY <1>2, <1>3, <1>4, <1>5, <1>6, <1>7
  DEF Next, Submitter, CallOnSubmit, Enqueue, StopSubmitting, CloseJobs, WaitForWorkers, GoToPass, Finish,
      WorkerStep, StopOrGoOn, GoOn, Exit, UserCtxEnds, Returned, vars, batchVars

(* Only Take and Store change which targets the workers are measuring.     *)
LEMMA InTraceTake ==
  ASSUME TypeOK, NEW w \in Workers, Take(w)
  PROVE  \A t : InTrace(t)' <=> InTrace(t) \/ t = Head(jobs)
<1>1. /\ worker' = [worker EXCEPT ![w] = "trace"] /\ holds' = [holds EXCEPT ![w] = Head(jobs)]
      /\ worker[w] = "idle"
  BY DEF Take
<1> QED
  BY <1>1 DEF InTrace, TypeOK

(* Storing a result takes its target, and no other, out of Trace.          *)
LEMMA InTraceStore ==
  ASSUME TypeOK, Placed, NEW w \in Workers, Store(w)
  PROVE  /\ InTrace(holds[w])
         /\ \A t : InTrace(t)' <=> InTrace(t) /\ t # holds[w]
<1>1. worker' = [worker EXCEPT ![w] = "stop"] /\ holds' = holds /\ worker[w] = "trace"
  BY DEF Store
<1>2. \A v \in Workers : worker[v] = "trace" /\ holds[v] = holds[w] => v = w
  BY <1>1 DEF Placed
<1> QED
  BY <1>1, <1>2 DEF InTrace, TypeOK

(* Nothing but Take and Store changes which targets are in Trace.          *)
LEMMA InTraceElse ==
  ASSUME TypeOK, [Next]_vars, \A w \in Workers : ~Take(w) /\ ~Store(w)
  PROVE  \A t : InTrace(t)' <=> InTrace(t)
<1>1. CASE UNCHANGED <<worker, holds>>
  BY <1>1 DEF InTrace
<1>2. ASSUME NEW w \in Workers, StopOrGoOn(w) \/ Exit(w) PROVE \A t : InTrace(t)' <=> InTrace(t)
  <2>1. /\ worker[w] # "trace" /\ worker'[w] # "trace"
        /\ \A v \in Workers \ {w} : worker'[v] = worker[v] /\ holds'[v] = holds[v]
    BY <1>2 DEF StopOrGoOn, GoOn, Exit, TypeOK
  <2> QED
    BY <2>1 DEF InTrace
<1> QED
  BY <1>1, <1>2
  DEF Next, Submitter, CallOnSubmit, Enqueue, Drop, StopSubmitting, CloseJobs, WaitForWorkers,
      GoToPass, PassSlot, Finish, WorkerStep, Measure, UserCtxEnds, Returned, vars, batchVars

(* A target goes from the queue to one worker and from it to its slot.     *)
LEMMA PlacedStep ==
  ASSUME TypeOK, Ordered, Untaken, Placed, [Next]_vars
  PROVE  Placed'
<1>1. RunTypeOK
  BY DEF TypeOK, RunTypeOK
<1>2. \A t \in enqueued : Stored(t) => Stored(t)'
  BY StoredStays
<1>3. CASE UNCHANGED <<tpc, jobs, worker, holds, enqueued>>
  <2>1. \A t : InTrace(t)' <=> InTrace(t)
    BY <1>3 DEF InTrace
  <2> QED
    BY <1>2, <1>3, <2>1 DEF Placed
<1>4. CASE Enqueue
  <2>1. next \in Targets /\ next \notin enqueued
    BY <1>4, NextIsNew DEF Enqueue
  <2>2. Range(jobs') = Range(jobs) \cup {next} /\ IsInjective(jobs')
    BY <1>4, <2>1, PutOne DEF Enqueue, Placed
  <2>3. UNCHANGED <<tpc, worker, holds>> /\ enqueued' = enqueued \cup {next}
    BY <1>4 DEF Enqueue, runVars
  <2>4. \A t : InTrace(t)' <=> InTrace(t)
    BY <2>3 DEF InTrace
  <2>5. tpc[next] = "idle"
    BY <2>1 DEF Untaken
  <2>6. \A w \in Workers : worker'[w] = "stop" => holds'[w] \in enqueued' /\ Stored(holds[w])'
    BY <1>2, <2>3 DEF Placed
  <2>7. \A t \in enqueued' : t \in Range(jobs') \/ InTrace(t)' \/ Stored(t)'
    BY <1>2, <2>2, <2>3, <2>4 DEF Placed
  <2>8. Range(jobs') \subseteq enqueued' /\ \A t \in Range(jobs') : tpc'[t] = "idle"
    BY <2>2, <2>3, <2>5 DEF Placed
  <2> QED
    BY <2>2, <2>3, <2>6, <2>7, <2>8 DEF Placed
<1>5. ASSUME NEW w \in Workers, Take(w) PROVE Placed'
  <2> DEFINE h == Head(jobs)
  <2>1. /\ h \in Targets /\ Range(jobs) = {h} \cup Range(jobs') /\ IsInjective(jobs') /\ h \notin Range(jobs')
    BY <1>5, TakeOne DEF Take, Placed
  <2>2. Only(h) /\ tpc'[h] = "call" /\ tpc[h] = "idle"
    BY <1>1, <1>5, <2>1, BeginFacts DEF Take
  <2>3. /\ worker[w] = "idle" /\ worker'[w] = "trace" /\ holds'[w] = h /\ enqueued' = enqueued
        /\ \A v \in Workers \ {w} : worker'[v] = worker[v] /\ holds'[v] = holds[v]
    BY <1>5 DEF Take, TypeOK
  <2>4. \A v \in Workers : worker[v] = "trace" => holds[v] # h
    BY <2>2 DEF Placed
  <2>5. h \in enqueued /\ enqueued \subseteq Targets
    BY <2>1 DEF Placed, TypeOK
  <2>6. /\ IsInjective(jobs') /\ Range(jobs') \subseteq enqueued
        /\ \A t \in Range(jobs') : tpc'[t] = "idle"
    BY <2>1, <2>2, <2>5 DEF Placed, Only
  <2>7. \A v \in Workers : worker'[v] = "trace" => holds'[v] \in enqueued /\ tpc'[holds'[v]] # "idle"
    BY <2>2, <2>3, <2>4, <2>5 DEF Placed, Only
  <2>8. \A u, v \in Workers : worker'[u] = "trace" /\ worker'[v] = "trace" /\ holds'[u] = holds'[v] => u = v
    BY <2>3, <2>4 DEF Placed
  <2>9. \A v \in Workers : worker'[v] = "stop" => holds'[v] \in enqueued /\ Stored(holds[v])' /\ holds'[v] = holds[v]
    BY <1>2, <2>3 DEF Placed
  <2>10. \A t \in enqueued : t \in Range(jobs') \/ InTrace(t)' \/ Stored(t)'
    BY <1>2, <1>5, <2>1, InTraceTake DEF Placed
  <2> QED
    BY <2>3, <2>6, <2>7, <2>8, <2>9, <2>10 DEF Placed, Stored
<1>6. ASSUME NEW w \in Workers, Measure(w) PROVE Placed'
  <2>1. holds[w] \in Targets /\ TraceStep(holds[w]) /\ UNCHANGED <<parent, jobs, worker, holds, enqueued>>
    BY <1>6, PoolSize DEF Measure, TypeOK, batchVars
  <2>2. Only(holds[w]) /\ tpc[holds[w]] # "idle" /\ tpc'[holds[w]] # "idle"
    BY <1>1, <2>1, TraceFacts
  <2>3. enqueued \subseteq Targets
    BY DEF TypeOK
  <2>4. \A t : InTrace(t)' <=> InTrace(t)
    BY <2>1 DEF InTrace
  <2>5. \A t \in Range(jobs) : tpc'[t] = "idle"
    BY <2>2, <2>3 DEF Placed, Only
  <2>6. \A v \in Workers : worker[v] = "trace" => tpc'[holds[v]] # "idle"
    BY <2>2, <2>3 DEF Placed, Only
  <2> QED
    BY <1>2, <2>1, <2>4, <2>5, <2>6 DEF Placed
<1>7. ASSUME NEW w \in Workers, Store(w) PROVE Placed'
  <2>1. /\ worker[w] = "trace" /\ tpc[holds[w]] = "done" /\ worker' = [worker EXCEPT ![w] = "stop"]
        /\ results' = [results EXCEPT ![holds[w]] = traceErr[holds[w]]]
        /\ UNCHANGED <<tpc, traceErr, jobs, holds, enqueued>>
    BY <1>7 DEF Store, runVars
  <2>2. holds[w] \in enqueued /\ holds[w] \in Targets
    BY <2>1 DEF Placed, TypeOK
  <2>3. \A t \in enqueued : t = holds[w] => Stored(t)'
    BY <2>1, <2>2 DEF Stored, TypeOK
  <2>4. \A v \in Workers : worker'[v] = IF v = w THEN "stop" ELSE worker[v]
    BY <2>1 DEF TypeOK
  <2>5. \A t \in enqueued : t \in Range(jobs) \/ InTrace(t)' \/ Stored(t)'
    BY <1>2, <1>7, <2>3, InTraceStore DEF Placed
  <2>6. \A t \in enqueued, v \in Workers : worker'[v] = "stop" /\ holds[v] = t => Stored(t)'
    BY <1>2, <2>3, <2>4 DEF Placed
  <2>7. \A v \in Workers : worker'[v] = "stop" => holds'[v] \in enqueued /\ Stored(holds[v])'
    BY <2>1, <2>2, <2>4, <2>6 DEF Placed, Stored
  <2> QED
    BY <2>1, <2>4, <2>5, <2>7 DEF Placed
<1>8. ASSUME NEW w \in Workers, StopOrGoOn(w) \/ Exit(w) PROVE Placed'
  <2>1. /\ worker[w] # "trace" /\ worker'[w] \in {"idle", "exit"}
        /\ \A v \in Workers \ {w} : worker'[v] = worker[v] /\ holds'[v] = holds[v]
        /\ UNCHANGED <<tpc, traceErr, results, jobs, enqueued>>
    BY <1>8 DEF StopOrGoOn, GoOn, Exit, TypeOK, runVars
  <2>2. \A t : InTrace(t)' <=> InTrace(t)
    BY <2>1 DEF InTrace
  <2> QED
    BY <1>2, <2>1, <2>2 DEF Placed, Stored
<1> QED
  BY <1>3, <1>4, <1>5, <1>6, <1>7, <1>8
  DEF Next, Submitter, CallOnSubmit, Drop, StopSubmitting, CloseJobs, WaitForWorkers, GoToPass,
      PassSlot, Finish, WorkerStep, UserCtxEnds, Returned, vars, batchVars, runVars

(* A slot is not written before its target was queued.                     *)
LEMMA UntakenStep ==
  ASSUME TypeOK, Ordered, Untaken, Placed, [Next]_vars
  PROVE  Untaken'
<1>1. RunTypeOK /\ enqueued \subseteq Targets
  BY DEF TypeOK, RunTypeOK
<1>2. CASE Drop
  <2>1. next \in Targets \ enqueued /\ submitter = "offer"
    BY <1>2, NextIsNew DEF Drop
  <2> QED
    BY <1>2, <2>1 DEF Drop, Untaken, InPass, TypeOK, runVars
<1>3. CASE PassSlot
  BY <1>3 DEF PassSlot, Untaken, InPass, TypeOK, runVars
<1>4. ASSUME NEW w \in Workers, Take(w) PROVE Untaken'
  <2>1. Head(jobs) \in Range(jobs) /\ Head(jobs) \in Targets
    BY <1>4, TakeOne DEF Take
  <2>2. Head(jobs) \in enqueued
    BY <2>1 DEF Placed
  <2>3. Begin(Head(jobs)) /\ UNCHANGED <<parent, results, enqueued, submitter, userCtx>>
    BY <1>4 DEF Take
  <2>4. Only(Head(jobs))
    BY <1>1, <2>1, <2>3, BeginFacts
  <2> QED
    BY <2>2, <2>3, <2>4 DEF Untaken, InPass, Only
<1>5. ASSUME NEW w \in Workers, Measure(w) PROVE Untaken'
  <2>1. /\ holds[w] \in enqueued /\ TraceStep(holds[w])
        /\ UNCHANGED <<parent, results, enqueued, submitter, userCtx>>
    BY <1>5 DEF Measure, Placed, batchVars
  <2>2. Only(holds[w])
    BY <1>1, <2>1, TraceFacts
  <2> QED
    BY <2>1, <2>2 DEF Untaken, InPass, Only
<1>6. ASSUME NEW w \in Workers, Store(w) PROVE Untaken'
  <2>1. holds[w] \in enqueued
    BY <1>6 DEF Store, Placed
  <2> QED
    BY <1>6, <2>1 DEF Store, Untaken, InPass, TypeOK, runVars
<1>7. CASE Enqueue \/ UserCtxEnds
  BY <1>7 DEF Enqueue, UserCtxEnds, Untaken, InPass, runVars
<1>8. CASE /\ UNCHANGED <<tpc, results, enqueued, userCtx>>
           /\ InPass => InPass'
  BY <1>8 DEF Untaken
<1> QED
  BY <1>2, <1>3, <1>4, <1>5, <1>6, <1>7, <1>8
  DEF Next, Submitter, CallOnSubmit, StopSubmitting, CloseJobs, WaitForWorkers, GoToPass, Finish,
      WorkerStep, StopOrGoOn, GoOn, Exit, Returned, InPass, vars, batchVars, runVars

(* The counter is raised in the steps that drop or store a target.         *)
LEMMA TallyStep ==
  ASSUME TypeOK, Ordered, Untaken, Placed, Tally, [Next]_vars
  PROVE  Tally'
<1>1. Counted \subseteq Targets
  BY DEF Counted, TypeOK
<1>2. IsFiniteSet(Counted)
  <2>1. N \in Int /\ 1 \in Int /\ Targets = 1..N
    BY PoolSize
  <2>2. IsFiniteSet(1..N)
    BY <2>1, FS_Interval
  <2> QED
    BY <1>1, <2>1, <2>2, FS_Subset
<1>3. ASSUME NEW t, t \notin Counted, Counted' = Counted \cup {t}, completed' = completed + 1
      PROVE  Tally'
  <2>1. Cardinality(Counted \cup {t}) = Cardinality(Counted) + 1
    BY <1>2, <1>3, FS_AddElement
  <2> QED
    BY <1>3, <2>1 DEF Tally
<1>4. CASE Counted' = Counted /\ completed' = completed
  BY <1>4 DEF Tally
<1>5. CASE Enqueue
  <2>1. next \notin enqueued /\ next \in Targets /\ submitter = "offer" /\ UNCHANGED <<worker, holds, dropped, completed>>
    BY <1>5, NextIsNew DEF Enqueue
  <2>2. Range(jobs') = Range(jobs) \cup {next} /\ enqueued' = enqueued \cup {next}
    BY <1>5, <2>1, PutOne DEF Enqueue
  <2>3. \A t : InTrace(t)' <=> InTrace(t)
    BY <2>1 DEF InTrace
  <2>4. Counted' = Counted
    BY <2>1, <2>2, <2>3 DEF Counted
  <2> QED
    BY <1>4, <2>1, <2>4
<1>6. CASE Drop
  <2>1. /\ next \notin Counted /\ UNCHANGED <<worker, holds, jobs, enqueued>>
        /\ dropped' = dropped \cup {next} /\ completed' = completed + 1
    BY <1>6, NextIsNew DEF Drop, Counted
  <2>2. \A t : InTrace(t)' <=> InTrace(t)
    BY <2>1 DEF InTrace
  <2>3. Counted' = Counted \cup {next}
    BY <2>1, <2>2 DEF Counted
  <2>4. PICK t : t = next
    OBVIOUS
  <2> QED
    BY <1>3, <2>1, <2>3, <2>4
<1>7. ASSUME NEW w \in Workers, Take(w) PROVE Tally'
  <2>1. Range(jobs) = {Head(jobs)} \cup Range(jobs') /\ UNCHANGED <<enqueued, dropped, completed>>
    BY <1>7, TakeOne DEF Take
  <2>2. Counted' = Counted
    BY <1>7, <2>1, InTraceTake DEF Counted
  <2> QED
    BY <1>4, <2>1, <2>2
<1>8. ASSUME NEW w \in Workers, Store(w) PROVE Tally'
  <2>1. PICK t : t = holds[w]
    OBVIOUS
  <2>2. /\ t \in enqueued /\ tpc[t] = "done" /\ UNCHANGED <<jobs, enqueued, dropped>> /\ completed' = completed + 1
    BY <1>8, <2>1 DEF Store, Placed
  <2>3. t \notin Range(jobs) /\ t \notin dropped
    BY <2>2 DEF Placed, Ordered
  <2>4. InTrace(t) /\ \A u : InTrace(u)' <=> InTrace(u) /\ u # t
    BY <1>8, <2>1, InTraceStore
  <2>5. t \notin Counted /\ Counted' = Counted \cup {t}
    BY <2>2, <2>3, <2>4 DEF Counted
  <2> QED
    BY <1>3, <2>2, <2>5
<1>9. ASSUME UNCHANGED <<jobs, enqueued, dropped, completed>>, \A w \in Workers : ~Take(w) /\ ~Store(w)
      PROVE  Tally'
  <2>1. Counted' = Counted
    BY <1>9, InTraceElse DEF Counted
  <2> QED
    BY <1>4, <1>9, <2>1
<1> QED
  BY <1>5, <1>6, <1>7, <1>8, <1>9
  DEF Next, Submitter, CallOnSubmit, StopSubmitting, CloseJobs, WaitForWorkers, GoToPass, PassSlot,
      Finish, WorkerStep, Measure, StopOrGoOn, GoOn, Exit, UserCtxEnds, Returned, vars, batchVars

(* No worker exits before the closed queue is empty.                       *)
LEMMA EndingStep ==
  ASSUME TypeOK, Ending, [Next]_vars
  PROVE  Ending'
<1>1. CASE Enqueue
  <2>1. ~jobsClosed /\ \A w \in Workers : worker[w] # "exit"
    BY <1>1 DEF Enqueue, Ending
  <2> QED
    BY <1>1, <2>1 DEF Enqueue, Ending, InPass
<1>2. CASE CallOnSubmit \/ Drop \/ StopSubmitting \/ CloseJobs
  BY <1>2 DEF CallOnSubmit, Drop, StopSubmitting, CloseJobs, Ending, InPass
<1>3. CASE WaitForWorkers \/ PassSlot \/ Finish
  BY <1>3 DEF WaitForWorkers, GoToPass, PassSlot, Finish, WorkersDone, Ending, InPass
<1>4. ASSUME NEW w \in Workers, WorkerStep(w) PROVE Ending'
  <2>1. ~InPass /\ UNCHANGED <<submitter, jobsClosed, slot>>
    BY <1>4 DEF WorkerStep, Take, Measure, Store, StopOrGoOn, GoOn, Exit, Ending, WorkersDone, batchVars
  <2>2. CASE Take(w)
    BY <2>1, <2>2 DEF Take, Ending, InPass, TypeOK
  <2>3. CASE Measure(w) \/ Store(w) \/ StopOrGoOn(w) \/ Exit(w)
    BY <2>1, <2>3 DEF Measure, Store, StopOrGoOn, GoOn, Exit, Ending, InPass, TypeOK, batchVars
  <2> QED
    BY <1>4, <2>2, <2>3 DEF WorkerStep
<1>5. CASE UserCtxEnds \/ UNCHANGED vars
  BY <1>5 DEF UserCtxEnds, vars, batchVars, Ending, InPass, WorkersDone
<1> QED
  BY <1>1, <1>2, <1>3, <1>4, <1>5 DEF Next, Submitter, Returned

(* A batch cancels its own context only after it stored a fatal error.     *)
LEMMA CausedStep ==
  ASSUME TypeOK, Ordered, Placed, Caused, [Next]_vars
  PROVE  Caused'
<1>1. SUFFICES ASSUME parent' # "live", userCtx' = "live"
               PROVE  StopOnError /\ \E t \in enqueued' : Stored(t)' /\ results'[t] \in Fatal
  BY DEF Caused, FatalStored
<1>2. userCtx = "live" /\ enqueued \subseteq enqueued'
  BY <1>1 DEF Next, Submitter, CallOnSubmit, Enqueue, Drop, StopSubmitting, CloseJobs,
              WaitForWorkers, GoToPass, PassSlot, Finish, WorkerStep, Take, Measure, Store,
              StopOrGoOn, GoOn, Exit, UserCtxEnds, Returned, vars, batchVars
<1>3. CASE parent # "live"
  <2>1. StopOnError
    BY <1>2, <1>3 DEF Caused, FatalStored
  <2>2. PICK t \in enqueued : Stored(t) /\ results[t] \in Fatal
    BY <1>2, <1>3 DEF Caused, FatalStored
  <2> QED
    BY <1>2, <2>1, <2>2, StoredStays
<1>4. CASE parent = "live"
  <2>1. PICK w \in Workers : StopOrGoOn(w)
    BY <1>1, <1>4 DEF Next, Submitter, CallOnSubmit, Enqueue, Drop, StopSubmitting, CloseJobs,
                      WaitForWorkers, GoToPass, PassSlot, Finish, WorkerStep, Take, Measure, Store,
                      Exit, UserCtxEnds, Returned, vars
  <2>2. PICK t : t = holds[w]
    OBVIOUS
  <2>3. worker[w] = "stop" /\ traceErr[t] # "none" /\ StopOnError /\ ~IsRetryable(traceErr[t])
    BY <1>1, <1>4, <2>1, <2>2 DEF StopOrGoOn, GoOn
  <2>4. t \in enqueued /\ Stored(t) /\ t \in Targets
    BY <2>2, <2>3 DEF Placed, TypeOK
  <2>5. results[t] \in Fatal
    BY <2>3, <2>4 DEF Stored, TypeOK, Errors, IsRetryable
  <2> QED
    BY <1>2, <2>3, <2>4, <2>5, StoredStays
<1> QED
  BY <1>3, <1>4

(* The pass moves on from a slot it leaves at stopped only with the        *)
(* caller's context live: it is the batch that ended the submission.       *)
LEMMA PassedStep ==
  ASSUME TypeOK, Ordered, Ending, Caused, Passed, [Next]_vars
  PROVE  Passed'
<1>1. Targets = 1..N /\ N \in Nat /\ slot \in 1..(N + 1) /\ Ending'
  BY PoolSize, EndingStep DEF TypeOK
<1>2. SUFFICES ASSUME NEW t \in Targets \ (enqueued' \cup dropped'), slot' > t, results'[t] = "stopped"
               PROVE  FatalStored'
  BY DEF Passed
<1>3. InPass'
  BY <1>1, <1>2 DEF Ending
<1>4. CASE PassSlot
  <2>1. /\ slot' = slot + 1 /\ UNCHANGED <<enqueued, dropped, next, parent>> /\ submitter = "pass"
        /\ results' = [results EXCEPT ![slot] = IF @ = "stopped" /\ userCtx # "live" THEN userCtx ELSE @]
    BY <1>4 DEF PassSlot
  <2>2. FatalStored
    <3>1. CASE slot > t
      BY <1>1, <1>2, <2>1, <3>1 DEF Passed, TypeOK
    <3>2. CASE ~(slot > t)
      <4>1. slot = t /\ results[t] = "stopped" /\ userCtx = "live"
        BY <1>1, <1>2, <2>1, <3>2 DEF TypeOK
      <4>2. next # N + 1
        BY <1>1, <1>2, <2>1 DEF Ordered
      <4> QED
        BY <2>1, <4>1, <4>2 DEF Ordered, Caused
    <3> QED
      BY <3>1, <3>2
  <2> QED
    BY <2>1, <2>2, StoredStays DEF FatalStored
<1>5. CASE UNCHANGED <<slot, enqueued, dropped, results>>
  <2>1. FatalStored
    BY <1>2, <1>5 DEF Passed
  <2> QED
    BY <1>5, <2>1, StoredStays DEF FatalStored
<1>6. CASE CallOnSubmit \/ Enqueue \/ Drop \/ \E w \in Workers : WorkerStep(w)
  <2>1. ~InPass
    BY <1>6 DEF Ending, InPass, WorkersDone, CallOnSubmit, Enqueue, Drop, WorkerStep, Take, Measure, Store,
                StopOrGoOn, GoOn, Exit
  <2>2. ~InPass'
    BY <1>6, <2>1 DEF InPass, CallOnSubmit, Enqueue, Drop, WorkerStep, Take, Measure, Store,
                      StopOrGoOn, GoOn, Exit, batchVars
  <2> QED
    BY <1>3, <2>2
<1> QED
  BY <1>4, <1>5, <1>6
  DEF Next, Submitter, StopSubmitting, CloseJobs, WaitForWorkers, GoToPass, Finish, UserCtxEnds, Returned,
      vars, batchVars

(* Base case of PoolIsSound.                                               *)
LEMMA PoolInit ==
  ASSUME Init
  PROVE  PoolInv
<1>1. Range(<<>>) = {} /\ IsInjective(<<>>) /\ 1..(1 - 1) = {}
  BY DEF Range, IsInjective
<1>2. Cardinality({}) = 0
  BY FS_EmptySet
<1>3. \A w \in Workers : worker[w] = "idle"
  BY DEF Init
<1>4. Ordered
  BY <1>1 DEF Init, Ordered
<1>5. Placed
  BY <1>1, <1>3 DEF Init, Placed
<1>6. Untaken
  BY DEF Init, RunInit, Untaken
<1>7. Counted = {}
  BY DEF Init, Counted
<1>8. Tally
  BY <1>2, <1>7 DEF Init, Tally
<1>9. Ending /\ Caused
  BY <1>3 DEF Init, Ending, InPass, Caused
<1>10. Passed
  BY PoolSize DEF Init, Passed
<1> QED
  BY <1>4, <1>5, <1>6, <1>8, <1>9, <1>10 DEF PoolInv

(* Every queued target is in one place, what is stored stays, the counter  *)
(* and the slots agree with it, and a context that the batch ended itself  *)
(* has a fatal error in a slot to show for it.                             *)
THEOREM PoolIsSound == Spec => []PoolInv
<1>1. Init => PoolInv
  BY PoolInit
<1>2. TypeOK /\ PoolInv /\ [Next]_vars => PoolInv'
  BY OrderedStep, PlacedStep, UntakenStep, TallyStep, EndingStep, CausedStep, PassedStep DEF PoolInv
<1> QED
  BY <1>1, <1>2, BatchTypeCorrect, PTL DEF Spec

(***************************************************************************)
(* What Batch promises                                                     *)
(***************************************************************************)
(* The batch context ends with the caller's, or for a fatal error that is  *)
(* already where the caller will find it.                                  *)
THEOREM CancelIsJustified == Spec => []CancelHasCause
<1>1. PoolInv => CancelHasCause
  BY DEF PoolInv, Caused, FatalStored, CancelHasCause, Stored
<1> QED
  BY <1>1, PoolIsSound, PTL

(* All workers have gone: the queue is empty and nobody is in Trace.       *)
LEMMA NothingLeft ==
  ASSUME TypeOK, PoolInv, WorkersDone
  PROVE  jobs = <<>> /\ Range(jobs) = {} /\ \A t : ~InTrace(t)
<1>1. 1 \in Workers
  BY PoolSize DEF Workers
<1>2. jobs = <<>>
  BY <1>1 DEF WorkersDone, PoolInv, Ending
<1> QED
  BY <1>2 DEF Range, WorkersDone, InTrace

(* When Batch returns, the slots, the counter and OnSubmit tell the same   *)
(* story, whatever the order of results, drops and cancellations.          *)
THEOREM NoTargetIsLost == Spec => []EveryTargetAccounted
<1>1. TypeOK /\ PoolInv => EveryTargetAccounted
  <2> SUFFICES ASSUME TypeOK, PoolInv, submitter = "returned" PROVE EveryTargetAccounted
    BY DEF EveryTargetAccounted
  <2>1. WorkersDone
    BY DEF PoolInv, Ending, InPass
  <2>2. Range(jobs) = {} /\ \A t : ~InTrace(t)
    BY <2>1, NothingLeft
  <2>3. \A t \in enqueued : tpc[t] = "done" /\ results[t] = traceErr[t]
    BY <2>2 DEF PoolInv, Placed, Stored
  <2>4. \A t \in Targets \ enqueued : tpc[t] = "idle" /\ results[t] \in {"stopped", userCtx}
    BY DEF PoolInv, Untaken
  <2>5. completed = Cardinality(enqueued \cup dropped)
    <3>1. Counted = enqueued \cup dropped
      BY <2>2 DEF Counted
    <3> QED
      BY <3>1 DEF PoolInv, Tally
  <2>6. enqueued \cap dropped = {} /\ enqueued \cup dropped \subseteq submitted
    BY DEF PoolInv, Ordered
  <2>7. Cardinality(submitted \ (enqueued \cup dropped)) <= 1
    <3>1. next \in Nat
      BY PoolSize DEF TypeOK
    <3>2. 1..next \subseteq 1..(next - 1) \cup {next}
      BY <3>1
    <3>3. submitted \ (enqueued \cup dropped) \in SUBSET {next}
      BY <3>2 DEF PoolInv, Ordered
    <3>4. IsFiniteSet({next}) /\ Cardinality({next}) = 1
      BY FS_Singleton
    <3> QED
      BY <3>3, <3>4, FS_Subset
  <2> QED
    BY <2>3, <2>4, <2>5, <2>6, <2>7 DEF EveryTargetAccounted
<1> QED
  BY <1>1, BatchTypeCorrect, PoolIsSound, PTL

(* ErrBatchStopped is left in a slot only for a dropped target or behind a *)
(* fatal result of the same batch.                                         *)
THEOREM StoppedIsJustified == Spec => []StoppedForAReason
<1>1. TypeOK /\ PoolInv => StoppedForAReason
  <2> SUFFICES ASSUME TypeOK, PoolInv, submitter = "returned",
                      NEW t \in Targets, results[t] = "stopped", t \notin dropped
               PROVE  StopOnError /\ \E u \in enqueued : results[u] \in Fatal
    BY DEF StoppedForAReason
  <2>1. WorkersDone
    BY DEF PoolInv, Ending, InPass
  <2>2. \A u \in enqueued : results[u] = traceErr[u]
    BY <2>1, NothingLeft DEF PoolInv, Placed, Stored
  <2>3. t \notin enqueued
    BY <2>2 DEF TypeOK, Errors, Retryable, Fatal
  <2>4. slot > t
    BY PoolSize DEF PoolInv, Ending, TypeOK
  <2> QED
    BY <2>3, <2>4 DEF PoolInv, Passed, FatalStored
<1> QED
  BY <1>1, BatchTypeCorrect, PoolIsSound, PTL

(***************************************************************************)
(* Refinement of WorkerPool                                                *)
(***************************************************************************)
(* No more targets are measured than there are workers to do it.           *)
LEMMA OneWorkerEach ==
  ASSUME TypeOK, NEW V \in SUBSET Workers, NEW S \in SUBSET Targets,
         \A t \in S : \E v \in V : worker[v] = "trace" /\ holds[v] = t
  PROVE  IsFiniteSet(S) /\ Cardinality(S) <= Cardinality(V)
<1> DEFINE by == [t \in S |-> CHOOSE v \in V : worker[v] = "trace" /\ holds[v] = t]
<1>1. IsFiniteSet(V)
  <2>1. 1 \in Int /\ conc \in Int
    BY PoolSize
  <2>2. IsFiniteSet(Workers)
    BY <2>1, FS_Interval DEF Workers
  <2> QED
    BY <2>2, FS_Subset
<1>2. \A t \in S : by[t] \in V /\ holds[by[t]] = t
  OBVIOUS
<1>3. by \in Injection(S, V)
  BY <1>2 DEF Injection, IsInjective
<1> HIDE DEF by
<1> QED
  BY <1>1, <1>3, FS_Injection

(* The stages and the slots that Pool is given.                            *)
Stage == [t \in Targets |-> StageOf(t)]
Slots == [t \in Targets |-> Shown(t)]

(* With the workers gone a target is measured, or its slot is stopped or   *)
(* was written by the pass.                                                *)
LEMMA StagesAtEnd ==
  ASSUME TypeOK, PoolInv, WorkersDone, NEW t \in Targets
  PROVE  /\ ~InTrace(t)
         /\ StageOf(t) = "done" => results[t] # "stopped"
         /\ StageOf(t) # "done" =>
              \/ results[t] = "stopped"
              \/ InPass /\ userCtx # "live" /\ results[t] = userCtx
<1>1. Range(jobs) = {} /\ \A u : ~InTrace(u)
  BY NothingLeft
<1>2. CASE t \in enqueued
  <2>1. Stored(t) /\ t \notin dropped
    BY <1>1, <1>2 DEF PoolInv, Placed, Ordered
  <2> QED
    BY <1>1, <2>1 DEF Stored, StageOf, TypeOK, Errors, Retryable, Fatal
<1>3. CASE t \notin enqueued
  BY <1>1, <1>3 DEF PoolInv, Untaken, StageOf
<1> QED
  BY <1>2, <1>3

(* The pool sees no step that leaves drops and workers' targets alone.     *)
LEMMA StageSame ==
  ASSUME \A t \in Targets : /\ t \in dropped' <=> t \in dropped
                            /\ InTrace(t)' <=> InTrace(t)
                            /\ InTrace(t) \/ tpc'[t] = tpc[t]
  PROVE  Stage' = Stage
BY DEF Stage, StageOf

(* Every step of Batch is one of WorkerPool or a stutter.                  *)
LEMMA PoolNext ==
  ASSUME TypeOK, PoolInv, [Next]_vars
  PROVE  [Pool!Next]_(Pool!vars)
<1>1. RunTypeOK /\ results \in [Targets -> Errors \cup {"none", "stopped"}] /\ enqueued \subseteq Targets
  BY DEF TypeOK, RunTypeOK
<1>2. Placed /\ Untaken /\ Ordered /\ Ending
  BY DEF PoolInv
<1>3. SUFFICES \/ UNCHANGED <<Stage, Slots, completed, submitter = "returned">>
               \/ Pool!Next
  BY DEF Pool!vars, Stage, Slots
<1>13. /\ submitter # "pass" => Slots = results
       /\ submitter' # "pass" => Slots' = results'
  <2>1. TypeOK'
    BY TypeStep
  <2>2. results' \in [Targets -> Errors \cup {"none", "stopped"}]
    BY <2>1 DEF TypeOK
  <2> QED
    BY <1>1, <2>2 DEF Slots, Shown
<1>4. \A w \in Workers : worker[w] # "exit" => ~InPass
  BY <1>2 DEF Ending, WorkersDone
<1>5. CASE Drop
  <2>1. /\ next \in Targets /\ next \notin enqueued /\ next \notin dropped /\ submitter = "offer"
        /\ UNCHANGED <<worker, holds, tpc>> /\ dropped' = dropped \cup {next} /\ completed' = completed + 1
        /\ submitter' = "submit" /\ results' = [results EXCEPT ![next] = "stopped"]
    BY <1>2, <1>5, NextIsNew DEF Drop, runVars
  <2>2. ~InTrace(next) /\ tpc[next] # "done" /\ results[next] = "stopped"
    BY <1>2, <2>1 DEF InTrace, Placed, Untaken, InPass
  <2>3. \A t : InTrace(t)' <=> InTrace(t)
    BY <2>1 DEF InTrace
  <2>4. Stage[next] = "waiting" /\ Stage' = [Stage EXCEPT ![next] = "refused"]
    BY <2>1, <2>2, <2>3 DEF Stage, StageOf
  <2>5. Slots' = Slots
    BY <1>1, <1>13, <2>1, <2>2
  <2>6. ~(submitter = "returned") /\ UNCHANGED (submitter = "returned")
    BY <2>1
  <2>7. PICK t \in Targets : t = next
    BY <2>1
  <2>8. completed' = completed + 1
    BY <2>1
  <2>9. Stage[t] = "waiting" /\ Stage' = [Stage EXCEPT ![t] = "refused"]
    BY <2>4, <2>7
  <2>10. Pool!Refuse(t)
    BY <2>5, <2>6, <2>8, <2>9 DEF Pool!Refuse, Stage, Slots
  <2> QED
    BY <2>10 DEF Pool!Next
<1>6. CASE Finish
  <2>1. /\ submitter = "pass" /\ submitter' = "returned" /\ InPass
        /\ UNCHANGED <<worker, holds, tpc, dropped, completed, results, userCtx>>
    BY <1>6 DEF Finish, InPass, runVars
  <2>2. WorkersDone
    BY <1>2, <2>1 DEF Ending
  <2>3. Stage' = Stage /\ \A t \in Targets : Stage[t] # "running"
    BY <2>1, <2>2 DEF Stage, StageOf, InTrace, WorkersDone
  <2>4. PICK why \in {"canceled", "deadline"} : userCtx # "live" => why = userCtx
    BY DEF TypeOK
  <2> DEFINE ended == {t \in Targets : Stage[t] # "done" /\ results[t] # "stopped"}
  <2>5. ASSUME NEW t \in Targets
        PROVE  results[t] = IF t \in ended THEN why ELSE Slots[t]
    BY <2>1, <2>2, <2>4, StagesAtEnd DEF Stage, Slots, Shown
  <2>6. Slots' = [t \in Targets |-> IF t \in ended THEN why ELSE Slots[t]]
    BY <1>1, <1>13, <2>1, <2>5
  <2>7. ended \in SUBSET {t \in Targets : Stage[t] # "done"}
    OBVIOUS
  <2> HIDE DEF ended
  <2>8. Pool!Return
    BY <2>1, <2>3, <2>6, <2>7 DEF Pool!Return, Pool!Running, Stage, Slots
  <2> QED
    BY <2>8 DEF Pool!Next
<1>11. CASE WaitForWorkers
  <2>1. /\ submitter = "wait" /\ submitter' = "pass" /\ ~InPass /\ WorkersDone
        /\ UNCHANGED <<worker, holds, tpc, dropped, completed, results>>
    BY <1>11 DEF WaitForWorkers, GoToPass, InPass, runVars
  <2>2. Stage' = Stage
    BY <2>1 DEF Stage, StageOf, InTrace
  <2>3. ASSUME NEW t \in Targets PROVE Shown(t)' = results[t]
    BY <2>1, <2>2, StagesAtEnd DEF Shown, Stage
  <2>4. Slots' = Slots
    BY <1>1, <1>13, <2>1, <2>3 DEF Slots
  <2> QED
    BY <2>1, <2>2, <2>4
<1>12. CASE PassSlot
  <2>1. /\ submitter = "pass" /\ submitter' = "pass" /\ InPass
        /\ UNCHANGED <<worker, holds, tpc, dropped, completed>>
        /\ results' = [results EXCEPT ![slot] = IF @ = "stopped" /\ userCtx # "live" THEN userCtx ELSE @]
    BY <1>12 DEF PassSlot, InPass, runVars
  <2>2. WorkersDone
    BY <1>2, <2>1 DEF Ending
  <2>3. Stage' = Stage
    BY <2>1 DEF Stage, StageOf, InTrace
  <2>4. ASSUME NEW t \in Targets PROVE Shown(t)' = Shown(t)
    <3>1. Stage[t] = "done" => results'[t] = results[t]
      BY <1>1, <2>1, <2>2, StagesAtEnd DEF Stage
    <3> QED
      BY <2>1, <2>3, <3>1 DEF Shown, Stage
  <2>5. Slots' = Slots
    BY <2>4 DEF Slots
  <2> QED
    BY <2>1, <2>3, <2>5
<1>7. ASSUME NEW w \in Workers, Take(w) PROVE Pool!Next
  <2>1. PICK h \in Targets : h = Head(jobs)
    BY <1>7, TakeOne DEF Take
  <2>2. h \in enqueued /\ h \notin dropped /\ tpc[h] = "idle"
    BY <1>2, <1>7, <2>1, TakeOne DEF Take, Placed, Ordered
  <2>3. ~InTrace(h)
    BY <1>2, <2>2 DEF InTrace, Placed
  <2>4. \A t : InTrace(t)' <=> InTrace(t) \/ t = h
    BY <1>7, <2>1, InTraceTake
  <2>5. Only(h) /\ worker[w] = "idle" /\ UNCHANGED <<results, completed, submitter, dropped>>
    BY <1>1, <1>7, <2>1, BeginFacts DEF Take
  <2>6. Stage[h] = "waiting" /\ Stage' = [Stage EXCEPT ![h] = "running"]
    BY <2>2, <2>3, <2>4, <2>5 DEF Stage, StageOf, Only
  <2> DEFINE running == {t \in Targets : Stage[t] = "running"}
  <2>7. Cardinality(running) < conc
    <3>1. \A t \in running : \E v \in Workers \ {w} : worker[v] = "trace" /\ holds[v] = t
      BY <2>5 DEF Stage, StageOf, InTrace
    <3>2. Cardinality(running) <= Cardinality(Workers \ {w})
      BY <3>1, OneWorkerEach
    <3>3. 1 \in Int /\ conc \in Nat \ {0}
      BY PoolSize
    <3>4. IsFiniteSet(Workers) /\ Cardinality(Workers) = conc
      BY <3>3, FS_Interval DEF Workers
    <3>5. Cardinality(Workers \ {w}) = conc - 1
      BY <3>4, FS_RemoveElement
    <3>6. Cardinality(running) \in Nat
      BY <3>1, OneWorkerEach, FS_CardinalityType
    <3> QED
      BY <3>2, <3>3, <3>5, <3>6
  <2>8. ~(submitter = "returned") /\ UNCHANGED (submitter = "returned") /\ UNCHANGED <<Slots, completed>>
    BY <1>4, <1>13, <2>5 DEF InPass
  <2>9. Pool!Running = running
    BY DEF Pool!Running, Stage
  <2>10. Pool!Cardinality(Pool!Running) < conc
    <3>1. Pool!Cardinality(Pool!Running) = Cardinality(Pool!Running)
      BY DEF Pool!Cardinality, Cardinality
    <3> QED
      BY <2>7, <2>9, <3>1
  <2> HIDE DEF running
  <2>11. Pool!Start(h)
    BY <2>6, <2>8, <2>10 DEF Pool!Start, Stage, Slots
  <2> QED
    BY <2>11 DEF Pool!Next
<1>8. ASSUME NEW w \in Workers, Store(w) PROVE Pool!Next
  <2>1. PICK h \in Targets : h = holds[w] /\ h \in enqueued
    BY <1>1, <1>2, <1>8 DEF Store, Placed
  <2>2. /\ tpc[h] = "done" /\ results' = [results EXCEPT ![h] = traceErr[h]] /\ completed' = completed + 1
        /\ UNCHANGED <<tpc, submitter, dropped>>
    BY <1>8, <2>1 DEF Store, runVars
  <2>3. InTrace(h) /\ \A t : InTrace(t)' <=> InTrace(t) /\ t # h
    BY <1>2, <1>8, <2>1, InTraceStore
  <2>4. h \notin dropped
    BY <1>2, <2>1 DEF Ordered
  <2>5. Stage[h] = "running" /\ Stage' = [Stage EXCEPT ![h] = "done"]
    BY <2>2, <2>3, <2>4 DEF Stage, StageOf
  <2>6. traceErr[h] \in Errors \cup {"none"}
    BY <1>1 DEF RunTypeOK
  <2>7. submitter # "pass"
    BY <1>4, <1>8 DEF Store, InPass
  <2>8. Slots' = [Slots EXCEPT ![h] = traceErr[h]]
    BY <1>13, <2>2, <2>7
  <2>9. Pool!End(h)
    BY <2>2, <2>5, <2>6, <2>8 DEF Pool!End, Stage, Slots
  <2> QED
    BY <2>9 DEF Pool!Next
<1>9. ASSUME NEW w \in Workers, Measure(w)
      PROVE  UNCHANGED <<Stage, Slots, completed, submitter = "returned">>
  <2>1. PICK h \in Targets : h = holds[w]
    BY <1>2, <1>9 DEF Measure, Placed, TypeOK
  <2>2. /\ Only(h) /\ worker[w] = "trace"
        /\ UNCHANGED <<worker, holds, dropped, results, completed, submitter>>
    BY <1>1, <1>9, <2>1, TraceFacts DEF Measure, batchVars
  <2>3. InTrace(h) /\ \A t : InTrace(t)' <=> InTrace(t)
    BY <2>1, <2>2 DEF InTrace
  <2>4. submitter # "pass"
    BY <1>4, <2>2 DEF InPass
  <2> QED
    BY <1>13, <2>2, <2>3, <2>4, StageSame DEF Only
<1>10. ASSUME UNCHANGED <<tpc, dropped, results, completed>>, \A w \in Workers : ~Take(w) /\ ~Store(w),
              ~(InPass \/ InPass') \/ UNCHANGED submitter
       PROVE  UNCHANGED <<Stage, Slots, completed, submitter = "returned">>
  <2>1. UNCHANGED <<Stage, submitter = "returned">>
    BY <1>10, InTraceElse, StageSame DEF InPass
  <2>2. CASE submitter # "pass" /\ submitter' # "pass"
    BY <1>10, <1>13, <2>1, <2>2
  <2>3. CASE submitter' = submitter
    <3>1. \A t \in Targets : StageOf(t)' = StageOf(t)
      BY <2>1 DEF Stage
    <3>2. Slots' = Slots
      BY <1>10, <2>3, <3>1 DEF Slots, Shown
    <3> QED
      BY <1>10, <2>1, <3>2
  <2> QED
    BY <1>10, <2>2, <2>3 DEF InPass
<1> QED
  BY <1>5, <1>6, <1>7, <1>8, <1>9, <1>10, <1>11, <1>12
  DEF InPass, Next, Submitter, CallOnSubmit, Enqueue, StopSubmitting, CloseJobs, WorkerStep, StopOrGoOn, GoOn,
      Exit, UserCtxEnds, Returned, vars, batchVars, runVars

(* Batch implements the pool of workers: each target is measured at most   *)
(* once, never more at a time than there are workers, each outcome is      *)
(* stored and counted once, and nothing runs when it returns.              *)
THEOREM BatchIsAPool == Spec => ImplementsPool
<1>1. Init => Pool!Init
  <2> SUFFICES ASSUME Init PROVE Pool!Init
    OBVIOUS
  <2>1. \A t : ~InTrace(t)
    BY DEF Init, InTrace
  <2> QED
    BY <2>1 DEF Init, RunInit, StageOf, Shown, Pool!Init
<1>2. TypeOK /\ PoolInv /\ [Next]_vars => [Pool!Next]_(Pool!vars)
  BY PoolNext
<1> QED
  BY <1>1, <1>2, BatchTypeCorrect, PoolIsSound, PTL DEF Spec, ImplementsPool, Pool!Spec
=============================================================================
