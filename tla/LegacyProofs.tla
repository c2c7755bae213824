---------------------------- MODULE LegacyProofs ----------------------------
(***************************************************************************)
(* Theorems about LegacyClient: its processes and contexts keep the        *)
(* contract of Batch, so that what is proved of Batch holds of it; a kill  *)
(* is never taken for a rejection; the pool bounds the processes.          *)
(***************************************************************************)
EXTENDS LegacyClient, BatchProofs

(***************************************************************************)
(* The inductive invariant                                                 *)
(***************************************************************************)
(* Only a call with a timeout expires; a process is alive inside a call    *)
(* only; a CommandError ends the call it is reported for, and is about a   *)
(* process that no context killed.                                         *)
ProcOf(t) ==
  /\ expired[t] => Timed
  /\ tpc[t] = "idle" => proc[t] = "none"
  /\ proc[t] = "running" => tpc[t] = "call"
  /\ proc[t] = "killed" /\ tpc[t] = "call" => CtxErr(t) # "live"
  /\ traceErr[t] = "command" => tpc[t] = "done" /\ proc[t] \notin {"ok", "killed"}

LegacyInv ==
  /\ proc \in [Targets -> {"none", "running", "ok", "failed", "unstarted", "killed"}]
  /\ expired \in [Targets -> BOOLEAN]
  /\ \A t \in Targets : ProcOf(t)

(***************************************************************************)
(* Refinement of Batch                                                     *)
(***************************************************************************)
(* once returns what Batch expects of it: an error of its own, the end of  *)
(* its own timeout, or that of the parent context.                         *)
LEMMA OnceIsLawful ==
  ASSUME TypeOK, LegacyInv, NEW t \in Targets, LegacyStep(t)
  PROVE  TraceStep(t) \/ UNCHANGED runVars
<1>1. {"invalid", "command", "parse", "failed"} \subseteq OnceErrors
  BY LegacyAssumption
<1>2. CASE BadArgv(t)
  BY <1>1, <1>2 DEF BadArgv, TraceStep, OnceFails
<1>3. CASE StartProcess(t) \/ Kill(t)
  BY <1>3 DEF StartProcess, Kill
<1>4. CASE NextAttempt(t) \/ SleepCut(t)
  BY <1>4 DEF NextAttempt, TraceStep
<1>5. CASE OnceReturns(t)
  <2>1. PICK err \in OnceOutcomes(t) :
          \/ err = "none" /\ Succeeds(t)
          \/ err # "none" /\ Fails(t, err) /\ last' = [last EXCEPT ![t] = IF expired[t] THEN "own" ELSE "other"]
    BY <1>5 DEF OnceReturns, ReturnFrom
  <2>2. CASE err = "none" /\ Succeeds(t)
    BY <2>2 DEF TraceStep
  <2>3. CASE err # "none" /\ Fails(t, err) /\ expired[t]
    <3>1. err = "deadline" /\ Timed
      BY <2>1, <2>3 DEF OnceOutcomes, CtxErr, LegacyInv, ProcOf
    <3> QED
      BY <2>1, <2>3, <3>1 DEF TraceStep, OnceFails
  <2>4. CASE err # "none" /\ Fails(t, err) /\ ~expired[t]
    <3>1. \/ parent # "live" /\ err = parent
          \/ err \in OnceErrors
      BY <1>1, <2>1, <2>4 DEF OnceOutcomes, CtxErr, ParseOutcomes
    <3> QED
      BY <2>1, <2>4, <3>1 DEF TraceStep, OnceFails
  <2> QED
    BY <2>1, <2>2, <2>3, <2>4
<1> QED
  BY <1>2, <1>3, <1>4, <1>5 DEF LegacyStep

(* Every step of the legacy client is one of Batch, or about a process     *)
(* only.                                                                   *)
LEMMA LegacyIsBatch ==
  ASSUME TypeOK, LegacyInv, [LegacyNext]_legacyVars
  PROVE  [Next]_vars
<1>1. ASSUME NEW w \in Workers, worker[w] = "trace", LegacyStep(holds[w]), UNCHANGED <<parent, batchVars>>
      PROVE  [Next]_vars
  <2>1. holds[w] \in Targets
    BY <1>1, PoolSize DEF TypeOK
  <2>2. CASE TraceStep(holds[w])
    BY <1>1, <2>2 DEF Next, WorkerStep, Measure
  <2>3. CASE UNCHANGED runVars
    BY <1>1, <2>3 DEF vars
  <2> QED
    BY <1>1, <2>1, <2>2, <2>3, OnceIsLawful
<1>2. CASE UNCHANGED vars
  BY <1>2
<1>3. ASSUME NEW t \in Targets, TimerRuns(t) \/ ProcessRuns(t) PROVE UNCHANGED vars
  BY <1>3 DEF TimerRuns, ProcessRuns, Running, Expire, ProcessEnds, vars
<1>4. ASSUME NEW w \in Workers, WorkerRuns(w) PROVE [Next]_vars
  BY <1>1, <1>4 DEF WorkerRuns, Running, Next, WorkerStep
<1>5. CASE SubmitterRuns \/ Running(UserCtxEnds /\ UNCHANGED procVars)
  BY <1>5 DEF SubmitterRuns, Running, Next
<1> QED
  BY <1>2, <1>3, <1>4, <1>5 DEF LegacyNext, TraceBatch, Close, AtEnd, legacyVars

(***************************************************************************)
(* The invariant is inductive                                              *)
(***************************************************************************)
LEMMA LegacyStart ==
  ASSUME LegacyInit
  PROVE  LegacyInv
BY DEF LegacyInit, Init, RunInit, LegacyInv, ProcOf

(* What a step within the call for t does to t.                            *)
LEMMA ProcMoves ==
  ASSUME TypeOK, LegacyInv, NEW t \in Targets, LegacyStep(t), parent' = parent
  PROVE  /\ proc' \in [Targets -> {"none", "running", "ok", "failed", "unstarted", "killed"}]
         /\ expired' \in [Targets -> BOOLEAN]
         /\ \A u \in Targets : u # t => proc'[u] = proc[u] /\ expired'[u] = expired[u]
         /\ ProcOf(t)'
<1>1. RunTypeOK /\ t \in Targets
  BY DEF TypeOK, RunTypeOK
<1>2. /\ proc \in [Targets -> {"none", "running", "ok", "failed", "unstarted", "killed"}]
      /\ expired \in [Targets -> BOOLEAN] /\ ProcOf(t)
  BY DEF LegacyInv
<1>3. /\ tpc[t] \in {"idle", "call", "sleep", "done"} /\ traceErr[t] \in Errors \cup {"none"}
      /\ tpc \in [Targets -> {"idle", "call", "sleep", "done"}]
      /\ traceErr \in [Targets -> Errors \cup {"none"}]
  BY <1>1 DEF RunTypeOK
<1>4. ASSUME NEW err, err # "none", Fails(t, err)
      PROVE  /\ tpc[t] = "call" /\ tpc'[t] \in {"sleep", "done"}
             /\ traceErr'[t] = "command" => err = "command" /\ tpc'[t] = "done"
  <2>1. CASE IsRetryable(err) /\ parent = "live" /\ attempt[t] + 1 < attempts
    BY <1>3, <1>4, <2>1 DEF Fails, FailsWithin, IsRetryable, Retryable
  <2>2. CASE ~(IsRetryable(err) /\ parent = "live" /\ attempt[t] + 1 < attempts)
    <3>1. tpc[t] = "call" /\ ReturnLast(t, err)
      BY <1>4, <2>2 DEF Fails, FailsWithin
    <3> QED
      BY <1>3, <3>1 DEF ReturnLast, Return
  <2> QED
    BY <2>1, <2>2
<1>5. CASE BadArgv(t)
  <2>1. /\ proc[t] = "none" /\ UNCHANGED <<proc, expired>> /\ Fails(t, "invalid")
    BY <1>5 DEF BadArgv, procVars
  <2>2. tpc'[t] \in {"sleep", "done"} /\ traceErr'[t] # "command"
    BY <1>4, <2>1
  <2> QED
    BY <1>2, <2>1, <2>2 DEF ProcOf
<1>6. CASE StartProcess(t)
  <2>1. PICK p \in {"running", "unstarted", "killed"} :
          /\ proc' = [proc EXCEPT ![t] = p] /\ (p = "killed" => CtxErr(t) # "live")
          /\ tpc[t] = "call" /\ UNCHANGED <<tpc, traceErr, expired>>
    BY <1>6 DEF StartProcess, runVars
  <2> QED
    BY <1>2, <2>1 DEF ProcOf, CtxErr
<1>7. CASE Kill(t)
  <2>1. /\ proc[t] = "running" /\ proc' = [proc EXCEPT ![t] = "killed"] /\ CtxErr(t) # "live"
        /\ UNCHANGED <<tpc, traceErr, expired>>
    BY <1>7 DEF Kill, runVars
  <2> QED
    BY <1>2, <2>1 DEF ProcOf, CtxErr
<1>8. CASE OnceReturns(t)
  <2>1. PICK err \in OnceOutcomes(t) :
          \/ err = "none" /\ Succeeds(t)
          \/ err # "none" /\ Fails(t, err)
    BY <1>8 DEF OnceReturns, ReturnFrom
  <2>2. tpc[t] = "call" /\ proc[t] # "running" /\ UNCHANGED <<proc, expired>>
    BY <1>8 DEF OnceReturns, ReturnFrom, procVars
  <2>3. CASE Succeeds(t)
    <3>1. tpc'[t] = "done" /\ traceErr'[t] = "none"
      BY <1>3, <2>3 DEF Succeeds, Return
    <3> QED
      BY <1>2, <2>2, <3>1 DEF ProcOf
  <2>4. CASE err # "none" /\ Fails(t, err)
    <3>1. /\ tpc'[t] \in {"sleep", "done"}
          /\ traceErr'[t] = "command" => err = "command" /\ tpc'[t] = "done"
      BY <1>4, <2>4
    <3>2. err = "command" => proc[t] # "ok" /\ CtxErr(t) = "live"
      <4>1. CtxErr(t) # "command"
        BY <1>1 DEF CtxErr, RunTypeOK
      <4> QED
        BY <2>1, <4>1 DEF OnceOutcomes, ParseOutcomes
    <3>3. err = "command" => proc[t] # "killed"
      BY <1>2, <2>2, <3>2 DEF ProcOf
    <3> QED
      BY <1>2, <2>2, <3>1, <3>2, <3>3 DEF ProcOf
  <2> QED
    BY <2>1, <2>3, <2>4
<1>9. CASE NextAttempt(t)
  <2>1. /\ tpc[t] = "sleep" /\ tpc'[t] = "call" /\ traceErr' = traceErr
        /\ proc' = [proc EXCEPT ![t] = "none"] /\ expired' = [expired EXCEPT ![t] = FALSE]
    BY <1>3, <1>9 DEF NextAttempt, Wakes
  <2> QED
    BY <1>2, <2>1 DEF ProcOf
<1>10. CASE SleepCut(t) /\ UNCHANGED procVars
  <2>1. tpc[t] = "sleep" /\ tpc'[t] = "done" /\ traceErr'[t] \in {traceErr[t], "timeout"} /\ UNCHANGED <<proc, expired>>
    BY <1>3, <1>10 DEF SleepCut, ReturnLast, Return, procVars
  <2> QED
    BY <1>2, <2>1 DEF ProcOf
<1> QED
  BY <1>5, <1>6, <1>7, <1>8, <1>9, <1>10 DEF LegacyStep

(* What leaves t's call and its process alone keeps its part.              *)
LEMMA ProcRests ==
  ASSUME LegacyInv, NEW t \in Targets, parent # "live" => parent' # "live",
         UNCHANGED <<proc[t], expired[t], tpc[t], traceErr[t]>>
  PROVE  ProcOf(t)'
BY DEF LegacyInv, ProcOf, CtxErr

(* Every step keeps what is known of processes and contexts.               *)
LEMMA LegacyMoves ==
  ASSUME TypeOK, LegacyInv, [LegacyNext]_legacyVars
  PROVE  LegacyInv'
<1>1. RunTypeOK
  BY DEF TypeOK, RunTypeOK
<1>2. ASSUME UNCHANGED <<runVars, procVars>>, parent # "live" => parent' # "live" PROVE LegacyInv'
  <2>1. \A t \in Targets : ProcOf(t)'
    BY <1>2, ProcRests DEF runVars, procVars
  <2> QED
    BY <1>2, <2>1 DEF LegacyInv, procVars
<1>3. ASSUME NEW w \in Workers, Take(w), UNCHANGED procVars PROVE LegacyInv'
  <2>1. Head(jobs) \in Targets /\ Begin(Head(jobs)) /\ parent' = parent
    BY <1>3, TakeOne DEF Take
  <2>2. Only(Head(jobs)) /\ tpc[Head(jobs)] = "idle" /\ tpc'[Head(jobs)] = "call" /\ traceErr' = traceErr
    BY <1>1, <2>1, BeginFacts DEF Begin
  <2>3. ASSUME NEW t \in Targets PROVE ProcOf(t)'
    <3>1. CASE t = Head(jobs)
      BY <1>3, <2>2, <3>1 DEF LegacyInv, ProcOf, procVars
    <3>2. CASE t # Head(jobs)
      BY <1>3, <2>1, <2>2, <3>2, ProcRests DEF Only, procVars
    <3> QED
      BY <3>1, <3>2
  <2> QED
    BY <1>3, <2>3 DEF LegacyInv, procVars
<1>4. ASSUME NEW w \in Workers, worker[w] = "trace", LegacyStep(holds[w]), UNCHANGED <<parent, batchVars>>
      PROVE  LegacyInv'
  <2>1. PICK t \in Targets : t = holds[w]
    BY <1>4, PoolSize DEF TypeOK
  <2>2. Only(t)
    BY <1>1, <1>4, <2>1, OnceIsLawful, TraceFacts DEF Only, runVars
  <2>3. /\ proc' \in [Targets -> {"none", "running", "ok", "failed", "unstarted", "killed"}]
        /\ expired' \in [Targets -> BOOLEAN]
        /\ \A u \in Targets : u # t => proc'[u] = proc[u] /\ expired'[u] = expired[u]
        /\ ProcOf(t)'
    BY <1>4, <2>1, ProcMoves
  <2>4. \A u \in Targets : u # t => ProcOf(u)'
    BY <1>4, <2>2, <2>3, ProcRests DEF Only
  <2> QED
    BY <2>3, <2>4 DEF LegacyInv
<1>5. ASSUME NEW t \in Targets, TimerRuns(t) PROVE LegacyInv'
  <2>1. /\ Timed /\ tpc[t] = "call" /\ expired' = [expired EXCEPT ![t] = TRUE] /\ CtxErr(t) = "live"
        /\ UNCHANGED <<parent, tpc, traceErr, proc>>
    BY <1>5 DEF TimerRuns, Running, Expire, runVars
  <2>2. ProcOf(t)'
    BY <2>1 DEF LegacyInv, ProcOf, CtxErr
  <2>3. \A u \in Targets : u # t => ProcOf(u)'
    BY <2>1, ProcRests DEF LegacyInv
  <2> QED
    BY <2>1, <2>2, <2>3 DEF LegacyInv
<1>6. ASSUME NEW t \in Targets, ProcessRuns(t) PROVE LegacyInv'
  <2>1. PICK p \in {"ok", "failed"} :
          /\ proc[t] = "running" /\ proc' = [proc EXCEPT ![t] = p]
          /\ UNCHANGED <<parent, tpc, traceErr, expired>>
    BY <1>6 DEF ProcessRuns, Running, ProcessEnds, runVars
  <2>2. ProcOf(t)'
    BY <2>1 DEF LegacyInv, ProcOf
  <2>3. \A u \in Targets : u # t => ProcOf(u)'
    BY <2>1, ProcRests DEF LegacyInv
  <2> QED
    BY <2>1, <2>2, <2>3 DEF LegacyInv
<1>7. ASSUME NEW w \in Workers, Store(w) \/ StopOrGoOn(w) \/ Exit(w), UNCHANGED procVars PROVE LegacyInv'
  BY <1>2, <1>7 DEF Store, StopOrGoOn, GoOn, Exit
<1>8. CASE (Submitter \/ UserCtxEnds) /\ UNCHANGED procVars
  BY <1>2, <1>8 DEF Submitter, CallOnSubmit, Enqueue, Drop, StopSubmitting, CloseJobs, WaitForWorkers, GoToPass,
     PassSlot, Finish,
                    UserCtxEnds
<1>9. CASE UNCHANGED <<vars, procVars>>
  BY <1>2, <1>9 DEF vars
<1>10. ASSUME NEW w \in Workers, WorkerRuns(w) PROVE LegacyInv'
  BY <1>3, <1>4, <1>7, <1>10 DEF WorkerRuns, Running
<1> QED
  BY <1>5, <1>6, <1>8, <1>9, <1>10
  DEF LegacyNext, TraceBatch, Close, SubmitterRuns, Running, AtEnd, legacyVars

(***************************************************************************)
(* The theorems                                                            *)
(***************************************************************************)
(* Processes live inside calls, expire with their timeout, and a killed    *)
(* one is told from one that failed; meanwhile Batch keeps its types.      *)
THEOREM ProcessesAreTracked == LegacySpec => [](TypeOK /\ LegacyInv)
<1>1. LegacyInit => TypeOK /\ LegacyInv
  BY TypeInit, LegacyStart DEF LegacyInit
<1>2. TypeOK /\ LegacyInv /\ [LegacyNext]_legacyVars => (TypeOK /\ LegacyInv)'
  BY LegacyIsBatch, LegacyMoves, TypeStep
<1> QED
  BY <1>1, <1>2, PTL DEF LegacySpec

(* Start, kill, Wait and the order in which once looks at its context and  *)
(* at cmd.Run's error are one implementation of the attempts of Batch.     *)
THEOREM LegacyImplementsBatch == LegacySpec => ImplementsBatch
<1>1. LegacyInit => Init
  BY DEF LegacyInit
<1>2. TypeOK /\ LegacyInv /\ [LegacyNext]_legacyVars => [Next]_vars
  BY LegacyIsBatch
<1> QED
  BY <1>1, <1>2, ProcessesAreTracked, PTL DEF LegacySpec, ImplementsBatch, Spec

(* A scamper that a timeout or a cancelled context killed is never         *)
(* reported as a CommandError, so it neither ends the retries nor stops    *)
(* the batch.                                                              *)
THEOREM KilledIsTold == LegacySpec => []KilledIsNotRejected
<1>1. LegacyInv => KilledIsNotRejected
  BY DEF LegacyInv, ProcOf, KilledIsNotRejected
<1> QED
  BY <1>1, ProcessesAreTracked, PTL

(* There are never more processes than workers, each inside the attempt it *)
(* was started for, and none is left when TraceBatch returns.              *)
THEOREM ProcessesAreBounded == LegacySpec => []ProcessPool
<1>1. TypeOK /\ LegacyInv /\ PoolInv => ProcessPool
  <2> SUFFICES ASSUME TypeOK, LegacyInv, PoolInv PROVE ProcessPool
    OBVIOUS
  <2> DEFINE alive == {t \in Targets : proc[t] = "running"}
  <2>1. ASSUME NEW t \in alive PROVE tpc[t] = "call" /\ InTrace(t)
    <3>1. tpc[t] = "call"
      BY DEF LegacyInv, ProcOf
    <3>2. t \in enqueued
      BY <3>1 DEF PoolInv, Untaken
    <3>3. t \notin Range(jobs) /\ ~Stored(t)
      BY <3>1 DEF PoolInv, Placed, Stored
    <3> QED
      BY <3>1, <3>2, <3>3 DEF PoolInv, Placed
  <2>2. Cardinality(alive) <= conc
    <3>1. \A t \in alive : \E v \in Workers : worker[v] = "trace" /\ holds[v] = t
      BY <2>1 DEF InTrace
    <3>2. Cardinality(alive) <= Cardinality(Workers)
      BY <3>1, OneWorkerEach
    <3>3. 1 \in Int /\ conc \in Nat \ {0}
      BY PoolSize
    <3>4. Cardinality(Workers) = conc
      BY <3>3, FS_Interval DEF Workers
    <3> QED
      BY <3>2, <3>4
  <2>3. ASSUME NEW t \in alive PROVE submitter # "returned"
    BY <2>1 DEF InTrace, PoolInv, Ending, InPass, WorkersDone
  <2> QED
    BY <2>1, <2>2, <2>3 DEF ProcessPool
<1> QED
  BY <1>1, ProcessesAreTracked, LegacyImplementsBatch, PoolIsSound, PTL DEF ImplementsBatch

(* What Batch promises its caller, TraceBatch of the legacy client does.   *)
THEOREM LegacyLosesNoTarget == LegacySpec => []EveryTargetAccounted /\ []StoppedForAReason
BY LegacyImplementsBatch, NoTargetIsLost, StoppedIsJustified, PTL DEF ImplementsBatch

(* So the legacy client too runs its batches as a pool of workers that     *)
(* keeps the contract of WorkerPool.                                       *)
THEOREM LegacyIsAPool == LegacySpec => ImplementsPool
BY LegacyImplementsBatch, BatchIsAPool DEF ImplementsBatch
=============================================================================
