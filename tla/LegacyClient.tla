---------------------------- MODULE LegacyClient ----------------------------
(***************************************************************************)
(* src/legacy/client.go: TraceBatch of the client that runs one scamper    *)
(* process per attempt.  Its once stands in for the attempts of Batch.     *)
(***************************************************************************)
EXTENDS Batch

CONSTANT BadTargets   \* targets that ValidateToken refuses

ASSUME LegacyAssumption ==
  /\ BadTargets \subseteq Targets
  /\ {"invalid", "command", "parse", "failed"} \subseteq OnceErrors

VARIABLES
  closed,  \* c.closed
  api,     \* the call of TraceBatch: "new", "running", "refused"
  proc,    \* proc[t]: scamper in t's attempt: "none" (not reached), "running",
           \* "ok", "failed" (by itself), "unstarted", "killed" (by the context)
  expired  \* expired[t]: the attempt's own timeout came before the parent's end

clientVars == <<closed, api>>
procVars == <<proc, expired>>
legacyVars == <<vars, clientVars, procVars>>

LegacyInit ==
  /\ Init
  /\ closed = FALSE /\ api = "new"
  /\ proc = [t \in Targets |-> "none"]
  /\ expired = [t \in Targets |-> FALSE]

(***************************************************************************)
(* once: the argument vector, cmd.Run, the verdict                         *)
(***************************************************************************)
(* Variant: every end of a context is taken for a cancellation.            *)
CtxErrCanceled(t) == IF expired[t] THEN "canceled" ELSE parent

CtxErr(t) == IF expired[t] THEN "deadline" ELSE parent

BadArgv(t) ==
  /\ proc[t] = "none" /\ t \in BadTargets
  /\ Fails(t, "invalid")
  /\ last' = [last EXCEPT ![t] = "other"]
  /\ UNCHANGED procVars

(* Start makes no process for a context that has ended; it may also fail   *)
(* because the binary is gone.                                             *)
StartProcess(t) ==
  /\ tpc[t] = "call"
  /\ proc[t] = "none" /\ t \notin BadTargets
  /\ \E p \in IF CtxErr(t) = "live" THEN {"running", "unstarted"} ELSE {"killed"} :
       proc' = [proc EXCEPT ![t] = p]
  /\ UNCHANGED <<runVars, expired>>

ProcessEnds(t) ==
  /\ proc[t] = "running"
  /\ \E p \in {"ok", "failed"} : proc' = [proc EXCEPT ![t] = p]
  /\ UNCHANGED <<runVars, expired>>

Kill(t) ==
  /\ proc[t] = "running"
  /\ CtxErr(t) # "live"
  /\ proc' = [proc EXCEPT ![t] = "killed"]
  /\ UNCHANGED <<runVars, expired>>

Expire(t) ==
  /\ Timed
  /\ tpc[t] = "call"
  /\ CtxErr(t) = "live"
  /\ expired' = [expired EXCEPT ![t] = TRUE]
  /\ UNCHANGED <<runVars, proc>>

ParseOutcomes == {"none", "parse", "failed"}

(* Variant: the error of Run is looked at before the context.              *)
RunErrorFirst(t) ==
  IF proc[t] # "ok" THEN {"command"}
  ELSE IF CtxErr(t) # "live" THEN {CtxErr(t)} ELSE ParseOutcomes

OnceOutcomes(t) ==
  IF CtxErr(t) # "live" THEN {CtxErr(t)}
  ELSE IF proc[t] # "ok" THEN {"command"} ELSE ParseOutcomes

ReturnFrom(ended, t) == \E err \in OnceOutcomes(t) :
  /\ tpc[t] = "call"
  /\ proc[t] \in ended
  /\ \/ err = "none" /\ Succeeds(t)
     \/ /\ err # "none" /\ Fails(t, err)
        /\ last' = [last EXCEPT ![t] = IF expired[t] THEN "own" ELSE "other"]
  /\ UNCHANGED procVars

(* Variant: once returns when its context ends, without cmd.Wait.          *)
OnceReturnsEarly(t) ==
  \/ ReturnFrom({"ok", "failed", "unstarted", "killed"}, t)
  \/ CtxErr(t) # "live" /\ ReturnFrom({"running"}, t)

OnceReturns(t) == ReturnFrom({"ok", "failed", "unstarted", "killed"}, t)

NextAttempt(t) ==
  /\ Wakes(t)
  /\ proc' = [proc EXCEPT ![t] = "none"]
  /\ expired' = [expired EXCEPT ![t] = FALSE]

LegacyStep(t) ==
  \/ BadArgv(t) \/ StartProcess(t) \/ Kill(t) \/ OnceReturns(t) \/ NextAttempt(t)
  \/ SleepCut(t) /\ UNCHANGED procVars

(***************************************************************************)
(* TraceBatch and Close                                                    *)
(***************************************************************************)
TraceBatch ==
  /\ api = "new"
  /\ api' = IF closed THEN "refused" ELSE "running"
  /\ UNCHANGED <<vars, procVars, closed>>

(* Close sets a flag that only the entry of Trace and TraceBatch reads.    *)
Close ==
  /\ ~closed
  /\ closed' = TRUE
  /\ UNCHANGED <<vars, procVars, api>>

Running(A) == api = "running" /\ A /\ UNCHANGED clientVars
WorkerRuns(w) == Running(
  \/ (Take(w) \/ Store(w) \/ StopOrGoOn(w) \/ Exit(w)) /\ UNCHANGED procVars
  \/ worker[w] = "trace" /\ LegacyStep(holds[w]) /\ UNCHANGED <<parent, batchVars>>)
SubmitterRuns == Running(Submitter /\ UNCHANGED procVars)
TimerRuns(t) == Running(Expire(t) /\ UNCHANGED <<parent, batchVars>>)
ProcessRuns(t) == Running(ProcessEnds(t) /\ UNCHANGED <<parent, batchVars>>)

AtEnd == (api = "refused" \/ submitter = "returned") /\ UNCHANGED legacyVars

LegacyNext ==
  \/ TraceBatch \/ Close
  \/ SubmitterRuns \/ \E w \in Workers : WorkerRuns(w)
  \/ \E t \in Targets : TimerRuns(t) \/ ProcessRuns(t)
  \/ Running(UserCtxEnds /\ UNCHANGED procVars)
  \/ AtEnd

LegacySpec == LegacyInit /\ [][LegacyNext]_legacyVars

(* Goroutines, the kill of a process and timers proceed; scamper itself    *)
(* may hang.                                                               *)
LegacyFairSpec ==
  /\ LegacySpec
  /\ WF_legacyVars(SubmitterRuns)
  /\ \A w \in Workers : WF_legacyVars(WorkerRuns(w))
  /\ \A t \in Targets : WF_legacyVars(TimerRuns(t))

(***************************************************************************)
(* Properties                                                              *)
(***************************************************************************)
(* A CommandError, which stops retries and a StopOnError batch, is about a *)
(* scamper that failed by itself or could not be started, never about one  *)
(* that a timeout or a cancelled context killed.                           *)
KilledIsNotRejected == \A t \in Targets :
  traceErr[t] = "command" => proc[t] \notin {"ok", "killed"}

(* The pool bounds the processes, not only the goroutines: an attempt that *)
(* timed out has no process left when its retry or the next target starts  *)
(* one, and none survives the batch.                                       *)
ProcessPool ==
  /\ Cardinality({t \in Targets : proc[t] = "running"}) <= conc
  /\ \A t \in Targets : proc[t] = "running" => tpc[t] = "call" /\ submitter # "returned"

(* The processes and contexts of once are one way to keep the contract     *)
(* that Batch expects of its OnceFunc.                                     *)
ImplementsBatch == Spec

(* With a timeout the batch returns although scamper may hang, unless the  *)
(* client was closed before the call.                                      *)
HungScamperIsSurvived == api = "running" ~> submitter = "returned"
=============================================================================
