----------------------------- MODULE WorkerPool -----------------------------
(***************************************************************************)
(* What internal/run's Batch promises its caller, without the queue, the   *)
(* goroutines, the retries and the contexts: a pool that measures each     *)
(* target at most once, at most Size of them at a time, keeps one outcome  *)
(* per target, counts each outcome once, and returns when none is running. *)
(***************************************************************************)
EXTENDS Naturals, FiniteSets

CONSTANTS
  Targets,
  Size,      \* workers
  Outcomes,  \* what a measurement may end with
  CtxErrors  \* what the caller's context may end with

VARIABLES
  stage,    \* stage[t]: "waiting", "running", "done", "refused"
  result,   \* result[t]: the outcome in t's slot, "stopped" until there is one
  counted,  \* targets reported as completed
  over      \* the pool has returned

vars == <<stage, result, counted, over>>

Init ==
  /\ stage = [t \in Targets |-> "waiting"]
  /\ result = [t \in Targets |-> "stopped"]
  /\ counted = 0
  /\ over = FALSE

Running == {t \in Targets : stage[t] = "running"}

Start(t) ==
  /\ ~over
  /\ stage[t] = "waiting"
  /\ Cardinality(Running) < Size
  /\ stage' = [stage EXCEPT ![t] = "running"]
  /\ UNCHANGED <<result, counted, over>>

End(t) == \E err \in Outcomes :
  /\ stage[t] = "running"
  /\ stage' = [stage EXCEPT ![t] = "done"]
  /\ result' = [result EXCEPT ![t] = err]
  /\ counted' = counted + 1
  /\ UNCHANGED over

(* The queue is full and the caller asked not to wait.                     *)
Refuse(t) ==
  /\ ~over
  /\ stage[t] = "waiting"
  /\ stage' = [stage EXCEPT ![t] = "refused"]
  /\ counted' = counted + 1
  /\ UNCHANGED <<result, over>>

(* Targets that were not measured end as stopped, and some of them, if the *)
(* caller's context ended meanwhile, with its error.                       *)
Return == \E why \in CtxErrors, ended \in SUBSET {t \in Targets : stage[t] # "done"} :
  /\ ~over
  /\ Running = {}
  /\ over' = TRUE
  /\ result' = [t \in Targets |-> IF t \in ended THEN why ELSE result[t]]
  /\ UNCHANGED <<stage, counted>>

Next == Return \/ \E t \in Targets : Start(t) \/ End(t) \/ Refuse(t)

Spec == Init /\ [][Next]_vars
=============================================================================
