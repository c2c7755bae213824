---------------------------- MODULE Measurement ----------------------------
(***************************************************************************)
(* What the socket client promises the callers of session.trace, without   *)
(* connections, goroutines, queues and ids: every call returns at most     *)
(* once; it returns the outcome of its own task or an error, and an error  *)
(* about the connection says what became of the call's own connection.     *)
(***************************************************************************)
EXTENDS FiniteSets

CONSTANTS Jobs, Nil

VARIABLES
  call,    \* call[j]: "new", "pending", "returned"
  answer,  \* answer[j]: [k, of]: the kind of answer, the task it is about
  fate,    \* fate[j]: what ended the connection j was given, "none" while
           \* it has none or it works
  shut     \* Close has been called

vars == <<call, answer, fate, shut>>

NoAnswer == [k |-> "none", of |-> Nil]

Init ==
  /\ call = [j \in Jobs |-> "new"]
  /\ answer = [j \in Jobs |-> NoAnswer]
  /\ fate = [j \in Jobs |-> "none"]
  /\ shut = FALSE

Begin(j) ==
  /\ call[j] = "new"
  /\ call' = [call EXCEPT ![j] = "pending"]
  /\ UNCHANGED <<answer, fate, shut>>

(* "ctx": the caller's context ended; "gone" and "weak": the connection    *)
(* was found dead.  Close takes away the promise on whose task it is.      *)
Deserved(j, ans) ==
  \/ ans.k \in {"result", "parse", "rejected"} /\ (ans.of = j \/ fate[j] = "closed")
  \/ ans.k = "ctx"
  \/ ans.k = "closed" /\ shut
  \/ ans.k \in {"unavailable", "protocol"} /\ fate[j] = ans.k
  \/ ans.k \in {"gone", "weak"} /\ fate[j] # "none"

Return(j, ans) ==
  /\ call[j] = "pending" \/ (call[j] = "new" /\ ans.k = "closed")
  /\ Deserved(j, ans)
  /\ call' = [call EXCEPT ![j] = "returned"]
  /\ answer' = [answer EXCEPT ![j] = ans]
  /\ UNCHANGED <<fate, shut>>

(* A connection ends for all calls that were given it, once; or a call is  *)
(* given one that has ended already.                                       *)
Break(broken, why) ==
  /\ \A j \in broken : call[j] # "new" /\ fate[j] = "none"
  /\ why = "closed" => shut
  /\ fate' = [j \in Jobs |-> IF j \in broken THEN why ELSE fate[j]]
  /\ UNCHANGED <<call, answer, shut>>

Close == shut' = TRUE /\ UNCHANGED <<call, answer, fate>>

Next ==
  \/ \E j \in Jobs : Begin(j) \/ Return(j, answer'[j])
  \/ \E broken \in SUBSET Jobs, why \in {"closed", "protocol", "unavailable"} :
       Break(broken, why)
  \/ Close

Spec == Init /\ [][Next]_vars
=============================================================================
