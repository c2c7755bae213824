------------------------------ MODULE Session ------------------------------
(***************************************************************************)
(* src/socket/session.go (session) and reconnect.go: the callers of trace, *)
(* the supervisor that replaces a lost connection, and Close, on top of    *)
(* the connections of module Connection.                                   *)
(*                                                                         *)
(* A job is one call of trace; a retry by internal/run is another job.     *)
(* A select with several ready cases takes any of them.                    *)
(***************************************************************************)
EXTENDS Connection, FiniteSets

CONSTANT MaxInflight   \* size of the semaphore; 0: no semaphore

ASSUME InflightAssumption == MaxInflight \in Nat

VARIABLES
  \* callers
  pc,        \* pc[j]: where trace is
  cur,       \* cur[j]: the connection waitReady returned, 0 before
  outcome,   \* outcome[j]: what trace returns, None before it is decided
  \* session
  conn,      \* s.conn: a connection, or 0
  ready,     \* s.readyCh is closed
  gen,       \* s.gen
  closed,    \* s.closed is set and s.closeCh is closed
  \* goroutines
  super,     \* supervise: "watch", "sleep", "dial", "closing", "stopped"
  superConn, \* supervise's cur
  closer,    \* Close: "idle", "read", "fail", "failing", "done"
  closeConn  \* the connection Close fails, 0 when there is none

callerVars == <<pc, cur, outcome>>
sessionVars == <<conn, ready, gen, closed, super, superConn, closer, closeConn>>
vars == <<socketVars, connVars, callerVars, sessionVars>>

GenOrNone == Gens \cup {0}

(* newSession has dialled the first connection and started supervise.      *)
Init ==
  /\ SocketInit
  /\ ConnInit
  /\ pc = [j \in Jobs |-> "idle"]
  /\ cur = [j \in Jobs |-> 0]
  /\ outcome = [j \in Jobs |-> None]
  /\ conn = 1 /\ ready = TRUE /\ gen = 1 /\ closed = FALSE
  /\ super = "watch" /\ superConn = 1
  /\ closer = "idle" /\ closeConn = 0

(***************************************************************************)
(* trace                                                                   *)
(***************************************************************************)
(* Errors of the caller itself, besides what its job is told: "ctx" is     *)
(* ctx.Err(), "gone" and "weak" the ErrDaemonUnavailable of a connection   *)
(* found dead before the submit and while waiting.                         *)
Outcomes == [k : {"none", "result", "parse", "rejected", "ctx", "gone", "weak"} \cup Causes,
             of : JobOrNil]

Goto(j, next) == pc' = [pc EXCEPT ![j] = next]
Finish(j, res) ==
  /\ Goto(j, "done")
  /\ outcome' = [outcome EXCEPT ![j] = res]
  /\ UNCHANGED <<cur, jobVars, writeCh, lostHalts>>

(* The callers that hold a slot of s.sem.                                  *)
Holders == {j \in Jobs : pc[j] \notin {"idle", "sem", "done"}}
SlotFree == MaxInflight = 0 \/ Cardinality(Holders) < MaxInflight

Start(j) ==
  /\ pc[j] = "idle"
  /\ \/ closed /\ Finish(j, Failure("closed"))
     \/ /\ ~closed
        /\ Goto(j, "sem")
        /\ UNCHANGED <<cur, outcome, jobVars, writeCh, lostHalts>>

Acquire(j) ==
  /\ pc[j] = "sem"
  /\ SlotFree
  /\ Goto(j, "lookup")
  /\ UNCHANGED <<cur, outcome, jobVars, writeCh, lostHalts>>

(* waitReady reads s.conn and s.readyCh under s.mu, then waits for that    *)
(* channel: Publish closes it and moves a parked caller to "woken".        *)
Lookup(j) ==
  /\ pc[j] = "lookup"
  /\ \/ conn # 0 /\ Goto(j, "submit") /\ cur' = [cur EXCEPT ![j] = conn]
     \/ conn = 0 /\ Goto(j, IF ready THEN "woken" ELSE "parked") /\ UNCHANGED cur
  /\ UNCHANGED <<outcome, jobVars, writeCh, lostHalts>>

Wake(j) ==
  /\ pc[j] = "woken"
  /\ Goto(j, "lookup")
  /\ UNCHANGED <<cur, outcome, jobVars, writeCh, lostHalts>>

Submit(j) ==
  /\ pc[j] = "submit"
  /\ \/ /\ Len(writeCh[cur[j]]) < WriteCap
        /\ writeCh' = [writeCh EXCEPT ![cur[j]] = Append(@, Trace(j))]
        /\ Goto(j, "await")
        /\ UNCHANGED <<cur, outcome, jobVars, lostHalts>>
     \/ dead(cur[j]) /\ Finish(j, Failure("gone"))

(* The ctx and closeCh cases of a select.  A context may end at any time,  *)
(* so that its case needs no state; nothing makes it end.                  *)
GivesUp(j, why) ==
  \/ why = "ctx" /\ "cancel" \in Events
  \/ why = "closed" /\ closed

(* ... in the selects before the submit ...                                *)
GiveUpEarly(j, why) ==
  /\ pc[j] \in {"sem", "parked", "woken", "submit"}
  /\ pc[j] = "sem" => MaxInflight > 0
  /\ GivesUp(j, why)
  /\ Finish(j, Failure(why))

ReturnResult(j) ==
  /\ pc[j] = "await"
  /\ Delivered(j)
  /\ Finish(j, ch[j])

(* Variant: the last select does not look at dead.                         *)
GiveUpIgnoringDead(j, why) ==
  /\ pc[j] = "await"
  /\ GivesUp(j, why)
  /\ outcome' = [outcome EXCEPT ![j] = Failure(why)]
  /\ Goto(j, "mark")
  /\ UNCHANGED <<cur, jobVars, writeCh, lostHalts>>

(* ... and in the last one, where a dead connection is a third case, which *)
(* prefers a result that is already there.                                 *)
GiveUp(j, why) ==
  /\ pc[j] = "await"
  /\ \/ GivesUp(j, why)
     \/ why = "weak" /\ dead(cur[j]) /\ ~Delivered(j)
  /\ outcome' = [outcome EXCEPT ![j] = Failure(why)]
  /\ Goto(j, "mark")
  /\ UNCHANGED <<cur, jobVars, writeCh, lostHalts>>

(* halt: mark the job and read its id in one critical section.  The writer *)
(* gives a job the connection it was submitted to, so conn is cur[j].      *)
MarkCanceled(j) ==
  /\ pc[j] = "mark"
  /\ canceled' = [canceled EXCEPT ![j] = TRUE]
  /\ Goto(j, IF ch[j] # None \/ jid[j] = 0 THEN "done" ELSE "halt")
  /\ UNCHANGED <<cur, outcome, ch, jid, writeCh, lostHalts>>

(* Variant: the halt goes to the session's current connection.             *)
SendHaltToCurrent(j) ==
  /\ pc[j] = "halt"
  /\ EnqueueHalt(IF conn = 0 THEN cur[j] ELSE conn, jid[j], j)
  /\ Goto(j, "done")
  /\ UNCHANGED <<cur, outcome, jobVars>>

SendHalt(j) ==
  /\ pc[j] = "halt"
  /\ EnqueueHalt(cur[j], jid[j], j)
  /\ Goto(j, "done")
  /\ UNCHANGED <<cur, outcome, jobVars>>

(* The steps a caller takes for as long as it can; to give up on a context *)
(* is left to the environment.                                             *)
CallerStep(j) ==
  \/ Acquire(j) \/ Lookup(j) \/ Wake(j) \/ Submit(j) \/ ReturnResult(j)
  \/ \E why \in {"weak", "closed"} : GiveUpEarly(j, why) \/ GiveUp(j, why)
  \/ MarkCanceled(j) \/ SendHalt(j)

Caller(j) ==
  /\ Start(j) \/ CallerStep(j) \/ GiveUpEarly(j, "ctx") \/ GiveUp(j, "ctx")
  /\ UNCHANGED <<state, cause, replyQ, ids, victims, writer, reader, socketVars,
                 sessionVars>>

(***************************************************************************)
(* supervise                                                               *)
(***************************************************************************)
(* The connection died: clearConn withdraws it and makes a new readyCh.    *)
ConnLost ==
  /\ super = "watch"
  /\ dead(superConn)
  /\ IF conn = superConn
     THEN conn' = 0 /\ ready' = FALSE
     ELSE UNCHANGED <<conn, ready>>
  /\ super' = "sleep"
  /\ UNCHANGED <<socketVars, connVars, callerVars, gen, closed, superConn,
                 closer, closeConn>>

(* Variant: the supervisor returns on closeCh without failing its          *)
(* connection.                                                             *)
SuperLeaves ==
  /\ super = "watch"
  /\ closed
  /\ super' = "stopped"
  /\ UNCHANGED <<socketVars, connVars, callerVars, conn, ready, gen, closed,
                 superConn, closer, closeConn>>

SuperClosed ==
  /\ super = "watch"
  /\ closed
  /\ super' = "closing"
  /\ Fail(superConn, "closed")
  /\ UNCHANGED <<writeCh, writer, reader, jobVars, lostHalts, callerVars,
                 conn, ready, gen, closed, superConn, closer, closeConn>>

SuperEnd ==
  /\ super = "closing"
  /\ dead(superConn)
  /\ super' = "stopped"
  /\ UNCHANGED <<socketVars, connVars, callerVars, conn, ready, gen, closed,
                 superConn, closer, closeConn>>

SleepTimer ==
  /\ super = "sleep"
  /\ super' = "dial"
  /\ UNCHANGED <<socketVars, connVars, callerVars, conn, ready, gen, closed,
                 superConn, closer, closeConn>>

SleepClosed ==
  /\ super = "sleep"
  /\ closed
  /\ super' = "stopped"
  /\ UNCHANGED <<socketVars, connVars, callerVars, conn, ready, gen, closed,
                 superConn, closer, closeConn>>

(* The connect fails, or the attach handshake of a new generation does.    *)
DialFails ==
  /\ super = "dial"
  /\ gen' \in {gen} \cup (Gens \cap {gen + 1})
  /\ super' = "sleep"
  /\ UNCHANGED <<socketVars, connVars, callerVars, conn, ready, closed,
                 superConn, closer, closeConn>>

(* Variant: setConn does not close readyCh.                                *)
PublishSilently(g) ==
  /\ conn' = g
  /\ ready' = FALSE
  /\ UNCHANGED pc

(* setConn publishes the connection and closes readyCh, which releases     *)
(* every caller parked on it; its goroutines start.  closeCh is not looked *)
(* at between the dial and the next select.                                *)
Publish(g) ==
  /\ conn' = g
  /\ ready' = TRUE
  /\ pc' = [j \in Jobs |-> IF pc[j] = "parked" THEN "woken" ELSE pc[j]]

DialSucceeds ==
  /\ super = "dial"
  /\ gen < MaxGen
  /\ gen' = gen + 1
  /\ Connect(gen + 1)
  /\ state' = [state EXCEPT ![gen + 1] = "open"]
  /\ superConn' = gen + 1
  /\ Publish(gen + 1)
  /\ super' = "watch"
  /\ UNCHANGED <<cause, writeCh, replyQ, ids, victims, writer, reader, jobVars,
                 lostHalts, cur, outcome, closed, closer, closeConn>>

Supervise ==
  \/ ConnLost \/ SuperClosed \/ SuperEnd \/ SleepTimer \/ SleepClosed
  \/ DialFails \/ DialSucceeds

(***************************************************************************)
(* Close                                                                   *)
(***************************************************************************)
CloseStart ==
  /\ "close" \in Events
  /\ closer = "idle"
  /\ closer' = "read"
  /\ closed' = TRUE
  /\ UNCHANGED <<socketVars, connVars, callerVars, conn, ready, gen, super,
                 superConn, closeConn>>

CloseRead ==
  /\ closer = "read"
  /\ closeConn' = conn
  /\ closer' = IF conn = 0 THEN "done" ELSE "fail"
  /\ UNCHANGED <<socketVars, connVars, callerVars, conn, ready, gen, closed,
                 super, superConn>>

CloseFail ==
  /\ closer = "fail"
  /\ closer' = "failing"
  /\ Fail(closeConn, "closed")
  /\ UNCHANGED <<writeCh, writer, reader, jobVars, lostHalts, callerVars,
                 conn, ready, gen, closed, super, superConn, closeConn>>

CloseEnd ==
  /\ closer = "failing"
  /\ dead(closeConn)
  /\ closer' = "done"
  /\ UNCHANGED <<socketVars, connVars, callerVars, conn, ready, gen, closed,
                 super, superConn, closeConn>>

Closing == CloseRead \/ CloseFail \/ CloseEnd

(***************************************************************************)
(* The specification                                                       *)
(***************************************************************************)
(* After Close every call in progress has returned, and the supervisor and *)
(* all connections with their goroutines have stopped.                     *)
ShutDown ==
  /\ \A j \in Jobs : pc[j] \in {"idle", "done"}
  /\ closer = "done" /\ super = "stopped"
  /\ \A g \in Gens : state[g] # "none" =>
       dead(g) /\ writer[g].pc = "stopped" /\ reader[g].pc = "stopped"

(* Nobody uses the open client, and its goroutines wait for work.          *)
Unused ==
  /\ \A j \in Jobs : pc[j] = "done"
  /\ super = "watch" /\ state[superConn] = "open"
  /\ writer[superConn].pc = "idle" /\ writeCh[superConn] = <<>>
  /\ reader[superConn].pc = "idle" /\ toClient[superConn] = <<>>

Connection(g) == ConnStep(g) /\ UNCHANGED <<callerVars, sessionVars>>
Daemon(g) == DaemonStep(g) /\ UNCHANGED <<connVars, callerVars, sessionVars>>
(* The only states in which nothing may be left to do.                     *)
AtRest == (ShutDown \/ Unused) /\ UNCHANGED vars

Next ==
  \/ \E j \in Jobs : Caller(j)
  \/ \E g \in Gens : Connection(g) \/ Daemon(g)
  \/ Supervise
  \/ CloseStart \/ Closing
  \/ AtRest

Spec == Init /\ [][Next]_vars

(***************************************************************************)
(* Fairness.  Every goroutine of the client that can take a step           *)
(* eventually does.  The select of sleep meets a closed closeCh at every   *)
(* round, and select chooses among ready cases at random, so it cannot     *)
(* prefer the timer for ever.  Nothing is asked of the daemon, of the      *)
(* contexts or of the application, which may never call Close.             *)
(***************************************************************************)
CallerRuns(j) ==
  /\ CallerStep(j)
  /\ UNCHANGED <<state, cause, replyQ, ids, victims, writer, reader, socketVars,
                 sessionVars>>
WriterRuns(g) == WriterStep(g) /\ UNCHANGED <<callerVars, sessionVars>>
ReaderRuns(g) == ReaderStep(g) /\ UNCHANGED <<callerVars, sessionVars>>
FailRuns(g) == FailStep(g) /\ UNCHANGED <<callerVars, sessionVars>>

ClientFairness ==
  /\ \A j \in Jobs : WF_vars(CallerRuns(j))
  /\ \A g \in Gens : WF_vars(WriterRuns(g)) /\ WF_vars(ReaderRuns(g)) /\ WF_vars(FailRuns(g))
  /\ WF_vars(Supervise)
  /\ SF_vars(SleepClosed)
  /\ WF_vars(Closing)

FairSpec == Spec /\ ClientFairness
(* For one run only: a daemon that goes on answering and finishes every    *)
(* task it accepted.                                                       *)
DaemonFairness == \A g \in Gens :
  /\ SF_vars(DaemonAnswer(g) /\ UNCHANGED <<connVars, callerVars, sessionVars>>)
  /\ \A i \in Ids : SF_vars(SendData(g, i, "final")
                            /\ UNCHANGED <<connVars, callerVars, sessionVars>>)

ServedSpec == FairSpec /\ DaemonFairness

(***************************************************************************)
(* Safety                                                                  *)
(***************************************************************************)
(* Every variable keeps its type; a running task is one that was accepted. *)
TypeOK ==
  /\ SocketTypeOK
  /\ ConnTypeOK
  /\ pc \in [Jobs -> {"idle", "sem", "lookup", "parked", "woken", "submit", "await",
                      "mark", "halt", "done"}]
  /\ cur \in [Jobs -> GenOrNone]
  /\ outcome \in [Jobs -> Outcomes]
  /\ conn \in GenOrNone /\ ready \in BOOLEAN /\ gen \in Gens /\ closed \in BOOLEAN
  /\ super \in {"watch", "sleep", "dial", "closing", "stopped"}
  /\ superConn \in Gens
  /\ closer \in {"idle", "read", "fail", "failing", "done"}
  /\ closeConn \in GenOrNone
  /\ closer \in {"fail", "failing"} => closeConn # 0

(* While a connection is open the reply queue lists exactly the commands   *)
(* whose reply the reader has not handled, in the order of their replies:  *)
(* those answered in the stream, those the daemon has yet to read, the one *)
(* being written.  Once the daemon is gone the unread ones drop out.       *)
(* (A frame numbers the replies: n of them were sent with it and before.)  *)
Counts(f) == IF f.t \in ReplyKinds THEN 1 ELSE 0
Handled(g) == IF toClient[g] = <<>> THEN replies[g] ELSE frame(g).n - Counts(frame(g))

Aligned(g) ==
  LET answered == replies[g] - Handled(g) IN
  /\ \A k \in DOMAIN toClient[g] : LET f == toClient[g][k]
                                       place == f.n - Handled(g) IN
       f.t \in ReplyKinds => place \in DOMAIN replyQ[g] /\ replyQ[g][place] = f.of
  /\ peer[g] = "up" =>
       /\ \A k \in DOMAIN toDaemon[g] : replyQ[g][answered + k] = toDaemon[g][k].of
       /\ Len(replyQ[g]) = answered + Len(toDaemon[g]) + (IF writer[g].pc = "write" THEN 1 ELSE 0)
       /\ writer[g].pc = "write" => replyQ[g][Len(replyQ[g])] = writer[g].req.of

ReplyAlignment == \A g \in Gens : state[g] = "open" => Aligned(g)

(* Whatever the order of replies, DATA, halts and reconnects, a caller is  *)
(* given the result, the parse error or the rejection of its own trace,    *)
(* unless Close took the connection down (see NeverMisdelivered).          *)
ExactDelivery == \A j \in Jobs :
  outcome[j].k \in {"result", "parse", "rejected"} =>
    outcome[j].of = j \/ cause[cur[j]] = "closed"

(* fail tells a job the cause before its caller can see the connection     *)
(* dead: no caller has settled for the weak error while fail still holds   *)
(* the specific one for it.                                                *)
SpecificError == \A g \in Gens : \A j \in victims[g] : outcome[j].k # "weak"

(* No caller waits for a readyCh while a connection is published, and the  *)
(* supervisor never gets to close a readyCh that is already closed.        *)
NoLostWakeup ==
  /\ \A j \in Jobs : pc[j] = "parked" => conn = 0 /\ ~ready
  /\ super \in {"sleep", "dial"} => conn = 0 /\ ~ready

(* A task whose caller gave up is not left running for want of a halt: on  *)
(* an open connection the halt is still to come, under way, or was dropped *)
(* by a full write queue.                                                  *)
HaltQueued(g, i) ==
  \/ \E k \in DOMAIN writeCh[g] : writeCh[g][k] = Halt(i)
  \/ writer[g].pc = "write" /\ writer[g].req = Halt(i)
  \/ \E k \in DOMAIN toDaemon[g] : toDaemon[g][k] = Halt(i)

HaltToCome(g, i) ==
  \/ \E k \in DOMAIN toClient[g] : toClient[g][k].t = "okid" /\ toClient[g][k].id = i
  \/ reader[g].pc \in {"bound", "idset"} /\ reader[g].id = i
  \/ pc[tasks[g][i]] = "halt"

CancelNotForgotten == \A g \in Gens : \A i \in live[g] :
  state[g] = "open" /\ canceled[tasks[g][i]] =>
    HaltQueued(g, i) \/ HaltToCome(g, i) \/ tasks[g][i] \in lostHalts

(* Ids start again at 1 on every connection: a halt that is queued on a    *)
(* connection names a task of that connection whose caller has given up,   *)
(* never another caller's task (Close again excepted).                     *)
HaltsOwnTask == \A g \in Gens : \A i \in Ids :
  HaltQueued(g, i) /\ cause[g] # "closed" =>
    i <= Len(tasks[g]) /\ canceled[tasks[g][i]]

(* Nothing stays in the id table: on an open connection whose daemon is up *)
(* an entry is the job of that very task, and one of its result still to   *)
(* come, on its way or in the reader's hands, or a halt, of which no DATA  *)
(* need follow.  A running task whose reply has been handled has one.      *)
ResultOnItsWay(g, i) ==
  \/ \E k \in DOMAIN toClient[g] : toClient[g][k].t \in {"final", "garbage"} /\ toClient[g][k].id = i
  \/ reader[g].pc = "found" /\ reader[g].id = i

IdTable == \A g \in Gens : \A i \in Ids : state[g] = "open" /\ peer[g] = "up" =>
  /\ ids[g][i] # Nil =>
       /\ i <= Len(tasks[g]) /\ ids[g][i] = tasks[g][i]
       /\ i \in live[g] \/ ResultOnItsWay(g, i) \/ canceled[tasks[g][i]]
  /\ i \in live[g] =>
       \/ ids[g][i] = tasks[g][i]
       \/ \E k \in DOMAIN toClient[g] : toClient[g][k].t = "okid" /\ toClient[g][k].id = i

(***************************************************************************)
(* Refinement: callers see no more of all this than module Measurement.    *)
(* An answer is given when the outcome is decided; marking the job and     *)
(* queueing its halt are of no concern to the caller.                      *)
(***************************************************************************)
Promise == INSTANCE Measurement WITH
  call <- [j \in Jobs |-> IF outcome[j] # None THEN "returned"
                          ELSE IF pc[j] = "idle" THEN "new" ELSE "pending"],
  answer <- outcome,
  fate <- [j \in Jobs |-> IF cur[j] = 0 THEN "none" ELSE cause[cur[j]]],
  shut <- closed

(* Every call is answered once, with what became of its own task or of its *)
(* own connection: the session implements Measurement.                     *)
KeepsPromise == Promise!Spec

(***************************************************************************)
(* Liveness                                                                *)
(***************************************************************************)
(* Close brings the client to rest for good, even when a dial was under    *)
(* way: every call in progress returns and no goroutine is left.           *)
CloseStopsEverything == closed ~> []ShutDown

(* A caller on a connection that fails is released without its context     *)
(* having to end.                                                          *)
LossReleasesCallers == \A j \in Jobs :
  (pc[j] \in {"submit", "await"} /\ state[cur[j]] # "open") ~> (pc[j] = "done")

(* With a daemon that keeps answering, every call that got past the check  *)
(* of closed returns, and every command in the write queue goes out, so    *)
(* that a later call would be served too: no reply or result goes astray,  *)
(* and callers, the two goroutines, the bounded queues and the daemon      *)
(* never wait for each other in a circle.                                  *)
EveryCallReturns ==
  /\ \A j \in Jobs : (pc[j] = "sem") ~> (pc[j] = "done")
  /\ \A g \in Gens : (writeCh[g] # <<>>) ~> (writeCh[g] = <<>>)

(***************************************************************************)
(* What docs and comments say and the code does not do                     *)
(***************************************************************************)
(* docs/socket-design.md: OK corresponds one to one to the FIFO and DATA   *)
(* is delivered to its task precisely; no exception for Close.             *)
NeverMisdelivered == \A j \in Jobs :
  outcome[j].k \in {"result", "parse", "rejected"} => outcome[j].of = j

(* docs/concurrency-design.md: the semaphore keeps the tasks in flight at  *)
(* the daemon within MaxInflight.                                          *)
DaemonWindow == MaxInflight > 0 => \A g \in Gens : Cardinality(live[g]) <= MaxInflight

(* session.go, fail: results of calls in flight are delivered before dead  *)
(* is closed, so that no waiter gets the weaker error instead.             *)
NoResultAfterWeakError == \A j \in Jobs : outcome[j].k = "weak" => ch[j] = None
=============================================================================
