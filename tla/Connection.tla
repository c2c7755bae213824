---------------------------- MODULE Connection ----------------------------
(***************************************************************************)
(* One control connection of src/socket/session.go: the jobs handed to it, *)
(* the single writer, the single reader, the FIFO of pending replies, the  *)
(* id -> job map, and fail, which ends the connection exactly once.        *)
(*                                                                         *)
(* Every critical section of c.mu or j.mu is one step, and so is every     *)
(* send on a channel.  fail closes the net.Conn and takes the two tables   *)
(* in one step, delivers to the victims one at a time, then closes dead;   *)
(* its caller waits for it (sync.Once).                                    *)
(***************************************************************************)
EXTENDS ControlSocket

CONSTANT WriteCap   \* capacity of writeCh (256 in the code)

ASSUME WriteCapAssumption == WriteCap \in Nat \ {0}

VARIABLES
  \* connection
  state,    \* state[g]: "none" (not dialled), "open", "failing", "dead"
  cause,    \* cause[g]: what fail was called with
  writeCh,  \* writeCh[g]: requests waiting for the writer
  replyQ,   \* replyQ[g]: job (Nil for a halt) of each reply still to come
  ids,      \* ids[g][i]: the job bound to id i, Nil when there is none
  victims,  \* victims[g]: jobs fail has taken from the tables and not dealt with
  \* its two goroutines
  writer,   \* writer[g]: [pc, req]
  reader,   \* reader[g]: [pc, job, id, res]; pc "send" is inside complete
  \* jobs
  ch,       \* ch[j]: the one result of the job, None while done is false
  jid,      \* jid[j]: id set by setID, 0 when hasID is false
  canceled, \* canceled[j]
  lostHalts \* history: jobs whose halt was dropped on a full write queue

jobVars == <<ch, jid, canceled>>
connVars == <<state, cause, writeCh, replyQ, ids, victims, writer, reader,
              ch, jid, canceled, lostHalts>>

Causes == {"closed", "protocol", "unavailable"}
(* A result: a parsed trace, a parse error, a CommandError, or the error   *)
(* fail derives from its cause; "of" is the job it is really about.        *)
Results == [k : {"none", "result", "parse", "rejected"} \cup Causes, of : JobOrNil]
None == [k |-> "none", of |-> Nil]
Failure(why) == [k |-> why, of |-> Nil]

Idle == [pc |-> "idle", job |-> Nil, id |-> 0, res |-> None]
WriterIdle == [pc |-> "idle", req |-> Halt(0)]
WriterStopped == [pc |-> "stopped", req |-> Halt(0)]
ReaderStopped == [pc |-> "stopped", job |-> Nil, id |-> 0, res |-> None]
NoIds == [i \in Ids |-> Nil]

ConnInit ==
  /\ state = [g \in Gens |-> IF g = 1 THEN "open" ELSE "none"]
  /\ cause = [g \in Gens |-> "none"]
  /\ writeCh = [g \in Gens |-> <<>>]
  /\ replyQ = [g \in Gens |-> <<>>]
  /\ ids = [g \in Gens |-> NoIds]
  /\ victims = [g \in Gens |-> {}]
  /\ writer = [g \in Gens |-> WriterIdle]
  /\ reader = [g \in Gens |-> Idle]
  /\ ch = [j \in Jobs |-> None]
  /\ jid = [j \in Jobs |-> 0]
  /\ canceled = [j \in Jobs |-> FALSE]
  /\ lostHalts = {}

dead(g) == state[g] = "dead"

(***************************************************************************)
(* job                                                                     *)
(***************************************************************************)
(* complete sets done under j.mu, for the first result only, and sends it  *)
(* on the channel after the unlock: until then another call of complete    *)
(* finds the job done, and its caller finds the channel empty.             *)
Complete(j, res) == ch' = [ch EXCEPT ![j] = IF ch[j] = None THEN res ELSE @]

(* The victim fail has set done for and not sent its result to.            *)
Telling(g) == {j \in victims[g] : ch[j] = Failure(cause[g])}
Sending(j) == \E g \in Gens : \/ j \in Telling(g)
                              \/ reader[g].pc = "send" /\ reader[g].job = j
(* The result is in the channel, or was received from it.                  *)
Delivered(j) == ch[j] # None /\ ~Sending(j)

(***************************************************************************)
(* enqueueHalt: hands the halt to the writer if the queue has room; on a   *)
(* dead connection select may also give up; a full queue drops it.         *)
(***************************************************************************)
EnqueueHalt(g, i, j) ==
  \/ /\ Len(writeCh[g]) < WriteCap
     /\ writeCh' = [writeCh EXCEPT ![g] = Append(@, Halt(i))]
     /\ UNCHANGED lostHalts
  \/ /\ Len(writeCh[g]) >= WriteCap \/ dead(g)
     /\ lostHalts' = lostHalts \cup {j}
     /\ UNCHANGED writeCh

(***************************************************************************)
(* fail                                                                    *)
(***************************************************************************)
Pending(g) == {j \in Jobs : \/ \E k \in DOMAIN replyQ[g] : replyQ[g][k] = j
                            \/ \E i \in Ids : ids[g][i] = j}

(* The first caller closes the socket and takes both tables under c.mu;    *)
(* every other caller only waits for the once.                             *)
Fail(g, why) ==
  IF state[g] = "open"
  THEN /\ state' = [state EXCEPT ![g] = "failing"]
       /\ cause' = [cause EXCEPT ![g] = why]
       /\ victims' = [victims EXCEPT ![g] = Pending(g)]
       /\ replyQ' = [replyQ EXCEPT ![g] = <<>>]
       /\ ids' = [ids EXCEPT ![g] = NoIds]
       /\ CloseSocket(g)
  ELSE UNCHANGED <<state, cause, victims, replyQ, ids, socketVars>>

(* A job that is done already is passed over.                              *)
FailDeliver(g) == \E j \in victims[g] :
  /\ Telling(g) = {}
  /\ Complete(j, Failure(cause[g]))
  /\ victims' = [victims EXCEPT ![g] = IF ch[j] = None THEN @ ELSE @ \ {j}]
  /\ UNCHANGED <<state, cause, writeCh, replyQ, ids, writer, reader, jid,
                 canceled, lostHalts, socketVars>>

FailSend(g) == \E j \in Telling(g) :
  /\ victims' = [victims EXCEPT ![g] = @ \ {j}]
  /\ UNCHANGED <<state, cause, writeCh, replyQ, ids, writer, reader, jobVars,
                 lostHalts, socketVars>>

(* Variant: dead is closed before the results are delivered.               *)
FailDoneFirst(g) ==
  /\ state[g] = "failing"
  /\ state' = [state EXCEPT ![g] = "dead"]
  /\ UNCHANGED <<cause, writeCh, replyQ, ids, victims, writer, reader, jobVars,
                 lostHalts, socketVars>>

FailDone(g) ==
  /\ state[g] = "failing"
  /\ victims[g] = {}
  /\ state' = [state EXCEPT ![g] = "dead"]
  /\ UNCHANGED <<cause, writeCh, replyQ, ids, victims, writer, reader, jobVars,
                 lostHalts, socketVars>>

(* Variant: a halt is not registered in the reply queue.                   *)
WriterTakeTracesOnly(g) ==
  /\ state[g] # "none"
  /\ writer[g].pc = "idle"
  /\ writeCh[g] # <<>>
  /\ LET req == Head(writeCh[g]) IN
       /\ replyQ' = [replyQ EXCEPT ![g] = IF req.t = "trace" THEN Append(@, req.of) ELSE @]
       /\ writer' = [writer EXCEPT ![g] = [pc |-> "write", req |-> req]]
  /\ writeCh' = [writeCh EXCEPT ![g] = Tail(@)]
  /\ UNCHANGED <<state, cause, ids, victims, reader, jobVars, lostHalts, socketVars>>

(***************************************************************************)
(* writeLoop                                                               *)
(***************************************************************************)
(* Receive a request and register it, before anything is written.  select  *)
(* may prefer a waiting request to a closed dead channel.                  *)
WriterTake(g) ==
  /\ state[g] # "none"
  /\ writer[g].pc = "idle"
  /\ writeCh[g] # <<>>
  /\ LET req == Head(writeCh[g]) IN
       /\ replyQ' = [replyQ EXCEPT ![g] = Append(@, req.of)]
       /\ writer' = [writer EXCEPT ![g] = [pc |-> "write", req |-> req]]
  /\ writeCh' = [writeCh EXCEPT ![g] = Tail(@)]
  /\ UNCHANGED <<state, cause, ids, victims, reader, jobVars, lostHalts, socketVars>>

WriterSend(g) ==
  /\ writer[g].pc = "write"
  /\ peer[g] = "up"
  /\ Len(toDaemon[g]) < PipeCap
  /\ Transmit(g, writer[g].req)
  /\ writer' = [writer EXCEPT ![g] = WriterIdle]
  /\ UNCHANGED <<state, cause, writeCh, replyQ, ids, victims, reader, jobVars, lostHalts>>

(* Variant: the cause of a write error is not classified.                  *)
WriterErrorUnclassified(g) ==
  /\ writer[g].pc = "write"
  /\ peer[g] = "down"
  /\ writer' = [writer EXCEPT ![g] = WriterStopped]
  /\ Fail(g, "write")
  /\ UNCHANGED <<writeCh, reader, jobVars, lostHalts>>

WriterError(g) ==
  /\ writer[g].pc = "write"
  /\ peer[g] = "down"
  /\ writer' = [writer EXCEPT ![g] = WriterStopped]
  /\ Fail(g, "unavailable")
  /\ UNCHANGED <<writeCh, reader, jobVars, lostHalts>>

WriterQuit(g) ==
  /\ writer[g].pc = "idle"
  /\ dead(g)
  /\ writer' = [writer EXCEPT ![g] = WriterStopped]
  /\ UNCHANGED <<state, cause, writeCh, replyQ, ids, victims, reader, jobVars,
                 lostHalts, socketVars>>

WriterStep(g) == WriterTake(g) \/ WriterSend(g) \/ WriterError(g) \/ WriterQuit(g)
(***************************************************************************)
(* readLoop: handleLine and handleData                                     *)
(***************************************************************************)
frame(g) == Head(toClient[g])

Receive(g, kinds) ==
  /\ state[g] # "none"
  /\ reader[g].pc = "idle"
  /\ toClient[g] # <<>>
  /\ frame(g).t \in kinds

(* The job at the head of the reply queue, Nil for a halt or an empty queue.*)
NextReply(g) == IF replyQ[g] = <<>> THEN Nil ELSE Head(replyQ[g])
PopReply(g) == replyQ' = [replyQ EXCEPT ![g] = IF @ = <<>> THEN @ ELSE Tail(@)]

(* "OK id-N": bindID pops and binds under c.mu ...                         *)
ReadOkId(g) ==
  /\ Receive(g, {"okid"})
  /\ Consume(g)
  /\ PopReply(g)
  /\ IF NextReply(g) = Nil
     THEN UNCHANGED <<ids, reader>>
     ELSE /\ ids' = [ids EXCEPT ![g][frame(g).id] = NextReply(g)]
          /\ reader' = [reader EXCEPT ![g] = [pc |-> "bound", job |-> NextReply(g),
                                              id |-> frame(g).id, res |-> None]]
  /\ UNCHANGED <<state, cause, writeCh, victims, writer, jobVars, lostHalts>>

(* ... then tells the job its id ...                                       *)
SetId(g) ==
  /\ reader[g].pc = "bound"
  /\ jid' = [jid EXCEPT ![reader[g].job] = reader[g].id]
  /\ reader' = [reader EXCEPT ![g].pc = "idset"]
  /\ UNCHANGED <<state, cause, writeCh, replyQ, ids, victims, writer, ch, canceled,
                 lostHalts, socketVars>>

(* Variant: bindID does not look at canceled.                              *)
HaltNever(g) ==
  /\ reader[g].pc = "idset"
  /\ reader' = [reader EXCEPT ![g] = Idle]
  /\ UNCHANGED <<state, cause, writeCh, lostHalts, replyQ, ids, victims, writer, jobVars,
                 socketVars>>

(* Variant: the select of enqueueHalt has no default, so that the reader   *)
(* waits for room.                                                         *)
HaltWhenRoom(g) ==
  /\ reader[g].pc = "idset"
  /\ IF canceled[reader[g].job]
     THEN /\ EnqueueHalt(g, reader[g].id, reader[g].job)
          /\ Len(writeCh[g]) < WriteCap \/ dead(g)
     ELSE UNCHANGED <<writeCh, lostHalts>>
  /\ reader' = [reader EXCEPT ![g] = Idle]
  /\ UNCHANGED <<state, cause, replyQ, ids, victims, writer, jobVars, socketVars>>

(* ... and only then asks whether the job was given up meanwhile.          *)
HaltIfCanceled(g) ==
  /\ reader[g].pc = "idset"
  /\ IF canceled[reader[g].job]
     THEN EnqueueHalt(g, reader[g].id, reader[g].job)
     ELSE UNCHANGED <<writeCh, lostHalts>>
  /\ reader' = [reader EXCEPT ![g] = Idle]
  /\ UNCHANGED <<state, cause, replyQ, ids, victims, writer, jobVars, socketVars>>

(* Variant: the confirmation of a halt leaves its entry in the queue.      *)
ReadHaltedUnpopped(g) ==
  /\ Receive(g, {"halted"})
  /\ Consume(g)
  /\ UNCHANGED connVars

(* "OK halted N": consumeReply.                                            *)
ReadHalted(g) ==
  /\ Receive(g, {"halted"})
  /\ Consume(g)
  /\ PopReply(g)
  /\ UNCHANGED <<state, cause, writeCh, ids, victims, writer, reader, jobVars, lostHalts>>

(* "ERR": failNextReply pops; a trace's job is completed in a later step.  *)
ReadErr(g) ==
  /\ Receive(g, {"err"})
  /\ Consume(g)
  /\ PopReply(g)
  /\ IF NextReply(g) = Nil
     THEN UNCHANGED reader
     ELSE reader' = [reader EXCEPT ![g] = [pc |-> "taken", job |-> NextReply(g), id |-> 0,
                       res |-> [k |-> "rejected", of |-> frame(g).of]]]
  /\ UNCHANGED <<state, cause, writeCh, ids, victims, writer, jobVars, lostHalts>>

(* "DATA len id-N": look the job up; an unknown id and an INPROGRESS       *)
(* snapshot are dropped.                                                   *)
ReadData(g) ==
  /\ Receive(g, DataKinds)
  /\ Consume(g)
  /\ LET j == ids[g][frame(g).id] IN
     IF j = Nil \/ frame(g).t = "inprogress"
     THEN UNCHANGED reader
     ELSE reader' = [reader EXCEPT ![g] =
            [pc |-> "found", job |-> j, id |-> frame(g).id,
             res |-> [k |-> IF frame(g).t = "final" THEN "result" ELSE "parse",
                      of |-> frame(g).of]]]
  /\ UNCHANGED <<state, cause, writeCh, replyQ, ids, victims, writer, jobVars, lostHalts>>

(* Variant: take does not delete the entry.                                *)
TakeDataKept(g) ==
  /\ reader[g].pc = "found"
  /\ reader' = [reader EXCEPT ![g].pc = "taken"]
  /\ UNCHANGED <<state, cause, writeCh, replyQ, ids, victims, writer, jobVars, lostHalts,
                 socketVars>>

TakeData(g) ==
  /\ reader[g].pc = "found"
  /\ ids' = [ids EXCEPT ![g][reader[g].id] = Nil]
  /\ reader' = [reader EXCEPT ![g].pc = "taken"]
  /\ UNCHANGED <<state, cause, writeCh, replyQ, victims, writer, jobVars, lostHalts,
                 socketVars>>

ReadDeliver(g) ==
  /\ reader[g].pc = "taken"
  /\ Complete(reader[g].job, reader[g].res)
  /\ IF ch[reader[g].job] = None
     THEN reader' = [reader EXCEPT ![g].pc = "send"]
     ELSE reader' = [reader EXCEPT ![g] = Idle]
  /\ UNCHANGED <<state, cause, writeCh, replyQ, ids, victims, writer, jid, canceled,
                 lostHalts, socketVars>>

ReadSend(g) ==
  /\ reader[g].pc = "send"
  /\ reader' = [reader EXCEPT ![g] = Idle]
  /\ UNCHANGED <<state, cause, writeCh, replyQ, ids, victims, writer, jobVars,
                 lostHalts, socketVars>>

ReadNoise(g) ==
  /\ Receive(g, {"noise"})
  /\ Consume(g)
  /\ UNCHANGED connVars

(* A malformed header or id, or a short payload: ErrProtocol.              *)
ReadBad(g) ==
  /\ Receive(g, {"bad"})
  /\ reader' = [reader EXCEPT ![g] = ReaderStopped]
  /\ Fail(g, "protocol")
  /\ UNCHANGED <<writeCh, writer, jobVars, lostHalts>>

(* Nothing left to read and the socket is closed by either end.            *)
ReadEnd(g) ==
  /\ state[g] # "none"
  /\ reader[g].pc = "idle"
  /\ toClient[g] = <<>>
  /\ peer[g] = "down"
  /\ reader' = [reader EXCEPT ![g] = ReaderStopped]
  /\ Fail(g, "unavailable")
  /\ UNCHANGED <<writeCh, writer, jobVars, lostHalts>>

Read(g) ==
  \/ ReadOkId(g) \/ ReadHalted(g) \/ ReadErr(g) \/ ReadData(g)
  \/ ReadNoise(g) \/ ReadBad(g) \/ ReadEnd(g)

ReaderStep(g) ==
  \/ Read(g)
  \/ SetId(g) \/ HaltIfCanceled(g) \/ TakeData(g) \/ ReadDeliver(g) \/ ReadSend(g)

FailStep(g) == FailDeliver(g) \/ FailSend(g) \/ FailDone(g)

ConnStep(g) == WriterStep(g) \/ ReaderStep(g) \/ FailStep(g)
ConnTypeOK ==
  /\ state \in [Gens -> {"none", "open", "failing", "dead"}]
  /\ cause \in [Gens -> {"none"} \cup Causes]
  /\ writeCh \in [Gens -> Seq(Commands)]
  /\ replyQ \in [Gens -> Seq(JobOrNil)]
  /\ ids \in [Gens -> [Ids -> JobOrNil]]
  /\ victims \in [Gens -> SUBSET Jobs]
  /\ writer \in [Gens -> [pc : {"idle", "write", "stopped"}, req : Commands]]
  /\ reader \in [Gens -> [pc : {"idle", "bound", "idset", "found", "taken", "send", "stopped"},
                          job : JobOrNil, id : Ids \cup {0}, res : Results]]
  /\ ch \in [Jobs -> Results]
  /\ jid \in [Jobs -> Ids \cup {0}]
  /\ canceled \in [Jobs -> BOOLEAN]
  /\ lostHalts \subseteq JobOrNil
=============================================================================
