--------------------------- MODULE SessionProofs ---------------------------
(***************************************************************************)
(* Theorems about Session, for every set of jobs and every bound.          *)
(***************************************************************************)
EXTENDS Session, SequenceTheorems, TLAPS

USE SocketAssumption, WriteCapAssumption

(***************************************************************************)
(* Type correctness                                                        *)
(***************************************************************************)
(* The command the daemon reads next.                                      *)
LEMMA HeadCommand ==
  ASSUME NEW g \in Gens, SocketTypeOK, toDaemon[g] # <<>>
  PROVE  /\ Head(toDaemon[g]) \in Commands
         /\ Head(toDaemon[g]).of \in JobOrNil
         /\ Head(toDaemon[g]).t = "trace" => Head(toDaemon[g]).of \in Jobs
         /\ Tail(toDaemon[g]) \in Seq(Commands)
<1>1. toDaemon[g] \in Seq(Commands)
  BY DEF SocketTypeOK
<1>2. Head(toDaemon[g]) \in Commands /\ Tail(toDaemon[g]) \in Seq(Commands)
  BY <1>1, HeadTailProperties
<1> QED
  BY <1>2 DEF Commands, JobOrNil

(* Frames about a task.                                                    *)
LEMMA TaskFrame ==
  ASSUME NEW kind \in {"okid"} \cup DataKinds, NEW j \in Jobs, NEW i \in Ids, NEW n \in Nat
  PROVE  [t |-> kind, of |-> j, id |-> i, n |-> n] \in Frames
BY DEF Frames

(* Frames that are about no task.                                          *)
LEMMA OtherFrame ==
  ASSUME NEW kind \in {"halted", "err", "noise", "bad"}, NEW j \in JobOrNil, NEW n \in Nat
  PROVE  [t |-> kind, of |-> j, id |-> 0, n |-> n] \in Frames
BY DEF Frames

(* The count of replies stays a natural number.                            *)
LEMMA RepliesNat ==
  ASSUME NEW g \in Gens, SocketTypeOK
  PROVE  replies[g] \in Nat /\ replies[g] + 1 \in Nat
<1>1. replies[g] \in Nat
  BY DEF SocketTypeOK
<1> QED
  BY <1>1

(* What the daemon does keeps the types of the socket.                     *)
LEMMA AnswerType ==
  ASSUME NEW g \in Gens, SocketTypeOK, toDaemon[g] # <<>>,
         NEW kind, NEW i, NEW more \in Seq(Frames),
         [t |-> kind, of |-> Head(toDaemon[g]).of, id |-> i, n |-> replies[g] + 1] \in Frames,
         Answer(g, kind, i, more)
  PROVE  /\ toDaemon' \in [Gens -> Seq(Commands)]
         /\ toClient' \in [Gens -> Seq(Frames)]
         /\ replies' \in [Gens -> Nat]
<1> DEFINE f == [t |-> kind, of |-> Head(toDaemon[g]).of, id |-> i, n |-> replies[g] + 1]
<1>1. Tail(toDaemon[g]) \in Seq(Commands)
  BY HeadCommand
<1>2. Append(toClient[g], f) \in Seq(Frames)
  BY DEF SocketTypeOK
<1>3. Append(toClient[g], f) \o more \in Seq(Frames)
  BY <1>2, ConcatProperties
<1>4. replies[g] + 1 \in Nat
  BY DEF SocketTypeOK
<1> QED
  BY <1>1, <1>3, <1>4 DEF SocketTypeOK, Answer

(* Every step of the daemon keeps the types of the socket.                 *)
LEMMA DaemonType ==
  ASSUME NEW g \in Gens, SocketTypeOK, DaemonStep(g)
  PROVE  SocketTypeOK'
<1>1. CASE AcceptTrace(g)
  <2> DEFINE j == Head(toDaemon[g]).of
             i == Len(tasks[g]) + 1
  <2>1. j \in Jobs /\ i \in Ids
    <3>1. j \in Jobs
      BY <1>1, HeadCommand DEF AcceptTrace, NextCommand
    <3>2. Len(tasks[g]) \in Nat /\ Len(tasks[g]) < MaxId
      BY <1>1 DEF AcceptTrace, SocketTypeOK
    <3> QED
      BY <3>1, <3>2 DEF Ids
  <2>2. [t |-> "okid", of |-> j, id |-> i, n |-> replies[g] + 1] \in Frames
    BY <2>1, TaskFrame, RepliesNat
  <2>3. /\ toDaemon' \in [Gens -> Seq(Commands)]
        /\ toClient' \in [Gens -> Seq(Frames)]
        /\ replies' \in [Gens -> Nat]
    <3>1. <<>> \in Seq(Frames)
      OBVIOUS
    <3>2. toDaemon[g] # <<>> /\ Answer(g, "okid", i, <<>>)
      BY <1>1 DEF AcceptTrace, NextCommand
    <3> QED
      BY <2>2, <3>1, <3>2, AnswerType
  <2>4. /\ tasks' = [tasks EXCEPT ![g] = Append(tasks[g], j)]
        /\ live' = [live EXCEPT ![g] = live[g] \cup {i}]
        /\ peer' = peer
    BY <1>1 DEF AcceptTrace
  <2>6. replies[g] \in Nat
    BY DEF SocketTypeOK
  <2>5. /\ tasks' \in [Gens -> Seq(Jobs)]
        /\ live' \in [Gens -> SUBSET Ids]
        /\ \A h \in Gens : live'[h] \subseteq DOMAIN tasks'[h]
    BY <2>1, <2>4 DEF SocketTypeOK
  <2> QED
    BY <2>3, <2>4, <2>5 DEF SocketTypeOK
<1>2. CASE RejectTrace(g)
  <2>1. [t |-> "err", of |-> Head(toDaemon[g]).of, id |-> 0, n |-> replies[g] + 1] \in Frames
    BY <1>2, HeadCommand, OtherFrame, RepliesNat DEF RejectTrace, NextCommand
  <2>2. /\ toDaemon' \in [Gens -> Seq(Commands)]
        /\ toClient' \in [Gens -> Seq(Frames)]
        /\ replies' \in [Gens -> Nat]
    <3>1. <<>> \in Seq(Frames)
      OBVIOUS
    <3>2. toDaemon[g] # <<>> /\ Answer(g, "err", 0, <<>>)
      BY <1>2 DEF RejectTrace, NextCommand
    <3> QED
      BY <2>1, <3>1, <3>2, AnswerType
  <2> QED
    BY <1>2, <2>2 DEF RejectTrace, SocketTypeOK
<1>3. CASE AnswerHalt(g)
  <2> DEFINE i == Head(toDaemon[g]).id
             last == [t |-> "final", of |-> tasks[g][i], id |-> i, n |-> replies[g] + 1]
  <2>1. \A kind \in {"halted", "err"} :
          [t |-> kind, of |-> Head(toDaemon[g]).of, id |-> 0, n |-> replies[g] + 1] \in Frames
    BY <1>3, HeadCommand, OtherFrame, RepliesNat DEF AnswerHalt, NextCommand
  <2>2. i \in live[g] => <<last>> \in Seq(Frames)
    <3>1. i \in live[g] => i \in Ids /\ tasks[g][i] \in Jobs
      BY DEF SocketTypeOK
    <3>2. i \in live[g] => last \in Frames
      BY <3>1, TaskFrame, RepliesNat DEF DataKinds
    <3> QED
      BY <3>2
  <2>3. /\ toDaemon' \in [Gens -> Seq(Commands)]
        /\ toClient' \in [Gens -> Seq(Frames)]
        /\ replies' \in [Gens -> Nat]
    <3>1. <<>> \in Seq(Frames)
      OBVIOUS
    <3>2. toDaemon[g] # <<>> /\ NextCommand(g, "halt")
      BY <1>3 DEF AnswerHalt, NextCommand
    <3>3. PICK kind \in {"halted", "err"}, more \in Seq(Frames) : Answer(g, kind, 0, more)
      BY <1>3, <2>2, <3>1 DEF AnswerHalt
    <3> QED
      BY <2>1, <3>2, <3>3, AnswerType
  <2>4. /\ live' = [live EXCEPT ![g] = live[g] \ {i}]
        /\ UNCHANGED <<peer, tasks>>
    BY <1>3 DEF AnswerHalt
  <2> QED
    BY <2>3, <2>4 DEF SocketTypeOK
<1>4. ASSUME NEW i \in live[g], NEW kind \in DataKinds, SendData(g, i, kind)
      PROVE  SocketTypeOK'
  <2>1. [t |-> kind, of |-> tasks[g][i], id |-> i, n |-> replies[g]] \in Frames
    BY TaskFrame, RepliesNat DEF SocketTypeOK
  <2> QED
    BY <1>4, <2>1 DEF SendData, SocketTypeOK
<1>5. CASE SendOther(g)
  <2>1. \A kind \in {"noise", "bad"} :
          [t |-> kind, of |-> Nil, id |-> 0, n |-> replies[g]] \in Frames
    BY OtherFrame, RepliesNat DEF JobOrNil
  <2> QED
    BY <1>5, <2>1 DEF SendOther, SocketTypeOK
<1>6. CASE Drop(g)
  BY <1>6 DEF Drop, SocketTypeOK
<1> QED
  BY <1>1, <1>2, <1>3, <1>4, <1>5, <1>6 DEF DaemonStep, DaemonAnswer

(* So does closing the socket, which cuts the stream of frames short,      *)
LEMMA CloseSocketType ==
  ASSUME NEW g \in Gens, SocketTypeOK, CloseSocket(g)
  PROVE  SocketTypeOK'
<1>1. \A k \in 0..Len(toClient[g]) : SubSeq(toClient[g], 1, k) \in Seq(Frames)
  BY SubSeqProperties DEF SocketTypeOK
<1> QED
  BY <1>1 DEF CloseSocket, SocketTypeOK

(* reading one frame,                                                      *)
LEMMA ConsumeType ==
  ASSUME NEW g \in Gens, SocketTypeOK, toClient[g] # <<>>, Consume(g)
  PROVE  SocketTypeOK'
BY DEF Consume, SocketTypeOK

(* writing one command,                                                    *)
LEMMA TransmitType ==
  ASSUME NEW g \in Gens, NEW cmd \in Commands, SocketTypeOK, Transmit(g, cmd)
  PROVE  SocketTypeOK'
BY DEF Transmit, SocketTypeOK

(* and a dial that succeeds.                                               *)
LEMMA ConnectType ==
  ASSUME NEW g \in Gens, SocketTypeOK, Connect(g)
  PROVE  SocketTypeOK'
BY DEF Connect, SocketTypeOK
(* What the connection does keeps the types of the socket and of the       *)
(* connection.                                                             *)
LEMMA FailType ==
  ASSUME NEW g \in Gens, NEW why \in Causes, SocketTypeOK, ConnTypeOK, Fail(g, why)
  PROVE  /\ SocketTypeOK'
         /\ state' \in [Gens -> {"none", "open", "failing", "dead"}]
         /\ cause' \in [Gens -> {"none"} \cup Causes]
         /\ replyQ' \in [Gens -> Seq(JobOrNil)]
         /\ ids' \in [Gens -> [Ids -> JobOrNil]]
         /\ victims' \in [Gens -> SUBSET Jobs]
<1>1. CASE state[g] = "open"
  <2>1. SocketTypeOK'
    BY <1>1, CloseSocketType DEF Fail
  <2>2. Pending(g) \in SUBSET Jobs
    BY DEF Pending
  <2>3. NoIds \in [Ids -> JobOrNil]
    BY DEF NoIds, JobOrNil
  <2>4. <<>> \in Seq(JobOrNil)
    OBVIOUS
  <2>5. /\ state' = [state EXCEPT ![g] = "failing"]
        /\ cause' = [cause EXCEPT ![g] = why]
        /\ victims' = [victims EXCEPT ![g] = Pending(g)]
        /\ replyQ' = [replyQ EXCEPT ![g] = <<>>]
        /\ ids' = [ids EXCEPT ![g] = NoIds]
    BY <1>1 DEF Fail
  <2>6. /\ state' \in [Gens -> {"none", "open", "failing", "dead"}]
        /\ cause' \in [Gens -> {"none"} \cup Causes]
    BY <2>5 DEF ConnTypeOK
  <2>7. replyQ' \in [Gens -> Seq(JobOrNil)]
    BY <2>4, <2>5 DEF ConnTypeOK
  <2>8. ids' \in [Gens -> [Ids -> JobOrNil]]
    BY <2>3, <2>5 DEF ConnTypeOK
  <2>9. victims' \in [Gens -> SUBSET Jobs]
    BY <2>2, <2>5 DEF ConnTypeOK
  <2> QED
    BY <2>1, <2>6, <2>7, <2>8, <2>9
<1>2. CASE state[g] # "open"
  BY <1>2 DEF Fail, ConnTypeOK, SocketTypeOK, socketVars
<1> QED
  BY <1>1, <1>2

(* A halt that is queued is a command; one that is dropped names a job.    *)
LEMMA EnqueueHaltType ==
  ASSUME NEW g \in Gens, NEW i \in Nat, NEW j \in JobOrNil, ConnTypeOK, EnqueueHalt(g, i, j)
  PROVE  /\ writeCh' \in [Gens -> Seq(Commands)]
         /\ lostHalts' \subseteq JobOrNil
<1>1. Halt(i) \in Commands
  BY DEF Halt, Commands
<1>2. Append(writeCh[g], Halt(i)) \in Seq(Commands)
  BY <1>1 DEF ConnTypeOK
<1>3. writeCh \in [Gens -> Seq(Commands)] /\ lostHalts \subseteq JobOrNil
  BY DEF ConnTypeOK
<1>4. \/ /\ writeCh' = [writeCh EXCEPT ![g] = Append(writeCh[g], Halt(i))]
         /\ lostHalts' = lostHalts
      \/ lostHalts' = lostHalts \cup {j} /\ writeCh' = writeCh
  BY DEF EnqueueHalt
<1> QED
  BY <1>2, <1>3, <1>4

(* What jobs are told are results.                                         *)
LEMMA ResultTypes ==
  /\ None \in Results
  /\ \A why \in {"none"} \cup Causes : Failure(why) \in Results
BY DEF None, Failure, Results, JobOrNil

(* Delivering a result keeps the type of the result channels.              *)
LEMMA CompleteType ==
  ASSUME ConnTypeOK, NEW j, NEW res \in Results, Complete(j, res)
  PROVE  ch' \in [Jobs -> Results]
BY DEF ConnTypeOK, Complete

(* Every step of writeLoop keeps the types,                                *)
LEMMA WriterType ==
  ASSUME NEW g \in Gens, SocketTypeOK, ConnTypeOK, WriterStep(g)
  PROVE  SocketTypeOK' /\ ConnTypeOK'
<1>1. CASE WriterTake(g)
  <2>1. writeCh[g] \in Seq(Commands) /\ writeCh[g] # <<>>
    BY <1>1 DEF WriterTake, ConnTypeOK
  <2>2. Head(writeCh[g]) \in Commands /\ Tail(writeCh[g]) \in Seq(Commands)
    BY <2>1, HeadTailProperties
  <2>3. Head(writeCh[g]).of \in JobOrNil
    BY <2>2 DEF Commands, JobOrNil
  <2>4. /\ writeCh' \in [Gens -> Seq(Commands)]
        /\ replyQ' \in [Gens -> Seq(JobOrNil)]
        /\ writer' \in [Gens -> [pc : {"idle", "write", "stopped"}, req : Commands]]
    BY <1>1, <2>2, <2>3 DEF WriterTake, ConnTypeOK
  <2> QED
    BY <1>1, <2>4 DEF WriterTake, ConnTypeOK, SocketTypeOK, socketVars, jobVars
<1> DEFINE WriterRecords == [pc : {"idle", "write", "stopped"}, req : Commands]
<1>2. WriterIdle \in WriterRecords /\ WriterStopped \in WriterRecords
  BY DEF WriterIdle, WriterStopped, Halt, Commands
<1>3. CASE WriterSend(g)
  <2>1. writer[g].req \in Commands
    BY DEF ConnTypeOK
  <2>2. SocketTypeOK'
    BY <1>3, <2>1, TransmitType DEF WriterSend
  <2> QED
    BY <1>2, <1>3, <2>2 DEF WriterSend, ConnTypeOK, jobVars
<1>4. CASE WriterError(g)
  <2>1. "unavailable" \in Causes /\ Fail(g, "unavailable")
    BY <1>4 DEF WriterError, Causes
  <2> QED
    BY <1>2, <1>4, <2>1, FailType DEF WriterError, ConnTypeOK, jobVars
<1>5. CASE WriterQuit(g)
  BY <1>2, <1>5 DEF WriterQuit, ConnTypeOK, SocketTypeOK, jobVars, socketVars
<1> QED
  BY <1>1, <1>3, <1>4, <1>5 DEF WriterStep

(* every step of fail after its first,                                     *)
LEMMA FailStepType ==
  ASSUME NEW g \in Gens, SocketTypeOK, ConnTypeOK, FailStep(g)
  PROVE  SocketTypeOK' /\ ConnTypeOK'
<1>1. CASE FailDeliver(g)
  <2>1. Failure(cause[g]) \in Results
    BY ResultTypes DEF ConnTypeOK
  <2>2. ch' \in [Jobs -> Results]
    BY <1>1, <2>1, CompleteType DEF FailDeliver
  <2> QED
    BY <1>1, <2>2 DEF FailDeliver, ConnTypeOK, SocketTypeOK, socketVars
<1>3. CASE FailSend(g)
  BY <1>3 DEF FailSend, ConnTypeOK, SocketTypeOK, jobVars, socketVars
<1>2. CASE FailDone(g)
  BY <1>2 DEF FailDone, ConnTypeOK, SocketTypeOK, jobVars, socketVars
<1> QED
  BY <1>1, <1>2, <1>3 DEF FailStep

(* every step of readLoop,                                                 *)
LEMMA ReaderType ==
  ASSUME NEW g \in Gens, SocketTypeOK, ConnTypeOK, ReaderStep(g)
  PROVE  SocketTypeOK' /\ ConnTypeOK'
<1> DEFINE Records == [pc : {"idle", "bound", "idset", "found", "taken", "send", "stopped"},
                       job : JobOrNil, id : Ids \cup {0}, res : Results]
<1>1. Idle \in Records /\ ReaderStopped \in Records
  BY ResultTypes DEF Idle, ReaderStopped, JobOrNil
<1>2. reader[g] \in Records /\ reader \in [Gens -> Records]
  BY DEF ConnTypeOK
<1>3. NextReply(g) \in JobOrNil
  <2>1. replyQ[g] \in Seq(JobOrNil)
    BY DEF ConnTypeOK
  <2>2. replyQ[g] # <<>> => Head(replyQ[g]) \in JobOrNil
    BY <2>1, HeadTailProperties
  <2> QED
    BY <2>2 DEF NextReply, JobOrNil
<1>4. ASSUME PopReply(g)
      PROVE  replyQ' \in [Gens -> Seq(JobOrNil)]
  BY <1>4 DEF PopReply, ConnTypeOK
<1>5. ASSUME NEW kinds, Receive(g, kinds)
      PROVE  /\ toClient[g] # <<>>
             /\ frame(g) \in Frames
             /\ frame(g).of \in JobOrNil
             /\ frame(g).id \in Ids \cup {0}
             /\ frame(g).t \in kinds
             /\ frame(g).t \in {"okid"} \cup DataKinds => frame(g).id \in Ids
  <2>1. toClient[g] \in Seq(Frames)
    BY DEF SocketTypeOK
  <2>2. toClient[g] # <<>> /\ frame(g).t \in kinds
    BY <1>5 DEF Receive
  <2>3. frame(g) \in Frames
    BY <2>1, <2>2, HeadTailProperties DEF frame
  <2> QED
    BY <2>2, <2>3 DEF Frames, JobOrNil, DataKinds
<1>6. CASE ReadOkId(g)
  <2>1. PopReply(g) /\ Receive(g, {"okid"}) /\ Consume(g)
    BY <1>6 DEF ReadOkId
  <2>2. SocketTypeOK'
    BY <1>5, <2>1, ConsumeType
  <2>3. ids' \in [Gens -> [Ids -> JobOrNil]]
    <3>1. ids[g] \in [Ids -> JobOrNil] /\ ids \in [Gens -> [Ids -> JobOrNil]]
      BY DEF ConnTypeOK
    <3>2. [ids[g] EXCEPT ![frame(g).id] = NextReply(g)] \in [Ids -> JobOrNil]
      BY <1>3, <3>1
    <3>3. \/ ids' = [ids EXCEPT ![g] = [ids[g] EXCEPT ![frame(g).id] = NextReply(g)]]
          \/ ids' = ids
      BY <1>6 DEF ReadOkId
    <3> QED
      BY <3>1, <3>2, <3>3
  <2>4. [pc |-> "bound", job |-> NextReply(g), id |-> frame(g).id, res |-> None] \in Records
    BY <1>3, <1>5, <2>1, ResultTypes
  <2>5. reader' \in [Gens -> Records]
    BY <1>2, <1>6, <2>4 DEF ReadOkId
  <2> QED
    BY <1>4, <1>6, <2>1, <2>2, <2>3, <2>5 DEF ReadOkId, ConnTypeOK, jobVars
<1>7. CASE SetId(g)
  <2>1. jid' \in [Jobs -> Ids \cup {0}]
    BY <1>2, <1>7 DEF SetId, ConnTypeOK
  <2>2. reader' \in [Gens -> Records]
    BY <1>2, <1>7 DEF SetId
  <2> QED
    BY <1>7, <2>1, <2>2 DEF SetId, ConnTypeOK, SocketTypeOK, socketVars
<1>8. CASE HaltIfCanceled(g)
  <2>1. /\ writeCh' \in [Gens -> Seq(Commands)]
        /\ lostHalts' \subseteq JobOrNil
    <3>1. reader[g].id \in Nat /\ reader[g].job \in JobOrNil
      BY <1>2 DEF Ids
    <3>2. CASE canceled[reader[g].job]
      BY <1>8, <3>1, <3>2, EnqueueHaltType DEF HaltIfCanceled
    <3>3. CASE ~canceled[reader[g].job]
      BY <1>8, <3>3 DEF HaltIfCanceled, ConnTypeOK
    <3> QED
      BY <3>2, <3>3
  <2>2. reader' \in [Gens -> Records]
    BY <1>1, <1>2, <1>8 DEF HaltIfCanceled
  <2> QED
    BY <1>8, <2>1, <2>2 DEF HaltIfCanceled, ConnTypeOK, SocketTypeOK, socketVars, jobVars
<1>9. CASE ReadHalted(g)
  BY <1>4, <1>5, <1>9, ConsumeType DEF ReadHalted, ConnTypeOK, jobVars
<1>10. CASE ReadErr(g)
  <2>1. PopReply(g) /\ Receive(g, {"err"}) /\ Consume(g)
    BY <1>10 DEF ReadErr
  <2>2. SocketTypeOK'
    BY <1>5, <2>1, ConsumeType
  <2>3. [pc |-> "taken", job |-> NextReply(g), id |-> 0,
         res |-> [k |-> "rejected", of |-> frame(g).of]] \in Records
    BY <1>3, <1>5, <2>1 DEF Results
  <2>4. reader' \in [Gens -> Records]
    BY <1>2, <1>10, <2>3 DEF ReadErr
  <2> QED
    BY <1>4, <1>10, <2>1, <2>2, <2>4 DEF ReadErr, ConnTypeOK, jobVars
<1>11. CASE ReadData(g)
  <2>1. Receive(g, DataKinds) /\ Consume(g)
    BY <1>11 DEF ReadData
  <2>2. SocketTypeOK'
    BY <1>5, <2>1, ConsumeType
  <2>3. ids[g][frame(g).id] \in JobOrNil
    <3>1. frame(g).id \in Ids
      BY <1>5, <2>1
    <3>2. ids[g] \in [Ids -> JobOrNil]
      BY DEF ConnTypeOK
    <3> QED
      BY <3>1, <3>2
  <2>4. \A k \in {"result", "parse"} :
          [pc |-> "found", job |-> ids[g][frame(g).id], id |-> frame(g).id,
           res |-> [k |-> k, of |-> frame(g).of]] \in Records
    BY <1>5, <2>1, <2>3 DEF Results
  <2>5. reader' \in [Gens -> Records]
    BY <1>2, <1>11, <2>4 DEF ReadData
  <2> QED
    BY <1>11, <2>2, <2>5 DEF ReadData, ConnTypeOK, jobVars
<1>12. CASE TakeData(g)
  <2>1. ids' \in [Gens -> [Ids -> JobOrNil]]
    BY <1>12 DEF TakeData, ConnTypeOK, JobOrNil
  <2>2. reader' \in [Gens -> Records]
    BY <1>2, <1>12 DEF TakeData
  <2> QED
    BY <1>12, <2>1, <2>2 DEF TakeData, ConnTypeOK, SocketTypeOK, socketVars, jobVars
<1>13. CASE ReadDeliver(g)
  <2>1. ch' \in [Jobs -> Results]
    BY <1>2, <1>13, CompleteType DEF ReadDeliver
  <2>2. reader' \in [Gens -> Records]
    BY <1>1, <1>2, <1>13 DEF ReadDeliver
  <2> QED
    BY <1>13, <2>1, <2>2 DEF ReadDeliver, ConnTypeOK, SocketTypeOK, socketVars
<1>17. CASE ReadSend(g)
  <2>1. reader' \in [Gens -> Records]
    BY <1>1, <1>2, <1>17 DEF ReadSend
  <2> QED
    BY <1>17, <2>1 DEF ReadSend, ConnTypeOK, SocketTypeOK, socketVars, jobVars
<1>14. CASE ReadNoise(g)
  BY <1>5, <1>14, ConsumeType DEF ReadNoise, ConnTypeOK, connVars
<1>15. CASE ReadBad(g)
  <2>1. Fail(g, "protocol") /\ "protocol" \in Causes
    BY <1>15 DEF ReadBad, Causes
  <2>2. reader' \in [Gens -> Records]
    BY <1>1, <1>2, <1>15 DEF ReadBad
  <2> QED
    BY <1>15, <2>1, <2>2, FailType DEF ReadBad, ConnTypeOK, jobVars
<1>16. CASE ReadEnd(g)
  <2>1. Fail(g, "unavailable") /\ "unavailable" \in Causes
    BY <1>16 DEF ReadEnd, Causes
  <2>2. reader' \in [Gens -> Records]
    BY <1>1, <1>2, <1>16 DEF ReadEnd
  <2> QED
    BY <1>16, <2>1, <2>2, FailType DEF ReadEnd, ConnTypeOK, jobVars
<1> QED
  BY <1>6, <1>7, <1>8, <1>9, <1>10, <1>11, <1>12, <1>13, <1>14, <1>15, <1>16, <1>17
  DEF ReaderStep, Read

(* and so every step of a connection.                                      *)
LEMMA ConnType ==
  ASSUME NEW g \in Gens, SocketTypeOK, ConnTypeOK, ConnStep(g)
  PROVE  SocketTypeOK' /\ ConnTypeOK'
BY WriterType, ReaderType, FailStepType DEF ConnStep
(* What a caller does.                                                     *)
LEMMA OutcomeTypes ==
  /\ \A why \in {"ctx", "gone", "weak"} \cup Causes : Failure(why) \in Outcomes
  /\ Results \subseteq Outcomes
BY DEF Failure, Outcomes, Results, JobOrNil

CallerTypeOK ==
  /\ pc \in [Jobs -> {"idle", "sem", "lookup", "parked", "woken", "submit", "await",
                      "mark", "halt", "done"}]
  /\ cur \in [Jobs -> GenOrNone]
  /\ outcome \in [Jobs -> Outcomes]

(* The part of the types a caller can disturb.                             *)
CallerWrites ==
  /\ CallerTypeOK
  /\ writeCh \in [Gens -> Seq(Commands)]
  /\ ch \in [Jobs -> Results]
  /\ jid \in [Jobs -> Ids \cup {0}]
  /\ canceled \in [Jobs -> BOOLEAN]
  /\ lostHalts \subseteq JobOrNil

(* A caller that only moves on, perhaps with the published connection.     *)
LEMMA GotoType ==
  ASSUME NEW j \in Jobs, CallerWrites, conn \in GenOrNone,
         NEW next \in {"sem", "lookup", "parked", "woken", "submit", "await",
                       "mark", "halt", "done"},
         Goto(j, next), UNCHANGED <<outcome, jobVars, writeCh, lostHalts>>,
         cur' = cur \/ cur' = [cur EXCEPT ![j] = conn]
  PROVE  CallerWrites'
<1>1. pc' \in [Jobs -> {"idle", "sem", "lookup", "parked", "woken", "submit", "await",
                        "mark", "halt", "done"}]
  BY DEF Goto, CallerWrites, CallerTypeOK
<1>2. cur' \in [Jobs -> GenOrNone]
  BY DEF CallerWrites, CallerTypeOK
<1> QED
  BY <1>1, <1>2 DEF CallerWrites, CallerTypeOK, jobVars

(* A caller that returns.                                                  *)
LEMMA FinishType ==
  ASSUME NEW j \in Jobs, NEW res \in Outcomes, CallerWrites, Finish(j, res)
  PROVE  CallerWrites'
<1>1. /\ pc' = [pc EXCEPT ![j] = "done"]
      /\ outcome' = [outcome EXCEPT ![j] = res]
      /\ UNCHANGED <<cur, ch, jid, canceled, writeCh, lostHalts>>
  BY DEF Finish, Goto, jobVars
<1>2. outcome' \in [Jobs -> Outcomes]
  BY <1>1 DEF CallerWrites, CallerTypeOK
<1>3. pc' \in [Jobs -> {"idle", "sem", "lookup", "parked", "woken", "submit", "await",
                        "mark", "halt", "done"}]
  BY <1>1 DEF CallerWrites, CallerTypeOK
<1> QED
  BY <1>1, <1>2, <1>3 DEF CallerWrites, CallerTypeOK

(* Every step of a caller that fairness covers keeps the types,            *)
LEMMA CallerStepType ==
  ASSUME NEW j \in Jobs, CallerWrites, conn \in GenOrNone,
         Start(j) \/ CallerStep(j) \/ GiveUpEarly(j, "ctx") \/ GiveUp(j, "ctx")
  PROVE  CallerWrites'
<1>1. CASE Start(j)
  <2>1. Failure("closed") \in Outcomes
    BY OutcomeTypes DEF Causes
  <2> QED
    BY <1>1, <2>1, FinishType, GotoType DEF Start
<1>2. CASE Acquire(j)
  BY <1>2, GotoType DEF Acquire
<1>3. CASE Lookup(j)
  BY <1>3, GotoType DEF Lookup
<1>4. CASE Wake(j)
  BY <1>4, GotoType DEF Wake
<1>5. CASE Submit(j)
  <2>1. Failure("gone") \in Outcomes
    BY OutcomeTypes
  <2>2. Trace(j) \in Commands
    BY DEF Trace, Commands
  <2>3. ASSUME writeCh' = [writeCh EXCEPT ![cur[j]] = Append(@, Trace(j))], Goto(j, "await"),
               UNCHANGED <<cur, outcome, jobVars, lostHalts>>
        PROVE  CallerWrites'
    <3>1. \A g \in Gens : Append(writeCh[g], Trace(j)) \in Seq(Commands)
      BY <2>2 DEF CallerWrites
    <3>2. writeCh' \in [Gens -> Seq(Commands)]
      BY <2>3, <3>1 DEF CallerWrites
    <3>3. CallerTypeOK'
      BY <2>3 DEF Goto, CallerWrites, CallerTypeOK
    <3> QED
      BY <2>3, <3>2, <3>3 DEF CallerWrites, jobVars
  <2> QED
    BY <1>5, <2>1, <2>3, FinishType DEF Submit
<1>6. ASSUME NEW why \in {"ctx", "weak", "closed"}, GiveUpEarly(j, why)
      PROVE  CallerWrites'
  BY <1>6, OutcomeTypes, FinishType DEF GiveUpEarly, Causes
<1>7. ASSUME NEW why \in {"ctx", "weak", "closed"}, GiveUp(j, why)
      PROVE  CallerWrites'
  <2>1. Failure(why) \in Outcomes
    BY OutcomeTypes DEF Causes
  <2>2. /\ pc' = [pc EXCEPT ![j] = "mark"]
        /\ outcome' = [outcome EXCEPT ![j] = Failure(why)]
        /\ UNCHANGED <<cur, ch, jid, canceled, writeCh, lostHalts>>
    BY <1>7 DEF GiveUp, Goto, jobVars
  <2>3. CallerTypeOK'
    BY <2>1, <2>2 DEF CallerWrites, CallerTypeOK
  <2> QED
    BY <2>2, <2>3 DEF CallerWrites
<1>8. CASE ReturnResult(j)
  <2>1. ch[j] \in Outcomes
    BY OutcomeTypes DEF CallerWrites
  <2> QED
    BY <1>8, <2>1, FinishType DEF ReturnResult
<1>9. CASE MarkCanceled(j)
  <2>1. canceled' \in [Jobs -> BOOLEAN]
    BY <1>9 DEF MarkCanceled, CallerWrites
  <2>2. CallerTypeOK'
    BY <1>9 DEF MarkCanceled, Goto, CallerWrites, CallerTypeOK
  <2> QED
    BY <1>9, <2>1, <2>2 DEF MarkCanceled, CallerWrites
<1>10. CASE SendHalt(j)
  <2>1. Halt(jid[j]) \in Commands
    BY DEF Halt, Commands, CallerWrites, Ids
  <2>2. \A g \in Gens : Append(writeCh[g], Halt(jid[j])) \in Seq(Commands)
    BY <2>1 DEF CallerWrites
  <2>3. \/ /\ writeCh' = [writeCh EXCEPT ![cur[j]] = Append(@, Halt(jid[j]))]
           /\ lostHalts' = lostHalts
        \/ lostHalts' = lostHalts \cup {j} /\ writeCh' = writeCh
    BY <1>10 DEF SendHalt, EnqueueHalt
  <2>4. writeCh' \in [Gens -> Seq(Commands)]
    <3>1. writeCh \in [Gens -> Seq(Commands)]
      BY DEF CallerWrites
    <3>2. CASE writeCh' = [writeCh EXCEPT ![cur[j]] = Append(@, Halt(jid[j]))]
      BY <2>2, <3>1, <3>2
    <3> QED
      BY <2>3, <3>1, <3>2
  <2>5. lostHalts' \subseteq JobOrNil
    BY <2>3 DEF CallerWrites, JobOrNil
  <2>6. CallerTypeOK'
    BY <1>10 DEF SendHalt, Goto, CallerWrites, CallerTypeOK
  <2> QED
    BY <1>10, <2>4, <2>5, <2>6 DEF SendHalt, CallerWrites, jobVars
<1> QED
  BY <1>1, <1>2, <1>3, <1>4, <1>5, <1>6, <1>7, <1>8, <1>9, <1>10 DEF CallerStep

(* and those in which it starts or its context ends.                       *)
LEMMA CallerType ==
  ASSUME NEW j \in Jobs, TypeOK, Caller(j)
  PROVE  TypeOK'
<1>1. CallerWrites /\ conn \in GenOrNone
  BY DEF TypeOK, ConnTypeOK, CallerWrites, CallerTypeOK
<1>2. CallerWrites'
  BY <1>1, CallerStepType DEF Caller
<1>3. UNCHANGED <<peer, toDaemon, toClient, tasks, live, replies,
                  state, cause, replyQ, ids, victims, writer, reader,
                  conn, ready, gen, closed, super, superConn, closer, closeConn>>
  BY DEF Caller, sessionVars, socketVars
<1>4. SocketTypeOK'
  BY <1>3 DEF TypeOK, SocketTypeOK
<1>5. ConnTypeOK'
  BY <1>2, <1>3 DEF TypeOK, ConnTypeOK, CallerWrites
<1> QED
  BY <1>2, <1>3, <1>4, <1>5 DEF TypeOK, CallerWrites, CallerTypeOK

(* What the supervisor and Close do.                                       *)
LEMMA SuperviseType ==
  ASSUME TypeOK, Supervise
  PROVE  TypeOK'
<1> USE DEF TypeOK
<1>1. CASE ConnLost
  BY <1>1 DEF ConnLost, ConnTypeOK, SocketTypeOK, socketVars, connVars, callerVars, GenOrNone
<1>2. CASE SuperClosed
  <2>1. Fail(superConn, "closed") /\ superConn \in Gens /\ "closed" \in Causes
    BY <1>2 DEF SuperClosed, Causes
  <2> QED
    BY <1>2, <2>1, FailType DEF SuperClosed, ConnTypeOK, jobVars, callerVars
<1>3. CASE SuperEnd
  BY <1>3 DEF SuperEnd, ConnTypeOK, SocketTypeOK, socketVars, connVars, callerVars
<1>6. CASE SleepTimer
  BY <1>6 DEF SleepTimer, ConnTypeOK, SocketTypeOK, socketVars, connVars, callerVars
<1>7. CASE SleepClosed
  BY <1>7 DEF SleepClosed, ConnTypeOK, SocketTypeOK, socketVars, connVars, callerVars
<1>4. CASE DialFails
  BY <1>4 DEF DialFails, ConnTypeOK, SocketTypeOK, socketVars, connVars, callerVars
<1>5. CASE DialSucceeds
  <2>1. gen + 1 \in Gens
    BY <1>5 DEF DialSucceeds, Gens
  <2>2. SocketTypeOK'
    BY <1>5, <2>1, ConnectType DEF DialSucceeds
  <2> QED
    BY <1>5, <2>1, <2>2 DEF DialSucceeds, Publish, ConnTypeOK, GenOrNone, jobVars
<1> QED
  BY <1>1, <1>2, <1>3, <1>4, <1>5, <1>6, <1>7 DEF Supervise

(* Close keeps the types.                                                  *)
LEMMA ClosingType ==
  ASSUME TypeOK, CloseStart \/ Closing
  PROVE  TypeOK'
<1> USE DEF TypeOK
<1>1. CASE CloseStart
  BY <1>1 DEF CloseStart, ConnTypeOK, SocketTypeOK, socketVars, connVars, callerVars
<1>3. CASE CloseRead
  BY <1>3 DEF CloseRead, ConnTypeOK, SocketTypeOK, socketVars, connVars, callerVars
<1>4. CASE CloseEnd
  BY <1>4 DEF CloseEnd, ConnTypeOK, SocketTypeOK, socketVars, connVars, callerVars
<1>2. CASE CloseFail
  <2>1. Fail(closeConn, "closed") /\ closeConn \in Gens /\ "closed" \in Causes
    BY <1>2 DEF CloseFail, Causes, GenOrNone
  <2> QED
    BY <1>2, <2>1, FailType DEF CloseFail, ConnTypeOK, jobVars, callerVars
<1> QED
  BY <1>1, <1>2, <1>3, <1>4 DEF Closing

(* The state newSession leaves has the right types.                        *)
LEMMA InitType == Init => TypeOK
<1> SUFFICES ASSUME Init PROVE TypeOK
  OBVIOUS
<1>1. 1 \in Gens
  BY DEF Gens
<1>2. SocketTypeOK
  <2>1. <<>> \in Seq(Commands) /\ <<>> \in Seq(Frames) /\ <<>> \in Seq(Jobs)
    OBVIOUS
  <2> QED
    BY <2>1 DEF Init, SocketInit, SocketTypeOK
<1>3. ConnTypeOK
  <2>1. <<>> \in Seq(Commands) /\ <<>> \in Seq(JobOrNil)
    OBVIOUS
  <2>2. NoIds \in [Ids -> JobOrNil]
    BY DEF NoIds, JobOrNil
  <2>3. WriterIdle \in [pc : {"idle", "write", "stopped"}, req : Commands]
    BY DEF WriterIdle, Halt, Commands
  <2>4. Idle \in [pc : {"idle", "bound", "idset", "found", "taken", "send", "stopped"},
                  job : JobOrNil, id : Ids \cup {0}, res : Results]
    BY ResultTypes DEF Idle, JobOrNil
  <2> QED
    BY <2>1, <2>2, <2>3, <2>4, ResultTypes DEF Init, ConnInit, ConnTypeOK
<1>4. None \in Outcomes
  BY ResultTypes, OutcomeTypes
<1> QED
  BY <1>1, <1>2, <1>3, <1>4 DEF Init, TypeOK, GenOrNone

(* Every behaviour of the session keeps every variable in its type.        *)
THEOREM TypeCorrect == Spec => []TypeOK
<1>1. TypeOK /\ [Next]_vars => TypeOK'
  <2> SUFFICES ASSUME TypeOK, [Next]_vars PROVE TypeOK'
    OBVIOUS
  <2>1. ASSUME NEW j \in Jobs, Caller(j) PROVE TypeOK'
    BY <2>1, CallerType
  <2>2. ASSUME NEW g \in Gens, Connection(g) PROVE TypeOK'
    <3>1. SocketTypeOK' /\ ConnTypeOK'
      BY <2>2, ConnType DEF Connection, TypeOK
    <3> QED
      BY <2>2, <3>1 DEF Connection, TypeOK, callerVars, sessionVars
  <2>3. ASSUME NEW g \in Gens, Daemon(g) PROVE TypeOK'
    <3>1. SocketTypeOK'
      BY <2>3, DaemonType DEF Daemon, TypeOK
    <3> QED
      BY <2>3, <3>1 DEF Daemon, TypeOK, ConnTypeOK, connVars, callerVars, sessionVars
  <2>4. CASE Supervise
    BY <2>4, SuperviseType
  <2>5. CASE CloseStart \/ Closing
    BY <2>5, ClosingType
  <2>6. CASE UNCHANGED vars
    BY <2>6 DEF TypeOK, SocketTypeOK, ConnTypeOK, vars, socketVars, connVars, callerVars,
                sessionVars
  <2> QED
    BY <2>1, <2>2, <2>3, <2>4, <2>5, <2>6 DEF Next, AtRest
<1> QED
  BY <1>1, InitType, PTL DEF Spec

(***************************************************************************)
(* readyCh                                                                 *)
(***************************************************************************)
(* What NoLostWakeup rests on: readyCh is closed exactly while a           *)
(* connection is published, and it is the one the supervisor watches.      *)
WakeupInv ==
  /\ NoLostWakeup
  /\ ready <=> conn # 0
  /\ super = "watch" => conn = superConn

(* A caller parked on readyCh cannot miss the connection that is           *)
(* published, and no readyCh is closed twice.                              *)
THEOREM NoWakeupIsLost == Spec => []NoLostWakeup
<1>1. Init => WakeupInv
  BY DEF Init, WakeupInv, NoLostWakeup
<1>2. TypeOK /\ WakeupInv /\ [Next]_vars => WakeupInv'
  <2> SUFFICES ASSUME TypeOK, WakeupInv, [Next]_vars PROVE WakeupInv'
    OBVIOUS
  <2> USE DEF WakeupInv, NoLostWakeup
  <2>1. ASSUME NEW j \in Jobs, Caller(j) PROVE WakeupInv'
    <3>1. UNCHANGED <<conn, ready, super, superConn>>
      BY <2>1 DEF Caller, sessionVars
    <3>2. \A i \in Jobs : pc'[i] = "parked" => pc[i] = "parked" \/ (conn = 0 /\ ~ready)
      BY <2>1 DEF Caller, CallerStep, Start, Acquire, Lookup, Wake, Submit, GiveUpEarly,
                  ReturnResult, GiveUp, MarkCanceled, SendHalt, Finish, Goto, TypeOK
    <3> QED
      BY <3>1, <3>2
  <2>2. ASSUME NEW g \in Gens, Connection(g) \/ Daemon(g) PROVE WakeupInv'
    BY <2>2 DEF Connection, Daemon, callerVars, sessionVars
  <2>3. CASE ConnLost
    BY <2>3 DEF ConnLost, callerVars
  <2>4. CASE SuperClosed \/ SuperEnd \/ SleepTimer \/ SleepClosed \/ DialFails
    BY <2>4 DEF SuperClosed, SuperEnd, SleepTimer, SleepClosed, DialFails, callerVars
  <2>5. CASE DialSucceeds
    <3>1. gen + 1 # 0
      BY DEF TypeOK, Gens
    <3> QED
      BY <2>5, <3>1 DEF DialSucceeds, Publish
  <2>6. CASE CloseStart \/ Closing
    BY <2>6 DEF CloseStart, Closing, CloseRead, CloseFail, CloseEnd, callerVars
  <2>7. CASE UNCHANGED vars
    BY <2>7 DEF vars, callerVars, sessionVars
  <2> QED
    BY <2>1, <2>2, <2>3, <2>4, <2>5, <2>6, <2>7 DEF Next, Supervise, AtRest
<1>3. WakeupInv => NoLostWakeup
  BY DEF WakeupInv
<1> QED
  BY <1>1, <1>2, <1>3, TypeCorrect, PTL DEF Spec
=============================================================================
