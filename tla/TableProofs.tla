---------------------------- MODULE TableProofs ----------------------------
(***************************************************************************)
(* No task is forgotten and no table entry is left over: every job is in   *)
(* one place between writeCh and the daemon's task list, its id is known   *)
(* in time, and a halt is on its way wherever one is due.  Proves          *)
(* CancelNotForgotten and IdTable of module Session.                       *)
(***************************************************************************)
EXTENDS ReplyProofs

(***************************************************************************)
(* The inductive invariant                                                 *)
(***************************************************************************)
(* A job is once in the write queue, in the writer's hands, in the socket, *)
(* or in the task list, and nowhere else.                                  *)
Once(s) == \A k, l \in DOMAIN s : s[k].of = s[l].of /\ s[k].of # Nil => k = l
Apart(g) ==
  /\ Once(writeCh[g]) /\ Once(toDaemon[g])
  /\ \A i, k \in DOMAIN tasks[g] : tasks[g][i] = tasks[g][k] => i = k
  /\ \A j \in Jobs :
       /\ j \in Names(writeCh[g]) => writer[g].req.of # j /\ j \notin Names(toDaemon[g])
       /\ writer[g].req.of = j => j \notin Names(toDaemon[g])
       /\ j \in Range(tasks[g]) => /\ j \notin Names(writeCh[g]) /\ writer[g].req.of # j
                                   /\ j \notin Names(toDaemon[g])

(* g has nothing left to do for j: no command on its way, no running task. *)
Over(g, j) ==
  /\ j \notin Names(writeCh[g]) /\ writer[g].req.of # j /\ j \notin Names(toDaemon[g])
  /\ \A i \in live[g] : tasks[g][i] # j

(* An answer, on its way or given, is the last thing about its job.        *)
Final(f) == f.t \in {"final", "garbage", "err"} /\ f.of # Nil
Ended(g) ==
  /\ \A f \in Range(toClient[g]) : Final(f) => Over(g, f.of)
  /\ \A j \in Jobs :
       ch[j] # None \/ (reader[g].pc \in {"found", "taken"} /\ reader[g].job = j) => Over(g, j)

(* "OK id-N" is the first frame with its id, and finds no entry of it.     *)
IdSent(g, i) == \E f \in Range(toClient[g]) : f.t = "okid" /\ f.id = i
OkFirst(s) == \A k, l \in DOMAIN s : l < k /\ s[k].t = "okid" => s[l].id # s[k].id
Fresh(g) == \A i \in Ids : IdSent(g, i) => /\ ids[g][i] = Nil
                                           /\ ~(reader[g].pc = "found" /\ reader[g].id = i)

(* The client learns the id of every task, and keeps it while it runs.     *)
IdKnown(g, i) ==
  \/ IdSent(g, i)
  \/ reader[g].pc = "bound" /\ reader[g].id = i
  \/ jid[tasks[g][i]] = i
Listed(g, i) == ids[g][i] = tasks[g][i] \/ IdSent(g, i)
Learned(g) == \A i \in live[g] : IdKnown(g, i) /\ Listed(g, i)

(* Nothing that ended without a result stays listed, unless it was halted. *)
ResultSent(g, i) ==
  \/ \E f \in Range(toClient[g]) : f.t \in {"final", "garbage"} /\ f.id = i
  \/ reader[g].pc = "found" /\ reader[g].id = i
Cleared(g) == \A i \in Ids : ids[g][i] # Nil \/ IdSent(g, i) =>
  i \in live[g] \/ ResultSent(g, i) \/ canceled[tasks[g][i]]

(* A task that was given up gets its halt.                                 *)
Stopping(g, i) ==
  \/ Halt(i) \in Orders(g)
  \/ IdSent(g, i)
  \/ reader[g].pc \in {"bound", "idset"} /\ reader[g].id = i
  \/ pc[tasks[g][i]] = "halt"
  \/ tasks[g][i] \in lostHalts
Chased(g) == \A i \in live[g] : canceled[tasks[g][i]] => Stopping(g, i)

Tidy(g) == Ended(g) /\ OkFirst(toClient[g]) /\ Fresh(g) /\ Learned(g) /\ Chased(g)
TableOf(g) ==
  /\ Apart(g)
  /\ state[g] = "open" => Tidy(g)
  /\ state[g] = "open" /\ peer[g] = "up" => Cleared(g)
(* halt sends an id only when there is one (Close again excepted).         *)
HaltKnown(j) == pc[j] = "halt" => jid[j] # 0 \/ (cur[j] \in Gens /\ cause[cur[j]] = "closed")
(* Only a connection that was dialled is published and used.               *)
Published ==
  /\ conn # 0 => state[conn] # "none"
  /\ \A j \in Jobs : cur[j] # 0 => state[cur[j]] # "none"
TableInv == (\A g \in Gens : TableOf(g)) /\ (\A j \in Jobs : HaltKnown(j)) /\ Published

(***************************************************************************)
(* Sequences of commands and frames                                        *)
(***************************************************************************)
LEMMA OnceTail ==
  ASSUME NEW s \in Seq(Commands), s # <<>>, Once(s)
  PROVE  Once(Tail(s)) /\ (Head(s).of # Nil => Head(s).of \notin Names(Tail(s)))
<1>1. /\ Len(s) \in Nat \ {0} /\ Head(s) = s[1] /\ DOMAIN s = 1..Len(s)
      /\ DOMAIN Tail(s) = 1..(Len(s) - 1)
      /\ \A k \in 1..(Len(s) - 1) : Tail(s)[k] = s[k + 1]
  BY TailFacts
<1>2. \A k \in DOMAIN Tail(s) : k \in Nat /\ k + 1 \in DOMAIN s /\ k + 1 # 1 /\ Tail(s)[k] = s[k + 1]
  BY <1>1
<1>3. Once(Tail(s))
  <2> SUFFICES ASSUME NEW k \in DOMAIN Tail(s), NEW l \in DOMAIN Tail(s),
                      Tail(s)[k].of = Tail(s)[l].of, Tail(s)[k].of # Nil
               PROVE  k = l
    BY DEF Once
  <2>1. k + 1 = l + 1
    BY <1>2 DEF Once
  <2> QED
    BY <1>2, <2>1
<1>4. 1 \in DOMAIN s
  BY <1>1
<1>5. \A k \in DOMAIN Tail(s) : Tail(s)[k].of = Head(s).of => Head(s).of = Nil
  BY <1>1, <1>2, <1>4 DEF Once
<1> QED
  BY <1>3, <1>5 DEF Names, Range

(* A job that is not in the queue may be appended to it.                   *)
LEMMA OnceAppend ==
  ASSUME NEW s \in Seq(Commands), NEW e \in Commands, Once(s), e.of = Nil \/ e.of \notin Names(s)
  PROVE  Once(Append(s, e))
<1>1. /\ Len(s) \in Nat /\ DOMAIN s = 1..Len(s) /\ DOMAIN Append(s, e) = 1..(Len(s) + 1)
      /\ \A k \in 1..Len(s) : Append(s, e)[k] = s[k]
      /\ Append(s, e)[Len(s) + 1] = e
  BY AppendFacts
<1>2. \A k \in DOMAIN s : s[k].of \in Names(s)
  BY DEF Names, Range
<1>3. \A k \in DOMAIN Append(s, e) : k \in DOMAIN s \/ k = Len(s) + 1
  BY <1>1
<1> QED
  BY <1>1, <1>2, <1>3 DEF Once

(* A first frame leaves no "OK" of the same id behind it.                  *)
LEMMA OkFirstTail ==
  ASSUME NEW s \in Seq(Frames), s # <<>>, OkFirst(s)
  PROVE  OkFirst(Tail(s)) /\ \A f \in Range(Tail(s)) : f.t = "okid" => f.id # Head(s).id
<1>1. /\ Len(s) \in Nat \ {0} /\ Head(s) = s[1] /\ DOMAIN s = 1..Len(s)
      /\ DOMAIN Tail(s) = 1..(Len(s) - 1)
      /\ \A k \in 1..(Len(s) - 1) : Tail(s)[k] = s[k + 1]
  BY TailFacts
<1>2. \A k \in DOMAIN Tail(s) : k \in Nat /\ k + 1 \in DOMAIN s /\ 1 < k + 1 /\ Tail(s)[k] = s[k + 1]
  BY <1>1
<1>3. 1 \in DOMAIN s
  BY <1>1
<1>4. \A k, l \in DOMAIN Tail(s) : l < k => l + 1 < k + 1
  BY <1>2
<1>5. OkFirst(Tail(s))
  BY <1>2, <1>4 DEF OkFirst
<1>6. \A k \in DOMAIN Tail(s) : Tail(s)[k].t = "okid" => Tail(s)[k].id # Head(s).id
  BY <1>1, <1>2, <1>3 DEF OkFirst
<1> QED
  BY <1>5, <1>6 DEF Range

(* A frame may follow all others unless it is the OK of an id they have.   *)
LEMMA OkFirstAppend ==
  ASSUME NEW s \in Seq(Frames), NEW f \in Frames, OkFirst(s),
         f.t = "okid" => \A e \in Range(s) : e.id # f.id
  PROVE  OkFirst(Append(s, f))
<1>1. /\ Len(s) \in Nat /\ DOMAIN s = 1..Len(s) /\ DOMAIN Append(s, f) = 1..(Len(s) + 1)
      /\ \A k \in 1..Len(s) : Append(s, f)[k] = s[k]
      /\ Append(s, f)[Len(s) + 1] = f
  BY AppendFacts
<1>2. \A k \in DOMAIN s : s[k] \in Range(s)
  BY DEF Range
<1>3. ASSUME NEW k \in DOMAIN Append(s, f), NEW l \in DOMAIN Append(s, f), l < k,
             Append(s, f)[k].t = "okid"
      PROVE  Append(s, f)[l].id # Append(s, f)[k].id
  <2>1. l \in DOMAIN s /\ Append(s, f)[l] = s[l]
    BY <1>1, <1>3
  <2>2. CASE k \in DOMAIN s
    BY <1>1, <1>3, <2>1, <2>2 DEF OkFirst
  <2>3. CASE k = Len(s) + 1
    BY <1>1, <1>2, <1>3, <2>1, <2>3
  <2> QED
    BY <1>1, <2>2, <2>3
<1> QED
  BY <1>3 DEF OkFirst

(***************************************************************************)
(* The way of the commands                                                 *)
(***************************************************************************)
(* What a step does to the commands and the tasks of g: it lets them be    *)
(* (or loses those in the socket with all tasks), queues one, hands one to *)
(* the writer, writes one, or has one answered.                            *)
Rests(g) ==
  /\ writeCh'[g] = writeCh[g] /\ tasks'[g] = tasks[g] /\ live'[g] \subseteq live[g]
  /\ \/ writer'[g] = writer[g]
     \/ writer'[g].req.of = Nil /\ writer'[g].pc # "write" /\ state'[g] # "open"
  /\ toDaemon'[g] = toDaemon[g] \/ (toDaemon'[g] = <<>> /\ live'[g] = {})
Queues(g, c) ==
  /\ c.of = Nil \/ (pc[c.of] \notin Late /\ c.of \in Jobs)
  /\ writeCh'[g] = Append(writeCh[g], c) /\ tasks'[g] = tasks[g] /\ live'[g] = live[g]
  /\ writer'[g] = writer[g] /\ toDaemon'[g] = toDaemon[g]
HandsOver(g) ==
  /\ writeCh[g] # <<>> /\ writeCh'[g] = Tail(writeCh[g])
  /\ writer[g].pc # "write" /\ writer'[g] = [pc |-> "write", req |-> Head(writeCh[g])]
  /\ tasks'[g] = tasks[g] /\ live'[g] = live[g] /\ toDaemon'[g] = toDaemon[g]
Writes(g) ==
  /\ writer[g].pc = "write" /\ toDaemon'[g] = Append(toDaemon[g], writer[g].req)
  /\ writer'[g] = WriterIdle
  /\ writeCh'[g] = writeCh[g] /\ tasks'[g] = tasks[g] /\ live'[g] = live[g]
Obeys(g) ==
  /\ toDaemon[g] # <<>> /\ toDaemon'[g] = Tail(toDaemon[g])
  /\ writeCh'[g] = writeCh[g] /\ writer'[g] = writer[g]
  /\ Head(toDaemon[g]).t = "halt" => Head(toDaemon[g]).id \notin live'[g]
  /\ \/ tasks'[g] = tasks[g] /\ live'[g] \subseteq live[g]
     \/ /\ Head(toDaemon[g]).of \in Jobs /\ tasks'[g] = Append(tasks[g], Head(toDaemon[g]).of)
        /\ live'[g] = live[g] \cup {Len(tasks[g]) + 1}
Flows(g) == Rests(g) \/ (\E c \in Commands : Queues(g, c)) \/ HandsOver(g) \/ Writes(g) \/ Obeys(g)

(* The names that a step moves from one place to the next.                 *)
LEMMA PlaceFacts ==
  ASSUME NEW g \in Gens, TypeOK
  PROVE  /\ writeCh[g] # <<>> => /\ Head(writeCh[g]) \in Commands
                                 /\ Names(writeCh[g]) = {Head(writeCh[g]).of} \cup Names(Tail(writeCh[g]))
         /\ toDaemon[g] # <<>> => /\ Head(toDaemon[g]) \in Commands
                                  /\ Names(toDaemon[g]) = {Head(toDaemon[g]).of} \cup Names(Tail(toDaemon[g]))
         /\ Names(Append(toDaemon[g], writer[g].req)) = Names(toDaemon[g]) \cup {writer[g].req.of}
         /\ \A c \in Commands : Names(Append(writeCh[g], c)) = Names(writeCh[g]) \cup {c.of}
         /\ \A j \in Jobs : Range(Append(tasks[g], j)) = Range(tasks[g]) \cup {j}
         /\ Names(<<>>) = {}
<1>1. /\ writeCh[g] \in Seq(Commands) /\ toDaemon[g] \in Seq(Commands) /\ writer[g].req \in Commands
      /\ tasks[g] \in Seq(Jobs)
  BY LinkTypes
<1>2. \A c \in Commands : Names(Append(writeCh[g], c)) = Names(writeCh[g]) \cup {c.of}
  BY <1>1, NamesFacts
<1>3. Names(Append(toDaemon[g], writer[g].req)) = Names(toDaemon[g]) \cup {writer[g].req.of}
  BY <1>1, NamesFacts
<1>4. \A j \in Jobs : Range(Append(tasks[g], j)) = Range(tasks[g]) \cup {j}
  BY <1>1, RangeFacts
<1>5. Names(<<>>) = {}
  BY DEF Names, Range
<1> QED
  BY <1>2, <1>3, <1>4, <1>5, QueueFacts

(* Writer, reader and fail move commands along, or lose them.              *)
LEMMA ConnFlows ==
  ASSUME NEW g \in Gens, TypeOK, ConnStep(g)
  PROVE  Flows(g)
<1>0. WriterStopped.req.of = Nil /\ WriterStopped.pc = "stopped"
  BY DEF WriterStopped, Halt
<1>1. CASE WriterTake(g)
  BY <1>1 DEF WriterTake, Flows, HandsOver, socketVars, TypeOK, ConnTypeOK
<1>2. CASE WriterSend(g)
  BY <1>2 DEF WriterSend, Transmit, Flows, Writes, TypeOK, ConnTypeOK, SocketTypeOK
<1>3. CASE WriterQuit(g)
  <2>1. writer'[g] = WriterStopped /\ state'[g] # "open"
    BY <1>3 DEF WriterQuit, dead, TypeOK, ConnTypeOK
  <2> QED
    BY <1>0, <1>3, <2>1 DEF WriterQuit, Flows, Rests, socketVars
<1>4. ASSUME NEW why, Fail(g, why), writeCh' = writeCh,
             writer'[g] = writer[g] \/ writer'[g] = WriterStopped
      PROVE  Flows(g)
  <2>1. state'[g] # "open"
    BY <1>4, FailNotOpen
  <2>2. CASE state[g] = "open"
    <3>1. toDaemon'[g] = <<>> /\ live'[g] = {} /\ tasks'[g] = tasks[g] /\ writeCh'[g] = writeCh[g]
      BY <1>4, <2>2 DEF Fail, CloseSocket, TypeOK, SocketTypeOK
    <3> QED
      BY <1>0, <1>4, <2>1, <3>1 DEF Flows, Rests
  <2>3. CASE state[g] # "open"
    <3>1. toDaemon'[g] = toDaemon[g] /\ live'[g] = live[g] /\ tasks'[g] = tasks[g]
      BY <1>4, <2>3 DEF Fail, socketVars
    <3> QED
      BY <1>0, <1>4, <2>1, <3>1 DEF Flows, Rests
  <2> QED
    BY <2>2, <2>3
<1>5. CASE WriterError(g) \/ ReadBad(g) \/ ReadEnd(g)
  <2>1. PICK why : /\ Fail(g, why) /\ writeCh' = writeCh
                   /\ writer'[g] = writer[g] \/ writer'[g] = WriterStopped
    BY <1>5 DEF WriterError, ReadBad, ReadEnd, TypeOK, ConnTypeOK
  <2> QED
    BY <1>4, <2>1
<1>6. ASSUME UNCHANGED <<writeCh, writer, toDaemon, tasks, live>> PROVE Flows(g)
  BY <1>6 DEF Flows, Rests
<1>7. CASE FailStep(g) \/ SetId(g) \/ TakeData(g) \/ ReadDeliver(g) \/ ReadSend(g)
  BY <1>6, <1>7 DEF FailStep, FailDeliver, FailSend, FailDone, SetId, TakeData, ReadDeliver,
                    ReadSend, socketVars
<1>8. CASE ReadOkId(g) \/ ReadHalted(g) \/ ReadErr(g) \/ ReadData(g) \/ ReadNoise(g)
  BY <1>6, <1>8 DEF ReadOkId, ReadHalted, ReadErr, ReadData, ReadNoise, Consume, connVars
<1>9. CASE HaltIfCanceled(g)
  <2>1. UNCHANGED <<writer, toDaemon, tasks, live>>
    BY <1>9 DEF HaltIfCanceled, socketVars
  <2>2. writeCh' = writeCh \/ writeCh'[g] = Append(writeCh[g], Halt(reader[g].id))
    BY <1>9 DEF HaltIfCanceled, EnqueueHalt, TypeOK, ConnTypeOK
  <2>3. reader[g].id \in Nat
    BY DEF TypeOK, ConnTypeOK, Ids
  <2>4. Halt(reader[g].id).of = Nil /\ Halt(reader[g].id) \in Commands
    BY <2>3 DEF Halt, Commands
  <2> QED
    BY <1>6, <2>1, <2>2, <2>4 DEF Flows, Queues
<1> QED
  BY <1>1, <1>2, <1>3, <1>5, <1>7, <1>8, <1>9 DEF ConnStep, WriterStep, ReaderStep, Read

(* A caller puts its own job into the write queue, once.                   *)
LEMMA CallerFlows ==
  ASSUME NEW g \in Gens, TypeOK, NEW j \in Jobs, Caller(j)
  PROVE  Flows(g)
<1>1. UNCHANGED <<writer, toDaemon, tasks, live>>
  BY DEF Caller, socketVars
<1>2. CASE writeCh'[g] = writeCh[g]
  BY <1>1, <1>2 DEF Flows, Rests
<1>3. CASE Submit(j) /\ writeCh' = [writeCh EXCEPT ![cur[j]] = Append(@, Trace(j))]
  <2>1. writeCh'[g] = writeCh[g] \/ writeCh'[g] = Append(writeCh[g], Trace(j))
    BY <1>3 DEF TypeOK, ConnTypeOK
  <2>2. Trace(j) \in Commands /\ Trace(j).of = j /\ pc[j] \notin Late
    BY <1>3 DEF Submit, Trace, Commands, Late
  <2> QED
    BY <1>1, <1>2, <2>1, <2>2 DEF Flows, Queues
<1>4. CASE SendHalt(j)
  <2>1. writeCh'[g] = writeCh[g] \/ writeCh'[g] = Append(writeCh[g], Halt(jid[j]))
    BY <1>4 DEF SendHalt, EnqueueHalt, TypeOK, ConnTypeOK
  <2>2. Halt(jid[j]) \in Commands /\ Halt(jid[j]).of = Nil
    BY DEF Halt, Commands, TypeOK, ConnTypeOK, Ids
  <2> QED
    BY <1>1, <1>2, <2>1, <2>2 DEF Flows, Queues
<1> QED
  BY <1>2, <1>3, <1>4
  DEF Caller, CallerStep, Start, Acquire, Lookup, Wake, Submit, GiveUpEarly, ReturnResult, GiveUp,
      MarkCanceled, Finish

(* So every step moves the commands of a connection as Flows says.         *)
LEMMA FlowStep ==
  ASSUME NEW g \in Gens, TypeOK, LifeInv, [Next]_vars
  PROVE  Flows(g)
<1>1. CASE Connection(g)
  BY <1>1, ConnFlows DEF Connection
<1>2. CASE Daemon(g)
  <2>1. DaemonMoves(g) /\ UNCHANGED <<writeCh, writer>>
    BY <1>2, DaemonFacts DEF Daemon, connVars
  <2>2. CASE Leaves(g) \/ (\E i \in live[g], kind \in DataKinds : Sends(g, i, kind))
             \/ (\E kind \in {"noise", "bad"} : Chatters(g, kind))
    BY <2>1, <2>2 DEF Leaves, Sends, Chatters, Link, Flows, Rests
  <2>3. toDaemon[g] # <<>> => Head(toDaemon[g]) \in Commands
    BY PlaceFacts
  <2>4. CASE Accepts(g)
    <3>1. Head(toDaemon[g]).t # "halt"
      BY <2>3, <2>4, SocketAssumption DEF Accepts, Commands
    <3> QED
      BY <2>1, <2>4, <3>1 DEF Accepts, Link, Flows, Obeys
  <2>5. CASE Rejects(g) \/ \E kind \in {"halted", "err"} : Halts(g, kind)
    BY <2>1, <2>5 DEF Rejects, Halts, Link, Flows, Obeys
  <2> QED
    BY <2>1, <2>2, <2>4, <2>5 DEF DaemonMoves
<1>3. CASE ClosedBy(g)
  <2>1. /\ UNCHANGED <<writeCh, writer>> /\ Fail(g, "closed")
    BY <1>3 DEF ClosedBy
  <2> QED
    BY <2>1 DEF Fail, CloseSocket, Flows, Rests, socketVars, TypeOK, SocketTypeOK
<1>4. ASSUME NEW j \in Jobs, Caller(j) PROVE Flows(g)
  BY <1>4, CallerFlows
<1>5. CASE Dialled(g) \/ Untouched(g)
  BY <1>5 DEF Dialled, Untouched, Flows, Rests
<1> QED
  BY <1>1, <1>2, <1>3, <1>4, <1>5, StepActsOn DEF ActsOn

(***************************************************************************)
(* Every job in one place                                                  *)
(***************************************************************************)
(* A job still on its caller's side of the submit is nowhere.              *)
LEMMA UnknownFacts ==
  ASSUME NEW g \in Gens, TypeOK, NEW j \in Jobs, j \notin Known(g)
  PROVE  /\ j \notin Names(writeCh[g]) /\ writer[g].req.of # j /\ j \notin Names(toDaemon[g])
         /\ j \notin Range(tasks[g]) /\ j \notin Names(toClient[g]) /\ reader[g].job # j
         /\ j \notin victims[g]
BY DEF Known

(* A connection has nothing left to do for a job it does not know.         *)
LEMMA UnknownOver ==
  ASSUME NEW g \in Gens, TypeOK, NEW j \in Jobs, j \notin Known(g)
  PROVE  Over(g, j)
<1>1. \A i \in live[g] : tasks[g][i] \in Range(tasks[g])
  BY DEF TypeOK, SocketTypeOK, Range
<1> QED
  BY <1>1, UnknownFacts DEF Over

(* A job that was not submitted is unknown to all connections.             *)
LEMMA NotLateUnknown ==
  ASSUME NEW g \in Gens, OwnedInv, NEW j \in Jobs, pc[j] \notin Late
  PROVE  j \notin Known(g)
BY SocketAssumption DEF OwnedInv, Owned

(* A job that has no task may get one.                                     *)
LEMMA Distinct ==
  ASSUME NEW g \in Gens, TypeOK, NEW j \in Jobs, j \notin Range(tasks[g]),
         \A i, k \in DOMAIN tasks[g] : tasks[g][i] = tasks[g][k] => i = k,
         tasks'[g] = Append(tasks[g], j)
  PROVE  \A i, k \in DOMAIN tasks'[g] : tasks'[g][i] = tasks'[g][k] => i = k
<1>1. /\ DOMAIN tasks[g] = 1..Len(tasks[g]) /\ DOMAIN tasks'[g] = 1..(Len(tasks[g]) + 1)
      /\ Len(tasks[g]) \in Nat
      /\ \A k \in 1..Len(tasks[g]) : tasks'[g][k] = tasks[g][k]
      /\ tasks'[g][Len(tasks[g]) + 1] = j
  BY LinkTypes, AppendFacts
<1>2. \A k \in DOMAIN tasks[g] : tasks[g][k] # j
  BY DEF Range
<1>3. \A k \in DOMAIN tasks'[g] : k \in DOMAIN tasks[g] \/ k = Len(tasks[g]) + 1
  BY <1>1
<1> QED
  BY <1>1, <1>2, <1>3

(* A job moves from one place to the next and is never in two.             *)
LEMMA ApartStep ==
  ASSUME NEW g \in Gens, TypeOK, LifeInv, OwnedInv, [Next]_vars, Apart(g)
  PROVE  Apart(g)'
<1>1. /\ writeCh[g] \in Seq(Commands) /\ toDaemon[g] \in Seq(Commands) /\ writer[g].req \in Commands
  BY LinkTypes
<1>2. Once(writeCh[g]) /\ Once(toDaemon[g])
  BY DEF Apart
<1>3. Nil \notin Jobs
  BY SocketAssumption
<1>4. CASE Rests(g)
  <2>1. Once(<<>>) /\ Names(<<>>) = {}
    BY PlaceFacts DEF Once
  <2>2. toDaemon'[g] = toDaemon[g] \/ toDaemon'[g] = <<>>
    BY <1>4 DEF Rests
  <2>3. writer'[g].req.of \in {writer[g].req.of, Nil}
    BY <1>4 DEF Rests
  <2> QED
    BY <1>3, <1>4, <2>1, <2>2, <2>3 DEF Rests, Apart
<1>5. ASSUME NEW c \in Commands, Queues(g, c) PROVE Apart(g)'
  <2>1. c.of = Nil \/ (c.of \in Jobs /\ c.of \notin Known(g))
    BY <1>5, NotLateUnknown DEF Queues
  <2>2. c.of = Nil \/ (/\ c.of \notin Names(writeCh[g]) /\ writer[g].req.of # c.of
                       /\ c.of \notin Names(toDaemon[g]) /\ c.of \notin Range(tasks[g]))
    BY <2>1, UnknownFacts
  <2>3. Once(Append(writeCh[g], c)) /\ Names(Append(writeCh[g], c)) = Names(writeCh[g]) \cup {c.of}
    BY <1>1, <1>2, <2>2, OnceAppend, PlaceFacts
  <2> QED
    BY <1>3, <1>5, <2>2, <2>3 DEF Queues, Apart
<1>6. CASE HandsOver(g)
  <2>1. /\ Names(writeCh[g]) = {Head(writeCh[g]).of} \cup Names(Tail(writeCh[g]))
        /\ Once(Tail(writeCh[g]))
        /\ Head(writeCh[g]).of # Nil => Head(writeCh[g]).of \notin Names(Tail(writeCh[g]))
    BY <1>1, <1>2, <1>6, PlaceFacts, OnceTail DEF HandsOver
  <2>2. writer'[g].req = Head(writeCh[g]) /\ writeCh'[g] = Tail(writeCh[g])
        /\ toDaemon'[g] = toDaemon[g] /\ tasks'[g] = tasks[g]
    BY <1>6 DEF HandsOver
  <2> QED
    BY <1>3, <2>1, <2>2 DEF Apart
<1>7. CASE Writes(g)
  <2>1. writer[g].req.of = Nil \/ writer[g].req.of \notin Names(toDaemon[g])
    <3>1. writer[g].req.of \in Jobs \cup {Nil}
      BY <1>1 DEF Commands
    <3> QED
      BY <3>1 DEF Apart
  <2>2. /\ Once(Append(toDaemon[g], writer[g].req))
        /\ Names(Append(toDaemon[g], writer[g].req)) = Names(toDaemon[g]) \cup {writer[g].req.of}
    BY <1>1, <1>2, <2>1, OnceAppend, PlaceFacts
  <2>3. writer'[g].req.of = Nil /\ writeCh'[g] = writeCh[g] /\ tasks'[g] = tasks[g]
        /\ toDaemon'[g] = Append(toDaemon[g], writer[g].req)
    BY <1>7 DEF Writes, WriterIdle, Halt
  <2> QED
    BY <1>3, <2>2, <2>3 DEF Apart
<1>8. CASE Obeys(g)
  <2> DEFINE j == Head(toDaemon[g]).of
  <2>1. /\ Names(toDaemon[g]) = {j} \cup Names(Tail(toDaemon[g]))
        /\ Once(Tail(toDaemon[g])) /\ (j # Nil => j \notin Names(Tail(toDaemon[g])))
    BY <1>1, <1>2, <1>8, PlaceFacts, OnceTail DEF Obeys
  <2>2. writer'[g] = writer[g] /\ writeCh'[g] = writeCh[g] /\ toDaemon'[g] = Tail(toDaemon[g])
    BY <1>8 DEF Obeys
  <2>3. CASE tasks'[g] = tasks[g]
    BY <1>3, <2>1, <2>2, <2>3 DEF Apart
  <2>4. CASE j \in Jobs /\ tasks'[g] = Append(tasks[g], j)
    <3>0. j \in Names(toDaemon[g])
      BY <2>1
    <3> HIDE DEF j
    <3>1. j \notin Range(tasks[g]) /\ j \notin Names(writeCh[g]) /\ writer[g].req.of # j
      BY <2>4, <3>0 DEF Apart
    <3>2. Range(tasks'[g]) = Range(tasks[g]) \cup {j}
      BY <2>4, PlaceFacts
    <3>3. \A i, k \in DOMAIN tasks'[g] : tasks'[g][i] = tasks'[g][k] => i = k
      BY <2>4, <3>1, Distinct DEF Apart
    <3>4. Once(writeCh'[g]) /\ Once(toDaemon'[g])
      BY <1>2, <2>1, <2>2
    <3>5. ASSUME NEW i \in Jobs
          PROVE  /\ i \in Names(writeCh'[g]) => writer'[g].req.of # i /\ i \notin Names(toDaemon'[g])
                 /\ writer'[g].req.of = i => i \notin Names(toDaemon'[g])
                 /\ i \in Range(tasks'[g]) => /\ i \notin Names(writeCh'[g]) /\ writer'[g].req.of # i
                                              /\ i \notin Names(toDaemon'[g])
      BY <1>3, <2>1, <2>2, <2>4, <3>1, <3>2 DEF Apart
    <3> QED
      BY <3>3, <3>4, <3>5 DEF Apart
  <2> QED
    BY <1>8, <2>3, <2>4 DEF Obeys
<1> QED
  BY <1>4, <1>5, <1>6, <1>7, <1>8, FlowStep DEF Flows

(* What is over stays over: a job is submitted once.                       *)
LEMMA OverStays ==
  ASSUME NEW g \in Gens, TypeOK, LifeInv, [Next]_vars, NEW j \in Jobs, pc[j] \in Late, Over(g, j)
  PROVE  Over(g, j)'
<1>1. \A i \in live[g] : i \in DOMAIN tasks[g]
  BY DEF TypeOK, SocketTypeOK
<1>2. j # Nil
  BY SocketAssumption
<1>3. CASE Rests(g)
  BY <1>2, <1>3, PlaceFacts DEF Rests, Over
<1>4. ASSUME NEW c \in Commands, Queues(g, c) PROVE Over(g, j)'
  <2>1. c.of # j
    BY <1>2, <1>4 DEF Queues
  <2>2. Names(writeCh'[g]) = Names(writeCh[g]) \cup {c.of}
    BY <1>4, PlaceFacts DEF Queues
  <2>3. /\ tasks'[g] = tasks[g] /\ live'[g] = live[g] /\ writer'[g] = writer[g]
        /\ toDaemon'[g] = toDaemon[g]
    BY <1>4 DEF Queues
  <2> QED
    BY <2>1, <2>2, <2>3 DEF Over
<1>5. CASE HandsOver(g)
  BY <1>5, PlaceFacts DEF HandsOver, Over
<1>6. CASE Writes(g)
  <2>1. Names(toDaemon'[g]) = Names(toDaemon[g]) \cup {writer[g].req.of}
    BY <1>6, PlaceFacts DEF Writes
  <2>2. /\ writer'[g].req.of = Nil /\ writeCh'[g] = writeCh[g] /\ tasks'[g] = tasks[g]
        /\ live'[g] = live[g]
    BY <1>6 DEF Writes, WriterIdle, Halt
  <2> QED
    BY <1>2, <2>1, <2>2 DEF Over
<1>7. CASE Obeys(g)
  <2>1. /\ j \notin Names(Tail(toDaemon[g])) /\ Head(toDaemon[g]).of # j
        /\ writer'[g] = writer[g] /\ writeCh'[g] = writeCh[g] /\ toDaemon'[g] = Tail(toDaemon[g])
    BY <1>7, PlaceFacts DEF Obeys, Over
  <2>2. CASE tasks'[g] = tasks[g] /\ live'[g] \subseteq live[g]
    BY <2>1, <2>2 DEF Over
  <2>3. CASE /\ Head(toDaemon[g]).of \in Jobs /\ tasks'[g] = Append(tasks[g], Head(toDaemon[g]).of)
             /\ live'[g] = live[g] \cup {Len(tasks[g]) + 1}
    <3>1. /\ DOMAIN tasks[g] = 1..Len(tasks[g])
          /\ \A k \in 1..Len(tasks[g]) : tasks'[g][k] = tasks[g][k]
          /\ tasks'[g][Len(tasks[g]) + 1] = Head(toDaemon[g]).of
      BY <2>3, LinkTypes, AppendFacts
    <3> QED
      BY <1>1, <2>1, <2>3, <3>1 DEF Over
  <2> QED
    BY <1>7, <2>2, <2>3 DEF Obeys
<1> QED
  BY <1>3, <1>4, <1>5, <1>6, <1>7, FlowStep DEF Flows

(***************************************************************************)
(* What a step does to the stream, the id table and the reader             *)
(***************************************************************************)
Ground == TypeOK /\ LifeInv /\ OwnedInv /\ AlignInv /\ DeliveryInv

Reads(g) == reader[g].pc = "idle" /\ toClient[g] # <<>> /\ toClient'[g] = Tail(toClient[g])

(* The reader handles a frame ...                                          *)
Binds(g) ==
  /\ Reads(g) /\ frame(g).t = "okid"
  /\ ids'[g] = [ids[g] EXCEPT ![frame(g).id] = frame(g).of]
  /\ reader'[g].pc = "bound" /\ reader'[g].id = frame(g).id
Skips(g) ==
  /\ Reads(g) /\ frame(g).t # "okid"
  /\ frame(g).t \in {"final", "garbage"} => ids[g][frame(g).id] = Nil
  /\ UNCHANGED <<ids[g], reader[g]>>
Refuses(g) ==
  /\ Reads(g) /\ frame(g).t = "err" /\ frame(g).of # Nil
  /\ reader'[g].pc = "taken" /\ reader'[g].job = frame(g).of /\ ids'[g] = ids[g]
Finds(g) ==
  /\ Reads(g) /\ frame(g).t \in {"final", "garbage"}
  /\ reader'[g].pc = "found" /\ reader'[g].job = frame(g).of /\ reader'[g].id = frame(g).id
  /\ ids'[g] = ids[g]

(* ... or goes on with one, or is not concerned.                           *)
Learns(g) ==
  /\ reader[g].pc = "bound" /\ jid'[reader[g].job] = reader[g].id
  /\ reader'[g].pc = "idset" /\ reader'[g].id = reader[g].id
  /\ UNCHANGED <<toClient[g], ids[g]>>
Asks(g) ==
  /\ reader[g].pc = "idset" /\ reader'[g].pc = "idle"
  /\ canceled[reader[g].job] => Halt(reader[g].id) \in Orders(g)' \/ reader[g].job \in lostHalts'
  /\ UNCHANGED <<toClient[g], ids[g]>>
Takes(g) ==
  /\ reader[g].pc = "found" /\ reader'[g].pc = "taken" /\ reader'[g].job = reader[g].job
  /\ ids'[g] = [ids[g] EXCEPT ![reader[g].id] = Nil] /\ toClient'[g] = toClient[g]
Delivers(g) ==
  /\ reader[g].pc \in {"taken", "send"} /\ reader'[g].pc \in {"send", "idle"}
  /\ UNCHANGED <<toClient[g], ids[g]>>
Calm(g) == UNCHANGED <<toClient[g], ids[g], reader[g]>>

ReaderMoves(g) ==
  \/ Binds(g) \/ Skips(g) \/ Refuses(g) \/ Finds(g)
  \/ Learns(g) \/ Asks(g) \/ Takes(g) \/ Delivers(g) \/ Calm(g)
Acts(g) ==
  \/ DaemonMoves(g) /\ UNCHANGED <<ids, reader, writeCh, writer, jid, canceled>>
  \/ ReaderMoves(g) /\ UNCHANGED <<tasks[g], live[g], peer[g]>>

(* What is known of an open connection.                                    *)
LEMMA OpenFacts ==
  ASSUME NEW g \in Gens, Ground, state[g] = "open"
  PROVE  /\ cause[g] = "none" /\ victims[g] = {}
         /\ InOrder(g) /\ Lawful(g) /\ HaltsTrue(g) /\ FramesTrue(g)
<1>1. cause[g] = "none" /\ victims[g] = {}
  BY DEF Ground, LifeInv, LifeOf
<1> QED
  BY <1>1 DEF Ground, AlignInv, DeliveryInv, DeliveryOf

(* Every id that occurs is that of a task, whose job is known.             *)
LEMMA TaskFacts ==
  ASSUME NEW g \in Gens, Ground, NEW i \in DOMAIN tasks[g]
  PROVE  /\ tasks[g][i] \in Jobs /\ tasks[g][i] \in Known(g)
         /\ tasks[g][i] # Nil /\ Owned(g, tasks[g][i])
<1>1. tasks[g][i] \in Jobs
  BY DEF Ground, TypeOK, SocketTypeOK
<1>2. tasks[g][i] \in Known(g)
  BY DEF Known, Range
<1> QED
  BY <1>1, <1>2, SocketAssumption DEF Ground, OwnedInv

(* What DeliveryInv says on an open connection: ids name tasks.            *)
LEMMA IdFacts ==
  ASSUME NEW g \in Gens, Ground, state[g] = "open"
  PROVE  /\ \A i \in Ids : ids[g][i] # Nil => i \in DOMAIN tasks[g]
         /\ \A i \in Ids : IdSent(g, i) => i \in DOMAIN tasks[g]
         /\ \A i \in live[g] : i \in DOMAIN tasks[g] /\ i \in Ids
         /\ reader[g].pc \in {"bound", "idset", "found"} =>
              reader[g].id \in DOMAIN tasks[g] /\ reader[g].job = tasks[g][reader[g].id]
         /\ \A f \in Range(toClient[g]) : f.t \in {"okid"} \cup DataKinds =>
              f.id \in DOMAIN tasks[g] /\ f.of = tasks[g][f.id]
<1>1. TableTrue(g) /\ ReaderTrue(g) /\ FramesTrue(g)
  BY OpenFacts DEF Lawful
<1>2. \A i \in live[g] : i \in DOMAIN tasks[g] /\ i \in Ids
  BY DEF Ground, TypeOK, SocketTypeOK
<1> QED
  BY <1>1, <1>2 DEF TableTrue, ReaderTrue, FramesTrue, IsTask, IdSent

(* enqueueHalt leaves the halt in the queue or reports it lost.            *)
LEMMA HaltHandedOver ==
  ASSUME NEW g \in Gens, TypeOK, NEW h, NEW i \in Nat, NEW j, EnqueueHalt(h, i, j), h = g
  PROVE  Halt(i) \in Orders(g)' \/ j \in lostHalts'
<1>1. CASE writeCh' = [writeCh EXCEPT ![h] = Append(@, Halt(i))]
  <2>1. writeCh'[g] = Append(writeCh[g], Halt(i))
    BY <1>1 DEF TypeOK, ConnTypeOK
  <2>2. Halt(i) \in Commands /\ writeCh[g] \in Seq(Commands)
    BY LinkTypes DEF Halt, Commands
  <2>3. Range(Append(writeCh[g], Halt(i))) = Range(writeCh[g]) \cup {Halt(i)}
    BY <2>2, RangeFacts
  <2>4. Halt(i) \in Range(writeCh'[g])
    BY <2>1, <2>3
  <2> QED
    BY <2>4 DEF Orders
<1>2. CASE lostHalts' = lostHalts \cup {j}
  BY <1>2
<1> QED
  BY <1>1, <1>2 DEF EnqueueHalt

(* What writer and reader may do to the id table of an open connection.    *)
LEMMA ConnActs ==
  ASSUME NEW g \in Gens, Ground, ConnStep(g), state[g] = "open", state'[g] = "open"
  PROVE  ReaderMoves(g)
<1> USE DEF ReaderMoves
<1>1. TypeOK /\ LifeInv /\ InOrder(g) /\ Lawful(g) /\ FramesTrue(g)
  BY OpenFacts DEF Ground
<1>2. CASE WriterTake(g) \/ WriterSend(g) \/ WriterQuit(g) \/ FailStep(g)
  BY <1>2 DEF WriterTake, WriterSend, Transmit, WriterQuit, FailStep, FailDeliver, FailSend,
              FailDone, socketVars, Calm
<1>3. CASE WriterError(g) \/ ReadBad(g) \/ ReadEnd(g)
  BY <1>1, <1>3, FailNotOpen DEF WriterError, ReadBad, ReadEnd
<1>4. ASSUME NEW kinds, Receive(g, kinds), Consume(g)
      PROVE  Reads(g) /\ frame(g).t \in kinds /\ frame(g) \in Range(toClient[g]) /\ frame(g) \in Frames
  <2>1. toClient[g] # <<>> /\ frame(g) = Head(toClient[g])
    BY <1>4 DEF Receive, frame
  <2>2. toClient'[g] = Tail(toClient[g])
    BY <1>1, <1>4 DEF Consume, TypeOK, SocketTypeOK
  <2>3. frame(g) \in Range(toClient[g]) /\ frame(g) \in Frames
    BY <1>1, <2>1, LinkTypes, RangeFacts
  <2> QED
    BY <1>4, <2>2, <2>3 DEF Reads, Receive
<1>5. CASE ReadOkId(g)
  <2>1. Receive(g, {"okid"}) /\ Consume(g)
    BY <1>5 DEF ReadOkId
  <2>2. Reads(g) /\ frame(g).t = "okid" /\ frame(g) \in Frames /\ frame(g) \in Range(toClient[g])
    BY <1>4, <2>1
  <2>3. frame(g).of # Nil /\ frame(g).of \in Jobs
    BY <2>2, SocketAssumption DEF Frames, DataKinds
  <2>4. replyQ[g] # <<>> /\ Head(replyQ[g]) = frame(g).of
    BY <1>1, <2>2, LinkTypes, FrameRead DEF InOrder, frame, ReplyKinds, Reads
  <2>5. PICK m : m = frame(g).of
    OBVIOUS
  <2>6. NextReply(g) = m /\ m # Nil
    BY <2>3, <2>4, <2>5 DEF NextReply
  <2>7. PICK n : n = frame(g).id
    OBVIOUS
  <2>8. ids' = [ids EXCEPT ![g][n] = m]
        /\ reader' = [reader EXCEPT ![g] = [pc |-> "bound", job |-> m, id |-> n, res |-> None]]
    BY <1>5, <2>6, <2>7 DEF ReadOkId
  <2>9. ids'[g] = [ids[g] EXCEPT ![n] = m] /\ reader'[g].pc = "bound" /\ reader'[g].id = n
    BY <1>1, <2>8 DEF TypeOK, ConnTypeOK
  <2> QED
    BY <2>2, <2>5, <2>7, <2>9 DEF Binds
<1>6. CASE ReadHalted(g) \/ ReadNoise(g)
  <2>1. PICK kinds \in {{"halted"}, {"noise"}} : Receive(g, kinds) /\ Consume(g) /\ UNCHANGED <<ids, reader>>
    BY <1>6 DEF ReadHalted, ReadNoise, connVars
  <2>2. Reads(g) /\ frame(g).t \in kinds
    BY <1>4, <2>1
  <2> QED
    BY <2>1, <2>2 DEF Skips
<1>7. CASE ReadErr(g)
  <2>1. Receive(g, {"err"}) /\ Consume(g) /\ UNCHANGED ids
    BY <1>7 DEF ReadErr
  <2>2. Reads(g) /\ frame(g).t = "err"
    BY <1>4, <2>1
  <2>3. CASE NextReply(g) = Nil
    BY <1>7, <2>1, <2>2, <2>3 DEF ReadErr, Skips
  <2>4. CASE NextReply(g) # Nil
    <3>1. NextReply(g) = frame(g).of
      BY <1>1, <2>1, <2>2, <2>4, HeadReply DEF ReplyKinds, Lawful
    <3>2. reader'[g].pc = "taken" /\ reader'[g].job = NextReply(g)
      BY <1>1, <1>7, <2>4 DEF ReadErr, TypeOK, ConnTypeOK
    <3> QED
      BY <2>1, <2>2, <2>4, <3>1, <3>2 DEF Refuses
  <2> QED
    BY <2>3, <2>4
<1>8. CASE ReadData(g)
  <2>1. Receive(g, DataKinds) /\ Consume(g) /\ UNCHANGED ids
    BY <1>8 DEF ReadData
  <2>2. Reads(g) /\ frame(g).t \in DataKinds /\ frame(g) \in Frames /\ frame(g) \in Range(toClient[g])
    BY <1>4, <2>1
  <2>3. PICK n, j : n = frame(g).id /\ j = ids[g][n]
    OBVIOUS
  <2>4. CASE j = Nil \/ frame(g).t = "inprogress"
    <3>1. UNCHANGED reader
      BY <1>8, <2>3, <2>4 DEF ReadData
    <3> QED
      BY <2>1, <2>2, <2>3, <2>4, <3>1 DEF Skips, DataKinds
  <2>5. CASE ~(j = Nil \/ frame(g).t = "inprogress")
    <3>1. reader'[g].pc = "found" /\ reader'[g].job = j /\ reader'[g].id = n
      BY <1>1, <1>8, <2>3, <2>5 DEF ReadData, TypeOK, ConnTypeOK
    <3>2. n \in Ids
      BY <2>2, <2>3 DEF DataKinds, Frames
    <3>3. IsTask(g, n, j) /\ IsTask(g, n, frame(g).of)
      BY <1>1, <2>2, <2>3, <2>5, <3>2 DEF Lawful, TableTrue, FramesTrue
    <3>4. j = frame(g).of
      BY <3>3 DEF IsTask
    <3> QED
      BY <2>1, <2>2, <2>3, <2>5, <3>1, <3>4 DEF Finds, DataKinds
  <2> QED
    BY <2>4, <2>5
<1>9. CASE SetId(g)
  <2>1. reader[g].job \in Jobs
    BY <1>1, <1>9 DEF SetId, Lawful, ReaderTrue, IsTask, TypeOK, SocketTypeOK
  <2>2. PICK j, n : j = reader[g].job /\ n = reader[g].id
    OBVIOUS
  <2>3. jid' = [jid EXCEPT ![j] = n] /\ j \in DOMAIN jid
    BY <1>1, <1>9, <2>1, <2>2 DEF SetId, TypeOK, ConnTypeOK
  <2>4. reader'[g] = [reader[g] EXCEPT !.pc = "idset"]
    BY <1>1, <1>9 DEF SetId, TypeOK, ConnTypeOK
  <2>5. reader'[g].pc = "idset" /\ reader'[g].id = reader[g].id
    BY <1>1, <2>4 DEF TypeOK, ConnTypeOK
  <2> QED
    BY <1>9, <2>2, <2>3, <2>5 DEF SetId, Learns, socketVars
<1>10. CASE HaltIfCanceled(g)
  <2>1. reader'[g].pc = "idle"
    BY <1>1, <1>10 DEF HaltIfCanceled, Idle, TypeOK, ConnTypeOK
  <2>2. reader[g].id \in Nat
    BY <1>1 DEF TypeOK, ConnTypeOK, Ids
  <2>3. canceled[reader[g].job] => Halt(reader[g].id) \in Orders(g)' \/ reader[g].job \in lostHalts'
    BY <1>1, <1>10, <2>2, HaltHandedOver DEF HaltIfCanceled
  <2> QED
    BY <1>10, <2>1, <2>3 DEF HaltIfCanceled, Asks, socketVars
<1>11. CASE TakeData(g)
  <2>1. PICK n : n = reader[g].id
    OBVIOUS
  <2>2. ids'[g] = [ids[g] EXCEPT ![n] = Nil] /\ reader'[g] = [reader[g] EXCEPT !.pc = "taken"]
    BY <1>1, <1>11, <2>1 DEF TakeData, TypeOK, ConnTypeOK
  <2>3. reader'[g].pc = "taken" /\ reader'[g].job = reader[g].job
    BY <1>1, <2>2 DEF TypeOK, ConnTypeOK
  <2> QED
    BY <1>11, <2>1, <2>2, <2>3 DEF TakeData, Takes, socketVars
<1>12. CASE ReadDeliver(g) \/ ReadSend(g)
  BY <1>1, <1>12 DEF ReadDeliver, ReadSend, Delivers, Idle, socketVars, TypeOK, ConnTypeOK
<1> QED
  BY <1>2, <1>3, <1>5, <1>6, <1>7, <1>8, <1>9, <1>10, <1>11, <1>12
  DEF ConnStep, WriterStep, ReaderStep, Read

(* And what any step may do to an open connection.                         *)
LEMMA ActsStep ==
  ASSUME NEW g \in Gens, Ground, [Next]_vars, state[g] = "open", state'[g] = "open"
  PROVE  Acts(g)
<1>1. TypeOK /\ LifeInv
  BY DEF Ground
<1>2. CASE Connection(g)
  <2>1. ConnStep(g)
    BY <1>2 DEF Connection
  <2>2. UNCHANGED <<tasks[g], live[g], peer[g]>>
    <3>1. UNCHANGED <<tasks, live, peer>> \/ \E why : Fail(g, why)
      BY <2>1
      DEF ConnStep, WriterStep, ReaderStep, FailStep, Read, WriterTake, WriterSend, WriterError,
          WriterQuit, FailDeliver, FailSend, FailDone, ReadOkId, ReadHalted, ReadErr, ReadData,
          ReadNoise, ReadBad, ReadEnd, SetId, HaltIfCanceled, TakeData, ReadDeliver, ReadSend,
          Consume, Transmit, socketVars
    <3> QED
      BY <1>1, <3>1, FailNotOpen
  <2> QED
    BY <2>1, <2>2, ConnActs DEF Acts
<1>3. CASE Daemon(g)
  BY <1>1, <1>3, DaemonFacts DEF Daemon, connVars, Acts
<1>4. ASSUME NEW j \in Jobs, Caller(j) PROVE Acts(g)
  BY <1>4 DEF Caller, socketVars, Acts, ReaderMoves, Calm
<1>5. CASE ClosedBy(g)
  BY <1>1, <1>5, FailNotOpen DEF ClosedBy
<1>6. CASE Dialled(g) \/ Untouched(g)
  BY <1>6 DEF Dialled, Untouched, Acts, ReaderMoves, Calm
<1> QED
  BY <1>1, <1>2, <1>3, <1>4, <1>5, <1>6, StepActsOn DEF ActsOn

(* The frames the daemon adds to the stream.                               *)
NewTask(g, f) ==
  /\ f.t = "okid" /\ f.of = Head(toDaemon[g]).of /\ f.id = Len(tasks[g]) + 1 /\ f.id \in Ids
  /\ toClient'[g] = Append(toClient[g], f) /\ tasks'[g] = Append(tasks[g], f.of)
  /\ live'[g] = live[g] \cup {f.id}
NewError(g, f) ==
  /\ f.t = "err" /\ toDaemon[g] # <<>> /\ toDaemon'[g] = Tail(toDaemon[g])
  /\ f.of = Head(toDaemon[g]).of
  /\ UNCHANGED <<tasks[g], live[g]>>
NewData(g, f) ==
  /\ f.t \in DataKinds /\ f.id \in live[g] /\ f.of = tasks[g][f.id]
  /\ f.t # "inprogress" => f.id \notin live'[g]
  /\ tasks'[g] = tasks[g]
NewFrame(g, f) ==
  \/ NewTask(g, f) \/ NewError(g, f) \/ NewData(g, f)
  \/ f.t # "okid" /\ ~Final(f)

(* The daemon adds frames, and an OK for every task it starts.             *)
LEMMA DaemonStream ==
  ASSUME NEW g \in Gens, TypeOK, DaemonMoves(g)
  PROVE  /\ Range(toClient[g]) \subseteq Range(toClient'[g])
         /\ \A f \in Range(toClient'[g]) : f \in Range(toClient[g]) \/ NewFrame(g, f)
         /\ \A i \in live'[g] : i \in live[g] \/ \E f \in Range(toClient'[g]) : NewTask(g, f) /\ f.id = i
<1> DEFINE s == toClient[g]
<1>1. s \in Seq(Frames)
  BY LinkTypes
<1>2. ASSUME NEW f \in Frames, toClient'[g] = Append(s, f), NewFrame(g, f)
      PROVE  /\ Range(s) \subseteq Range(toClient'[g]) /\ f \in Range(toClient'[g])
             /\ \A e \in Range(toClient'[g]) : e \in Range(s) \/ NewFrame(g, e)
  <2>1. Range(Append(s, f)) = Range(s) \cup {f}
    BY <1>1, RangeFacts
  <2> QED
    BY <1>2, <2>1
<1>3. CASE Leaves(g)
  BY <1>3 DEF Leaves, Link
<1>4. CASE Accepts(g)
  <2> DEFINE f == Frame("okid", Head(toDaemon[g]).of, Len(tasks[g]) + 1, replies[g] + 1)
  <2>1. /\ f \in Frames /\ Len(tasks[g]) + 1 \in Ids /\ toClient'[g] = Append(s, f)
        /\ tasks'[g] = Append(tasks[g], Head(toDaemon[g]).of)
        /\ live'[g] = live[g] \cup {Len(tasks[g]) + 1}
    BY <1>4 DEF Accepts, Link
  <2>2. f.t = "okid" /\ f.of = Head(toDaemon[g]).of /\ f.id = Len(tasks[g]) + 1
    BY DEF Frame
  <2> HIDE DEF f, s
  <2>3. NewTask(g, f)
    BY <2>1, <2>2 DEF NewTask, s
  <2>4. /\ Range(s) \subseteq Range(toClient'[g]) /\ f \in Range(toClient'[g])
        /\ \A e \in Range(toClient'[g]) : e \in Range(s) \/ NewFrame(g, e)
    BY <1>2, <2>1, <2>3 DEF NewFrame
  <2> QED
    BY <2>1, <2>2, <2>3, <2>4 DEF s
<1>5. CASE Rejects(g)
  <2> DEFINE f == Frame("err", Head(toDaemon[g]).of, 0, replies[g] + 1)
  <2>1. /\ f \in Frames /\ toClient'[g] = Append(s, f)
        /\ toDaemon[g] # <<>> /\ toDaemon'[g] = Tail(toDaemon[g])
        /\ UNCHANGED <<tasks[g], live[g]>>
    BY <1>5 DEF Rejects, Link
  <2>2. f.t = "err" /\ f.of = Head(toDaemon[g]).of
    BY DEF Frame
  <2> HIDE DEF f, s
  <2>3. NewError(g, f)
    BY <2>1, <2>2 DEF NewError
  <2>4. /\ Range(s) \subseteq Range(toClient'[g])
        /\ \A e \in Range(toClient'[g]) : e \in Range(s) \/ NewFrame(g, e)
    BY <1>2, <2>1, <2>3 DEF NewFrame
  <2> QED
    BY <2>1, <2>4 DEF s
<1>6. ASSUME NEW kind \in {"halted", "err"}, Halts(g, kind)
      PROVE  /\ Range(toClient[g]) \subseteq Range(toClient'[g])
             /\ \A f \in Range(toClient'[g]) : f \in Range(toClient[g]) \/ NewFrame(g, f)
             /\ live'[g] \subseteq live[g]
  <2> DEFINE c == Head(toDaemon[g])
             f == Frame(kind, c.of, 0, replies[g] + 1)
             last == Frame("final", tasks[g][c.id], c.id, replies[g] + 1)
  <2>1. /\ f \in Frames /\ c.of = Nil /\ live'[g] = live[g] \ {c.id} /\ tasks'[g] = tasks[g]
        /\ \/ toClient'[g] = Append(s, f)
           \/ c.id \in live[g] /\ last \in Frames /\ toClient'[g] = Append(Append(s, f), last)
    BY <1>6 DEF Halts, Link
  <2>2. /\ f.t = kind /\ f.of = c.of
        /\ last.t = "final" /\ last.of = tasks[g][c.id] /\ last.id = c.id
    BY DEF Frame
  <2> HIDE DEF f, s, last
  <2>3. NewFrame(g, f)
    BY <2>1, <2>2 DEF NewFrame, Final
  <2>4. c.id \in live[g] => NewFrame(g, last)
    BY <2>1, <2>2 DEF NewFrame, NewData, DataKinds
  <2>5. CASE toClient'[g] = Append(s, f)
    BY <1>2, <2>1, <2>3, <2>5 DEF s
  <2>6. CASE c.id \in live[g] /\ last \in Frames /\ toClient'[g] = Append(Append(s, f), last)
    <3>1. PICK t \in Seq(Frames) : t = Append(s, f)
      BY <1>1, <2>1, AppendFacts
    <3>2. Range(t) = Range(s) \cup {f}
      BY <1>1, <2>1, <3>1, RangeFacts
    <3>3. Range(Append(t, last)) = Range(t) \cup {last}
      BY <2>6, RangeFacts
    <3> QED
      BY <2>1, <2>3, <2>4, <2>6, <3>1, <3>2, <3>3 DEF s
  <2> QED
    BY <2>1, <2>5, <2>6
<1>7. ASSUME NEW i \in live[g], NEW kind \in DataKinds, Sends(g, i, kind)
      PROVE  /\ Range(toClient[g]) \subseteq Range(toClient'[g])
             /\ \A f \in Range(toClient'[g]) : f \in Range(toClient[g]) \/ NewFrame(g, f)
             /\ live'[g] \subseteq live[g]
  <2> DEFINE f == Frame(kind, tasks[g][i], i, replies[g])
  <2>1. /\ f \in Frames /\ toClient'[g] = Append(s, f) /\ tasks'[g] = tasks[g]
        /\ live'[g] = IF kind = "inprogress" THEN live[g] ELSE live[g] \ {i}
    BY <1>7 DEF Sends, Link
  <2>2. f.t = kind /\ f.of = tasks[g][i] /\ f.id = i
    BY DEF Frame
  <2> HIDE DEF f, s
  <2>3. NewFrame(g, f)
    BY <2>1, <2>2 DEF NewFrame, NewData
  <2> QED
    BY <1>2, <2>1, <2>3 DEF s
<1>8. ASSUME NEW kind \in {"noise", "bad"}, Chatters(g, kind)
      PROVE  /\ Range(toClient[g]) \subseteq Range(toClient'[g])
             /\ \A f \in Range(toClient'[g]) : f \in Range(toClient[g]) \/ NewFrame(g, f)
             /\ live'[g] \subseteq live[g]
  <2> DEFINE f == Frame(kind, Nil, 0, replies[g])
  <2>1. f \in Frames /\ toClient'[g] = Append(s, f) /\ live'[g] = live[g]
    BY <1>8 DEF Chatters, Link
  <2>2. f.t = kind /\ f.of = Nil
    BY DEF Frame
  <2> HIDE DEF f, s
  <2>3. NewFrame(g, f)
    BY <2>2 DEF NewFrame, Final
  <2> QED
    BY <1>2, <2>1, <2>3 DEF s
<1> QED
  BY <1>3, <1>4, <1>5, <1>6, <1>7, <1>8 DEF DaemonMoves

(* What the reader leaves of the stream.                                   *)
LEMMA ReadsFrame ==
  ASSUME NEW g \in Gens, TypeOK, Reads(g)
  PROVE  frame(g) \in Range(toClient[g]) /\ Range(toClient[g]) = Range(toClient'[g]) \cup {frame(g)}
<1>1. Range(toClient[g]) = {Head(toClient[g])} \cup Range(Tail(toClient[g]))
  BY LinkTypes, RangeFacts DEF Reads
<1> QED
  BY <1>1 DEF Reads, frame

(* The reader takes one frame off the stream, in one of four ways.         *)
LEMMA ReaderStream ==
  ASSUME NEW g \in Gens, TypeOK, ReaderMoves(g)
  PROVE  /\ Range(toClient'[g]) \subseteq Range(toClient[g])
         /\ toClient'[g] = toClient[g]
              \/ /\ Reads(g) /\ frame(g) \in Range(toClient[g])
                 /\ Range(toClient[g]) = Range(toClient'[g]) \cup {frame(g)}
                 /\ Binds(g) \/ Skips(g) \/ Refuses(g) \/ Finds(g)
<1>1. CASE Binds(g) \/ Skips(g) \/ Refuses(g) \/ Finds(g)
  BY <1>1, ReadsFrame DEF Binds, Skips, Refuses, Finds
<1>2. CASE Learns(g) \/ Asks(g) \/ Takes(g) \/ Delivers(g) \/ Calm(g)
  BY <1>2 DEF Learns, Asks, Takes, Delivers, Calm
<1> QED
  BY <1>1, <1>2 DEF ReaderMoves

(***************************************************************************)
(* Answers come last                                                       *)
(***************************************************************************)
LEMMA KnownLate ==
  ASSUME NEW g \in Gens, Ground, NEW j \in Known(g), j # Nil
  PROVE  j \in Jobs /\ pc[j] \in Late /\ cur[j] = g
BY KnownJobs DEF Ground, OwnedInv, Owned, JobOrNil

(* An answer is sent when the task has ended, and nothing starts it again. *)
LEMMA EndedStep ==
  ASSUME NEW g \in Gens, Ground, [Next]_vars, state[g] = "open", state'[g] = "open",
         Apart(g), Apart(g)', Ended(g)
  PROVE  Ended(g)'
<1>1. TypeOK /\ LifeInv /\ Acts(g)
  BY ActsStep DEF Ground
<1>2. ASSUME NEW j \in Jobs, j \in Known(g), Over(g, j) PROVE Over(g, j)'
  BY <1>1, <1>2, KnownLate, OverStays, SocketAssumption
<1>3. \A f \in Range(toClient[g]) : f.of \in Known(g) /\ (Final(f) => f.of \in Jobs)
  <2>1. toClient[g] \in Seq(Frames) /\ Range(toClient[g]) \subseteq Frames
    BY <1>1, LinkTypes, RangeFacts
  <2>2. \A f \in Frames : f.of \in JobOrNil
    BY DEF Frames, JobOrNil
  <2> QED
    BY <2>1, <2>2 DEF Known, Names, Final, JobOrNil
<1>4. ASSUME NEW f \in Range(toClient'[g]), Final(f) PROVE Over(g, f.of)'
  <2>1. CASE f \in Range(toClient[g])
    BY <1>2, <1>3, <1>4, <2>1 DEF Ended
  <2>2. CASE f \notin Range(toClient[g])
    <3>1. NewFrame(g, f)
      BY <1>1, <1>4, <2>2, DaemonStream, ReaderStream DEF Acts
    <3>2. DaemonMoves(g) /\ writeCh' = writeCh /\ writer' = writer
      BY <1>1, <1>4, <2>2, ReaderStream DEF Acts
    <3>3. \A i \in live[g] : i \in DOMAIN tasks[g]
      BY <1>1 DEF TypeOK, SocketTypeOK
    <3>4. CASE NewError(g, f)
      <4>1. toDaemon[g] \in Seq(Commands) /\ Names(toDaemon[g]) = {f.of} \cup Names(Tail(toDaemon[g]))
            /\ toDaemon'[g] = Tail(toDaemon[g])
        BY <1>1, <3>4, LinkTypes, PlaceFacts DEF NewError
      <4>2. f.of \notin Names(Tail(toDaemon[g]))
        BY <1>4, <3>4, <4>1, OnceTail DEF NewError, Apart, Final
      <4>3. f.of \in Jobs
        <5>1. Head(toDaemon[g]) \in Commands
          BY <1>1, <3>4, PlaceFacts DEF NewError
        <5> QED
          BY <1>4, <3>4, <5>1 DEF NewError, Final, Commands
      <4>4. f.of \notin Names(writeCh[g]) /\ writer[g].req.of # f.of /\ f.of \notin Range(tasks[g])
        BY <4>1, <4>3 DEF Apart
      <4>5. \A i \in live'[g] : tasks'[g][i] # f.of
        BY <3>3, <3>4, <4>4 DEF NewError, Range
      <4> QED
        BY <3>2, <4>1, <4>2, <4>4, <4>5 DEF Over
    <3>5. CASE NewData(g, f)
      <4>1. f.id \in DOMAIN tasks'[g] /\ f.of = tasks'[g][f.id] /\ f.id \notin live'[g]
        BY <1>4, <3>3, <3>5 DEF NewData, Final
      <4>2. f.of \in Jobs /\ f.of \in Range(tasks'[g])
        BY <1>1, <3>3, <3>5, <4>1 DEF NewData, Range, TypeOK, SocketTypeOK
      <4>3. \A i \in live'[g] : i \in DOMAIN tasks'[g]
        BY <1>1, <3>2, <3>3, <3>5, DaemonStream DEF NewData, NewTask
      <4> QED
        BY <4>1, <4>2, <4>3 DEF Apart, Over
    <3> QED
      BY <1>4, <3>1, <3>4, <3>5 DEF NewFrame, NewTask, Final
  <2> QED
    BY <2>1, <2>2
<1>5. ASSUME NEW j \in Jobs, reader'[g].pc \in {"found", "taken"}, reader'[g].job = j
      PROVE  Over(g, j)'
  <2>1. CASE reader[g].pc \in {"found", "taken"} /\ reader[g].job = j
    <3>1. j \in Known(g)
      BY <2>1 DEF Known
    <3> QED
      BY <1>2, <2>1, <3>1 DEF Ended
  <2>2. CASE Refuses(g) \/ Finds(g)
    <3>1. frame(g).of = j /\ frame(g).t \in {"final", "garbage", "err"} /\ frame(g) \in Range(toClient[g])
      BY <1>1, <1>5, <2>2, ReadsFrame DEF Refuses, Finds
    <3>2. Final(frame(g))
      BY <3>1, SocketAssumption DEF Final
    <3> QED
      BY <1>2, <1>3, <3>1, <3>2 DEF Ended
  <2> QED
    BY <1>1, <1>5, <2>1, <2>2
    DEF Acts, ReaderMoves, Binds, Skips, Learns, Asks, Takes, Delivers, Calm
<1>6. ASSUME NEW j \in Jobs, ch'[j] # None PROVE Over(g, j)'
  <2>1. CASE ch'[j] = ch[j]
    <3>1. pc[j] \in Late
      BY <1>6, <2>1 DEF Ground, DeliveryInv, JobTrue
    <3> QED
      BY <1>1, <1>6, <2>1, <3>1, OverStays DEF Ended
  <2>2. ASSUME NEW h \in Gens, Told(j, h) PROVE Over(g, j)'
    <3>1. j \in Known(h) /\ j # Nil
      BY <2>2, SocketAssumption DEF Told, Known
    <3>2. pc[j] \in Late /\ cur[j] = h
      BY <3>1, KnownLate
    <3>3. CASE h = g
      BY <1>2, <2>2, <3>1, <3>3, OpenFacts DEF Told, Ended
    <3>4. CASE h # g
      <4>1. j \notin Known(g)
        BY <3>1, <3>2, <3>4, KnownLate
      <4> QED
        BY <1>1, <3>2, <4>1, UnknownOver, OverStays
    <3> QED
      BY <3>3, <3>4
  <2> QED
    BY <1>1, <2>1, <2>2, JobTold
<1> QED
  BY <1>4, <1>5, <1>6 DEF Ended

(***************************************************************************)
(* "OK id-N" comes first                                                   *)
(***************************************************************************)
(* The id of a new task is new.                                            *)
LEMMA NewId ==
  ASSUME NEW g \in Gens, Ground, state[g] = "open", NEW f, NewTask(g, f)
  PROVE  /\ f.id \notin DOMAIN tasks[g]
         /\ \A e \in Range(toClient[g]) : e.id # f.id
         /\ ids[g][f.id] = Nil /\ ~(reader[g].pc = "found" /\ reader[g].id = f.id)
<1>1. f.id = Len(tasks[g]) + 1 /\ f.id \in Ids
  BY DEF NewTask
<1>2. tasks[g] \in Seq(Jobs) /\ toClient[g] \in Seq(Frames)
  BY LinkTypes DEF Ground
<1>3. f.id \notin DOMAIN tasks[g]
  <2>1. DOMAIN tasks[g] = 1..Len(tasks[g]) /\ Len(tasks[g]) \in Nat
    BY <1>2, LenProperties
  <2> QED
    BY <1>1, <2>1
<1>4. ASSUME NEW e \in Range(toClient[g]) PROVE e.id # f.id
  <2>1. e \in Frames
    BY <1>2, RangeFacts
  <2>2. CASE e.t \in {"okid"} \cup DataKinds
    BY <1>3, <2>2, IdFacts
  <2>3. CASE e.t \notin {"okid"} \cup DataKinds
    <3>1. e.id = 0
      BY <2>1, <2>3 DEF Frames
    <3> QED
      BY <1>1, <3>1 DEF Ids
  <2> QED
    BY <2>2, <2>3
<1> QED
  BY <1>1, <1>3, <1>4, IdFacts

(* The daemon sends the OK of a new id before anything else about it.      *)
LEMMA DaemonOkFirst ==
  ASSUME NEW g \in Gens, Ground, state[g] = "open", DaemonMoves(g), OkFirst(toClient[g])
  PROVE  OkFirst(toClient'[g])
<1>1. toClient[g] \in Seq(Frames) /\ TypeOK
  BY LinkTypes DEF Ground
<1>2. ASSUME NEW f \in Frames, NEW s \in Seq(Frames), OkFirst(s), f.t # "okid" PROVE OkFirst(Append(s, f))
  BY <1>2, OkFirstAppend
<1>3. CASE Leaves(g)
  BY <1>3 DEF Leaves, Link
<1>4. CASE Accepts(g)
  <2>1. PICK f : f = Frame("okid", Head(toDaemon[g]).of, Len(tasks[g]) + 1, replies[g] + 1)
    OBVIOUS
  <2>2. f \in Frames /\ toClient'[g] = Append(toClient[g], f) /\ Len(tasks[g]) + 1 \in Ids
        /\ tasks'[g] = Append(tasks[g], Head(toDaemon[g]).of)
        /\ live'[g] = live[g] \cup {Len(tasks[g]) + 1}
    BY <1>4, <2>1 DEF Accepts, Link
  <2>3. f.t = "okid" /\ f.of = Head(toDaemon[g]).of /\ f.id = Len(tasks[g]) + 1
    BY <2>1 DEF Frame
  <2>4. NewTask(g, f)
    BY <2>2, <2>3 DEF NewTask
  <2> QED
    BY <1>1, <2>2, <2>4, NewId, OkFirstAppend
<1>5. CASE Rejects(g)
  <2>1. PICK f : f = Frame("err", Head(toDaemon[g]).of, 0, replies[g] + 1)
    OBVIOUS
  <2>2. f \in Frames /\ toClient'[g] = Append(toClient[g], f)
    BY <1>5, <2>1 DEF Rejects, Link
  <2>3. f.t # "okid"
    BY <2>1 DEF Frame
  <2> QED
    BY <1>1, <1>2, <2>2, <2>3
<1>6. ASSUME NEW kind \in {"halted", "err"}, Halts(g, kind) PROVE OkFirst(toClient'[g])
  <2>1. PICK f, last : /\ f = Frame(kind, Head(toDaemon[g]).of, 0, replies[g] + 1)
                       /\ last = Frame("final", tasks[g][Head(toDaemon[g]).id], Head(toDaemon[g]).id,
                                       replies[g] + 1)
    OBVIOUS
  <2>2. /\ f \in Frames
        /\ \/ toClient'[g] = Append(toClient[g], f)
           \/ last \in Frames /\ toClient'[g] = Append(Append(toClient[g], f), last)
    BY <1>6, <2>1 DEF Halts, Link
  <2>3. f.t # "okid" /\ last.t # "okid"
    BY <2>1 DEF Frame
  <2>4. PICK s \in Seq(Frames) : s = Append(toClient[g], f)
    BY <1>1, <2>2, AppendFacts
  <2>5. OkFirst(s)
    BY <1>1, <1>2, <2>2, <2>3, <2>4
  <2> QED
    BY <1>2, <2>2, <2>3, <2>4, <2>5
<1>7. ASSUME NEW i \in live[g], NEW kind \in DataKinds, Sends(g, i, kind) PROVE OkFirst(toClient'[g])
  <2>1. PICK f : f = Frame(kind, tasks[g][i], i, replies[g])
    OBVIOUS
  <2>2. f \in Frames /\ toClient'[g] = Append(toClient[g], f)
    BY <1>7, <2>1 DEF Sends, Link
  <2>3. f.t # "okid"
    BY <2>1 DEF Frame, DataKinds
  <2> QED
    BY <1>1, <1>2, <2>2, <2>3
<1>8. ASSUME NEW kind \in {"noise", "bad"}, Chatters(g, kind) PROVE OkFirst(toClient'[g])
  <2>1. PICK f : f = Frame(kind, Nil, 0, replies[g])
    OBVIOUS
  <2>2. f \in Frames /\ toClient'[g] = Append(toClient[g], f)
    BY <1>8, <2>1 DEF Chatters, Link
  <2>3. f.t # "okid"
    BY <2>1 DEF Frame
  <2> QED
    BY <1>1, <1>2, <2>2, <2>3
<1> QED
  BY <1>3, <1>4, <1>5, <1>6, <1>7, <1>8 DEF DaemonMoves

(* After the first frame of an id no "OK" with that id is left.            *)
LEMMA ReadsFirst ==
  ASSUME NEW g \in Gens, TypeOK, OkFirst(toClient[g]), Reads(g), NEW n, n = frame(g).id
  PROVE  OkFirst(toClient'[g]) /\ ~IdSent(g, n)'
<1>1. OkFirst(toClient'[g]) /\ \A f \in Range(toClient'[g]) : f.t = "okid" => f.id # n
  BY OkFirstTail, LinkTypes DEF Reads, frame
<1> QED
  BY <1>1 DEF IdSent

(* So the reader meets an id in the OK, before the table has it.           *)
LEMMA FirstStep ==
  ASSUME NEW g \in Gens, Ground, [Next]_vars, state[g] = "open", state'[g] = "open",
         OkFirst(toClient[g]), Fresh(g)
  PROVE  OkFirst(toClient'[g]) /\ Fresh(g)'
<1>1. TypeOK /\ Acts(g)
  BY ActsStep DEF Ground
<1>2. CASE DaemonMoves(g) /\ UNCHANGED <<ids, reader>>
  <2>1. OkFirst(toClient'[g])
    BY <1>2, DaemonOkFirst
  <2>2. ASSUME NEW i \in Ids, NEW f \in Range(toClient'[g]), f.t = "okid", f.id = i
        PROVE  ids[g][i] = Nil /\ ~(reader[g].pc = "found" /\ reader[g].id = i)
    <3>1. CASE f \in Range(toClient[g])
      BY <2>2, <3>1 DEF Fresh, IdSent
    <3>2. CASE f \notin Range(toClient[g])
      <4>1. NewTask(g, f)
        BY <1>1, <1>2, <2>2, <3>2, DaemonStream DEF NewFrame, NewError, NewData, DataKinds
      <4> QED
        BY <2>2, <4>1, NewId
    <3> QED
      BY <3>1, <3>2
  <2> QED
    BY <1>2, <2>1, <2>2 DEF Fresh, IdSent
<1>3. CASE ReaderMoves(g)
  <2>1. \A i : IdSent(g, i)' => IdSent(g, i)
    BY <1>1, <1>3, ReaderStream DEF IdSent
  <2>2. OkFirst(toClient'[g])
    <3>1. Reads(g) => OkFirst(toClient'[g])
      BY <1>1, ReadsFirst
    <3> QED
      BY <1>1, <1>3, <3>1, ReaderStream
  <2>3. CASE Skips(g) \/ Refuses(g)
    BY <2>1, <2>2, <2>3 DEF Fresh, Skips, Refuses
  <2>4. CASE Binds(g) \/ Finds(g)
    <3>1. PICK n, m : n = frame(g).id /\ m = frame(g).of
      OBVIOUS
    <3>2. ~IdSent(g, n)'
      BY <1>1, <2>4, <3>1, ReadsFirst DEF Binds, Finds
    <3>3. \/ ids'[g] = ids[g] /\ reader'[g].id = n
          \/ ids'[g] = [ids[g] EXCEPT ![n] = m] /\ reader'[g].pc = "bound"
      BY <2>4, <3>1 DEF Binds, Finds
    <3>4. ASSUME NEW i \in Ids, i # n PROVE ids'[g][i] = ids[g][i]
      BY <1>1, <3>3, <3>4 DEF TypeOK, ConnTypeOK
    <3> QED
      BY <2>1, <2>2, <3>2, <3>3, <3>4 DEF Fresh
  <2>5. CASE Learns(g) \/ Asks(g) \/ Delivers(g) \/ Calm(g)
    BY <2>1, <2>2, <2>5 DEF Fresh, Learns, Asks, Delivers, Calm
  <2>6. CASE Takes(g)
    <3>1. ids'[g] = [ids[g] EXCEPT ![reader[g].id] = Nil] /\ reader'[g].pc = "taken"
      BY <2>6 DEF Takes
    <3>2. ASSUME NEW i \in Ids PROVE ids'[g][i] = Nil \/ ids'[g][i] = ids[g][i]
      BY <1>1, <3>1 DEF TypeOK, ConnTypeOK
    <3> QED
      BY <2>1, <2>2, <3>1, <3>2 DEF Fresh
  <2> QED
    BY <1>3, <2>3, <2>4, <2>5, <2>6 DEF ReaderMoves
<1> QED
  BY <1>1, <1>2, <1>3 DEF Acts

(***************************************************************************)
(* What is known of a running task stays known                             *)
(***************************************************************************)
LEMMA TaskStays ==
  ASSUME NEW g \in Gens, Ground, [Next]_vars, NEW i \in DOMAIN tasks[g]
  PROVE  i \in DOMAIN tasks'[g] /\ tasks'[g][i] = tasks[g][i]
<1>1. PICK j : j = tasks[g][i]
  OBVIOUS
<1>2. IsTask(g, i, j)'
  BY <1>1, TasksGrow DEF Ground, IsTask
<1> QED
  BY <1>1, <1>2 DEF IsTask

(* Only its own reader tells a job an id, its own.                         *)
LEMMA JidStays ==
  ASSUME NEW g \in Gens, Ground, [Next]_vars, state[g] = "open", Apart(g),
         NEW i \in DOMAIN tasks[g], NEW j, j = tasks[g][i], jid'[j] # jid[j]
  PROVE  jid'[j] = i /\ reader[g].pc = "bound" /\ reader[g].id = i
<1>1. j \in Jobs /\ j \in Known(g) /\ j # Nil
  BY TaskFacts
<1>2. PICK h \in Gens : Numbers(j, h)
  BY <1>1, JobTold DEF Ground
<1>3. j \in Known(h)
  BY <1>2 DEF Numbers, Known
<1>4. h = g
  BY <1>1, <1>3, KnownLate
<1>5. reader[g].id \in DOMAIN tasks[g] /\ tasks[g][reader[g].id] = j
  BY <1>2, <1>4, IdFacts DEF Numbers
<1>6. reader[g].id = i
  BY <1>5 DEF Apart
<1> QED
  BY <1>2, <1>4, <1>6 DEF Numbers

(* The id of a task goes from the frame over the reader to its job, and    *)
(* the check after setID sends the halt that is due.                       *)
LEMMA Carried ==
  ASSUME NEW g \in Gens, Ground, [Next]_vars, state[g] = "open", state'[g] = "open", Apart(g),
         NEW i \in DOMAIN tasks[g], i \in Ids, NEW j, j = tasks[g][i]
  PROVE  /\ IdSent(g, i) => \/ IdSent(g, i)'
                            \/ reader'[g].pc = "bound" /\ reader'[g].id = i /\ ids'[g][i] = j
         /\ reader[g].pc = "bound" /\ reader[g].id = i =>
              \/ reader'[g].pc = "bound" /\ reader'[g].id = i
              \/ reader'[g].pc = "idset" /\ reader'[g].id = i /\ jid'[j] = i
         /\ reader[g].pc = "idset" /\ reader[g].id = i =>
              \/ reader'[g].pc = "idset" /\ reader'[g].id = i
              \/ canceled[j] => Halt(i) \in Orders(g)' \/ j \in lostHalts'
<1>1. TypeOK /\ Acts(g)
  BY ActsStep DEF Ground
<1>2. ASSUME NEW f \in Range(toClient[g]), f.t = "okid", f.id = i
      PROVE  IdSent(g, i)' \/ (reader'[g].pc = "bound" /\ reader'[g].id = i /\ ids'[g][i] = j)
  <2>1. CASE f \in Range(toClient'[g])
    BY <1>2, <2>1 DEF IdSent
  <2>2. CASE f \notin Range(toClient'[g])
    <3>1. ReaderMoves(g)
      BY <1>1, <2>2, DaemonStream DEF Acts
    <3>2. f = frame(g) /\ (Binds(g) \/ Skips(g) \/ Refuses(g) \/ Finds(g))
      BY <1>1, <2>2, <3>1, ReaderStream
    <3>3. Binds(g)
      BY <1>2, <3>2 DEF Binds, Skips, Refuses, Finds
    <3>4. f.of = j
      BY <1>2, IdFacts
    <3>5. ids'[g] = [ids[g] EXCEPT ![i] = j]
      BY <1>2, <3>2, <3>3, <3>4 DEF Binds
    <3>6. ids'[g][i] = j
      BY <1>1, <3>5 DEF TypeOK, ConnTypeOK
    <3> QED
      BY <1>2, <3>2, <3>3, <3>6 DEF Binds
  <2> QED
    BY <2>1, <2>2
<1>3. ASSUME reader[g].pc \in {"bound", "idset"}, reader[g].id = i
      PROVE  reader[g].job = j
  BY <1>3, IdFacts
<1>4. ASSUME reader[g].pc = "bound", reader[g].id = i
      PROVE  \/ reader'[g].pc = "bound" /\ reader'[g].id = i
             \/ reader'[g].pc = "idset" /\ reader'[g].id = i /\ jid'[j] = i
  BY <1>1, <1>3, <1>4
  DEF Acts, ReaderMoves, Binds, Skips, Refuses, Finds, Reads, Learns, Asks, Takes, Delivers, Calm
<1>5. ASSUME reader[g].pc = "idset", reader[g].id = i
      PROVE  \/ reader'[g].pc = "idset" /\ reader'[g].id = i
             \/ canceled[j] => Halt(i) \in Orders(g)' \/ j \in lostHalts'
  BY <1>1, <1>3, <1>5
  DEF Acts, ReaderMoves, Binds, Skips, Refuses, Finds, Reads, Learns, Asks, Takes, Delivers, Calm
<1>6. IdSent(g, i) => \/ IdSent(g, i)'
                      \/ reader'[g].pc = "bound" /\ reader'[g].id = i /\ ids'[g][i] = j
  <2> SUFFICES ASSUME NEW f \in Range(toClient[g]), f.t = "okid", f.id = i
               PROVE  IdSent(g, i)' \/ (reader'[g].pc = "bound" /\ reader'[g].id = i /\ ids'[g][i] = j)
    BY DEF IdSent
  <2> QED
    BY <1>2
<1> QED
  BY <1>4, <1>5, <1>6

(* A task that runs ran before, or its "OK id-N" has just been sent.       *)
LEMMA LiveBefore ==
  ASSUME NEW g \in Gens, Ground, [Next]_vars, state[g] = "open", state'[g] = "open", NEW i \in live'[g]
  PROVE  i \in live[g] \/ (IdSent(g, i)' /\ ids'[g][i] = ids[g][i])
<1>1. TypeOK /\ Acts(g)
  BY ActsStep DEF Ground
<1>2. CASE DaemonMoves(g) /\ UNCHANGED ids
  BY <1>1, <1>2, DaemonStream DEF NewTask, IdSent
<1> QED
  BY <1>1, <1>2 DEF Acts

(* A running task keeps its entry in the table, and its job the id.        *)
LEMMA LearnedStep ==
  ASSUME NEW g \in Gens, Ground, [Next]_vars, state[g] = "open", state'[g] = "open", Apart(g),
         Ended(g), Learned(g)
  PROVE  Learned(g)'
<1>1. TypeOK /\ Acts(g)
  BY ActsStep DEF Ground
<1>2. SUFFICES ASSUME NEW i \in live'[g] PROVE IdKnown(g, i)' /\ Listed(g, i)'
  BY DEF Learned
<1>3. CASE i \notin live[g]
  BY <1>3, LiveBefore DEF IdKnown, Listed
<1>4. CASE i \in live[g]
  <2>1. i \in DOMAIN tasks[g] /\ i \in Ids
    BY <1>4, IdFacts
  <2>2. PICK j : j = tasks[g][i]
    OBVIOUS
  <2>3. tasks'[g][i] = j /\ j # Nil /\ j \in Jobs
    BY <2>1, <2>2, TaskStays, TaskFacts
  <2>4. IdKnown(g, i) /\ Listed(g, i)
    BY <1>4 DEF Learned
  <2>5. jid[j] = i => jid'[j] = i
    BY <2>1, <2>2, JidStays
  <2>6. IdSent(g, i) => \/ IdSent(g, i)'
                        \/ reader'[g].pc = "bound" /\ reader'[g].id = i /\ ids'[g][i] = j
    BY <2>1, <2>2, Carried
  <2>7. reader[g].pc = "bound" /\ reader[g].id = i =>
          (reader'[g].pc = "bound" /\ reader'[g].id = i) \/ jid'[j] = i
    BY <2>1, <2>2, Carried
  <2>8. IdKnown(g, i)'
    BY <2>2, <2>3, <2>4, <2>5, <2>6, <2>7 DEF IdKnown
  <2>9. ids[g][i] = j => ids'[g][i] = j
    <3> SUFFICES ASSUME ids[g][i] = j PROVE ids'[g][i] = j
      OBVIOUS
    <3>1. CASE Binds(g)
      <4>1. PICK n, m : n = frame(g).id /\ m = frame(g).of
        OBVIOUS
      <4>2. n = i => m = j
        BY <1>1, <2>2, <3>1, <4>1, ReadsFrame, IdFacts DEF Binds
      <4>3. ids'[g] = [ids[g] EXCEPT ![n] = m]
        BY <3>1, <4>1 DEF Binds
      <4> QED
        BY <1>1, <2>1, <4>2, <4>3 DEF TypeOK, ConnTypeOK
    <3>2. CASE Takes(g)
      <4>1. PICK n : n = reader[g].id
        OBVIOUS
      <4>2. reader[g].pc = "found" /\ reader[g].job = tasks[g][n] /\ n \in DOMAIN tasks[g]
        BY <3>2, <4>1, IdFacts DEF Takes
      <4>3. Over(g, tasks[g][n])
        BY <4>2, TaskFacts DEF Ended
      <4>4. n # i
        BY <1>4, <4>3 DEF Over
      <4>5. ids'[g] = [ids[g] EXCEPT ![n] = Nil]
        BY <3>2, <4>1 DEF Takes
      <4> QED
        BY <1>1, <2>1, <4>4, <4>5 DEF TypeOK, ConnTypeOK
    <3> QED
      BY <1>1, <3>1, <3>2
      DEF Acts, ReaderMoves, Skips, Refuses, Finds, Learns, Asks, Delivers, Calm
  <2>10. Listed(g, i)'
    BY <2>2, <2>3, <2>4, <2>6, <2>9 DEF Listed
  <2> QED
    BY <2>8, <2>10
<1> QED
  BY <1>3, <1>4

(***************************************************************************)
(* Entries of the table                                                    *)
(***************************************************************************)
(* The daemon ends a task with a result, or because it was told to.        *)
LEMMA TaskEnds ==
  ASSUME NEW g \in Gens, TypeOK, DaemonMoves(g), peer'[g] = "up", NEW i \in live[g], i \notin live'[g]
  PROVE  \/ Halt(i) \in Orders(g)
         \/ \E f \in Range(toClient'[g]) : f.t \in {"final", "garbage"} /\ f.id = i
<1>1. ASSUME NEW kind \in {"halted", "err"}, Halts(g, kind) PROVE Halt(i) \in Orders(g)
  <2>1. PICK c : c = Head(toDaemon[g])
    OBVIOUS
  <2>2. c.t = "halt" /\ toDaemon[g] # <<>> /\ live'[g] = live[g] \ {c.id}
    BY <1>1, <2>1 DEF Halts, Link
  <2>3. c \in Commands /\ c \in Range(toDaemon[g])
    BY <2>1, <2>2, LinkTypes, RangeFacts
  <2>4. c.id = i
    BY <2>2
  <2>5. c = Halt(i)
    BY <2>2, <2>3, <2>4 DEF Commands, Halt
  <2> QED
    BY <2>3, <2>5 DEF Orders
<1>2. ASSUME NEW k \in live[g], NEW kind \in DataKinds, Sends(g, k, kind)
      PROVE  \E f \in Range(toClient'[g]) : f.t \in {"final", "garbage"} /\ f.id = i
  <2>1. PICK f : f = Frame(kind, tasks[g][k], k, replies[g])
    OBVIOUS
  <2>2. /\ f \in Frames /\ toClient'[g] = Append(toClient[g], f)
        /\ live'[g] = IF kind = "inprogress" THEN live[g] ELSE live[g] \ {k}
    BY <1>2, <2>1 DEF Sends, Link
  <2>3. f \in Range(toClient'[g])
    BY <2>2, LinkTypes, RangeFacts
  <2>4. k = i /\ kind \in {"final", "garbage"}
    BY <1>2, <2>2 DEF DataKinds
  <2> QED
    BY <2>1, <2>3, <2>4 DEF Frame
<1>3. CASE Accepts(g) \/ Rejects(g) \/ \E kind \in {"noise", "bad"} : Chatters(g, kind)
  BY <1>3 DEF Accepts, Rejects, Chatters, Link
<1> QED
  BY <1>1, <1>2, <1>3 DEF DaemonMoves, Leaves

(* An entry goes with the result; only a halted task may leave one.        *)
LEMMA ClearedStep ==
  ASSUME NEW g \in Gens, Ground, [Next]_vars, state[g] = "open", state'[g] = "open",
         OkFirst(toClient[g]), Fresh(g), peer[g] = "up" => Cleared(g), peer'[g] = "up"
  PROVE  Cleared(g)'
<1>1. TypeOK /\ Acts(g)
  BY ActsStep DEF Ground
<1>2. peer[g] = "up" /\ Cleared(g)
  BY <1>1 DEF Acts, DaemonMoves
<1>3. SUFFICES ASSUME NEW i \in Ids, ids'[g][i] # Nil \/ IdSent(g, i)'
               PROVE  i \in live'[g] \/ ResultSent(g, i)' \/ canceled'[tasks'[g][i]]
  BY DEF Cleared
<1>4. CASE \E f \in Range(toClient'[g]) : NewTask(g, f) /\ f.id = i
  BY <1>4 DEF NewTask
<1>5. CASE ids[g][i] # Nil \/ IdSent(g, i)
  <2>1. i \in DOMAIN tasks[g]
    BY <1>5, IdFacts
  <2>2. PICK j : j = tasks[g][i]
    OBVIOUS
  <2>3. j \in Jobs /\ tasks'[g][i] = j
    BY <2>1, <2>2, TaskFacts, TaskStays
  <2>4. CASE canceled[j]
    BY <1>1, <2>3, <2>4, CanceledStays
  <2>5. CASE i \in live[g]
    <3>1. CASE i \in live'[g]
      BY <3>1
    <3>2. CASE i \notin live'[g]
      <4>1. DaemonMoves(g)
        BY <1>1, <2>5, <3>2 DEF Acts
      <4>2. CASE Halt(i) \in Orders(g)
        BY <2>2, <2>4, <4>2, OpenFacts DEF HaltsTrue
      <4>3. CASE \E f \in Range(toClient'[g]) : f.t \in {"final", "garbage"} /\ f.id = i
        BY <4>3 DEF ResultSent
      <4> QED
        BY <1>1, <2>5, <3>2, <4>1, <4>2, <4>3, TaskEnds
    <3> QED
      BY <3>1, <3>2
  <2>6. ASSUME NEW f \in Range(toClient[g]), f.t \in {"final", "garbage"}, f.id = i
        PROVE  ResultSent(g, i)'
    <3>1. CASE f \in Range(toClient'[g])
      BY <2>6, <3>1 DEF ResultSent
    <3>2. CASE f \notin Range(toClient'[g])
      <4>1. ReaderMoves(g)
        BY <1>1, <3>2, DaemonStream DEF Acts
      <4>2. f = frame(g) /\ Reads(g) /\ (Binds(g) \/ Skips(g) \/ Refuses(g) \/ Finds(g))
        BY <1>1, <3>2, <4>1, ReaderStream
      <4>3. CASE Skips(g)
        <5>1. ids'[g][i] = Nil
          BY <2>6, <4>2, <4>3 DEF Skips
        <5>2. ~IdSent(g, i)'
          BY <1>1, <2>6, <4>2, ReadsFirst
        <5> QED
          BY <1>3, <5>1, <5>2
      <4>4. CASE Finds(g)
        BY <2>6, <4>2, <4>4 DEF Finds, ResultSent
      <4> QED
        BY <2>6, <4>2, <4>3, <4>4 DEF Binds, Refuses
    <3> QED
      BY <3>1, <3>2
  <2>7. CASE reader[g].pc = "found" /\ reader[g].id = i
    <3>1. CASE reader'[g] = reader[g]
      BY <2>7, <3>1 DEF ResultSent
    <3>2. CASE Takes(g)
      <4>1. ids'[g] = [ids[g] EXCEPT ![i] = Nil] /\ toClient'[g] = toClient[g]
        BY <2>7, <3>2 DEF Takes
      <4>2. ids'[g][i] = Nil
        BY <1>1, <4>1 DEF TypeOK, ConnTypeOK
      <4>3. ~IdSent(g, i)
        BY <2>7 DEF Fresh
      <4> QED
        BY <1>3, <4>1, <4>2, <4>3 DEF IdSent
    <3> QED
      BY <1>1, <2>7, <3>1, <3>2
      DEF Acts, ReaderMoves, Binds, Skips, Refuses, Finds, Reads, Learns, Asks, Delivers, Calm
  <2>8. i \in live[g] \/ ResultSent(g, i) \/ canceled[j]
    BY <1>2, <1>5, <2>2 DEF Cleared
  <2> QED
    BY <2>4, <2>5, <2>6, <2>7, <2>8 DEF ResultSent
<1>6. CASE DaemonMoves(g) /\ UNCHANGED ids
  <2>1. CASE IdSent(g, i)'
    <3>1. PICK f \in Range(toClient'[g]) : f.t = "okid" /\ f.id = i
      BY <2>1 DEF IdSent
    <3>2. f \in Range(toClient[g]) \/ NewTask(g, f)
      BY <1>1, <1>6, <3>1, DaemonStream DEF NewFrame, NewError, NewData, DataKinds
    <3> QED
      BY <1>4, <1>5, <3>1, <3>2 DEF IdSent
  <2> QED
    BY <1>3, <1>5, <1>6, <2>1
<1>7. CASE ReaderMoves(g)
  <2>1. IdSent(g, i)' => IdSent(g, i)
    BY <1>1, <1>7, ReaderStream DEF IdSent
  <2>2. ASSUME ids'[g][i] # Nil, ids[g][i] = Nil PROVE IdSent(g, i)
    <3>1. CASE Binds(g)
      <4>1. PICK n, m : n = frame(g).id /\ m = frame(g).of
        OBVIOUS
      <4>2. ids'[g] = [ids[g] EXCEPT ![n] = m]
        BY <3>1, <4>1 DEF Binds
      <4>3. n = i
        BY <1>1, <2>2, <4>2 DEF TypeOK, ConnTypeOK
      <4> QED
        BY <1>1, <3>1, <4>1, <4>3, ReadsFrame DEF Binds, IdSent
    <3>2. CASE Takes(g)
      BY <1>1, <2>2, <3>2 DEF Takes, TypeOK, ConnTypeOK
    <3> QED
      BY <1>7, <2>2, <3>1, <3>2 DEF ReaderMoves, Skips, Refuses, Finds, Learns, Asks, Delivers, Calm
  <2> QED
    BY <1>3, <1>5, <2>1, <2>2
<1> QED
  BY <1>1, <1>6, <1>7 DEF Acts

(***************************************************************************)
(* Halts                                                                   *)
(***************************************************************************)
(* A halt stays on its way until the daemon obeys it.                      *)
LEMMA OrdersKept ==
  ASSUME NEW g \in Gens, TypeOK, LifeInv, [Next]_vars, state'[g] = "open",
         NEW i \in live'[g], Halt(i) \in Orders(g)
  PROVE  Halt(i) \in Orders(g)'
<1>1. /\ writeCh[g] \in Seq(Commands) /\ toDaemon[g] \in Seq(Commands) /\ writer[g].req \in Commands
  BY LinkTypes
<1>2. CASE Rests(g)
  BY <1>2 DEF Rests, Orders
<1>3. ASSUME NEW c \in Commands, Queues(g, c) PROVE Halt(i) \in Orders(g)'
  <2>1. Range(Append(writeCh[g], c)) = Range(writeCh[g]) \cup {c}
    BY <1>1, RangeFacts
  <2> QED
    BY <1>3, <2>1 DEF Queues, Orders
<1>4. CASE HandsOver(g)
  <2>1. Range(writeCh[g]) = {Head(writeCh[g])} \cup Range(Tail(writeCh[g]))
    BY <1>1, <1>4, RangeFacts DEF HandsOver
  <2>2. writer'[g].pc = "write" /\ writer'[g].req = Head(writeCh[g])
    BY <1>4 DEF HandsOver
  <2> QED
    BY <1>4, <2>1, <2>2 DEF HandsOver, Orders
<1>5. CASE Writes(g)
  <2>1. Range(Append(toDaemon[g], writer[g].req)) = Range(toDaemon[g]) \cup {writer[g].req}
    BY <1>1, RangeFacts
  <2> QED
    BY <1>5, <2>1 DEF Writes, Orders
<1>6. CASE Obeys(g)
  <2>1. Range(toDaemon[g]) = {Head(toDaemon[g])} \cup Range(Tail(toDaemon[g]))
    BY <1>1, <1>6, RangeFacts DEF Obeys
  <2>2. Halt(i).t = "halt" /\ Halt(i).id = i
    BY DEF Halt
  <2>3. Halt(i) # Head(toDaemon[g])
    BY <1>6, <2>2 DEF Obeys
  <2> QED
    BY <1>6, <2>1, <2>3 DEF Obeys, Orders
<1> QED
  BY <1>2, <1>3, <1>4, <1>5, <1>6, FlowStep DEF Flows

(* A caller that gives up sends the halt itself if it knows the id.        *)
LEMMA NewlyCanceled ==
  ASSUME TypeOK, [Next]_vars, NEW j \in Jobs, canceled'[j], ~canceled[j]
  PROVE  ch[j] # None \/ jid[j] = 0 \/ pc'[j] = "halt"
<1>1. ASSUME NEW k \in Jobs, Caller(k) PROVE ch[j] # None \/ jid[j] = 0 \/ pc'[j] = "halt"
  <2>1. CASE MarkCanceled(k)
    BY <2>1 DEF MarkCanceled, Goto, TypeOK, ConnTypeOK
  <2>2. CASE UNCHANGED canceled
    BY <2>2
  <2> QED
    BY <1>1, <2>1, <2>2
    DEF Caller, CallerStep, Start, Acquire, Lookup, Wake, Submit, GiveUpEarly, ReturnResult, GiveUp,
        SendHalt, Finish, jobVars
<1>2. ASSUME NEW h \in Gens, Connection(h) PROVE UNCHANGED canceled
  BY <1>2 DEF Connection, ConnStep, WriterStep, ReaderStep, FailStep, Read, WriterTake, WriterSend,
              WriterError, WriterQuit, FailDeliver, FailSend, FailDone, ReadOkId, ReadHalted,
              ReadErr, ReadData, ReadNoise, ReadBad, ReadEnd, SetId, HaltIfCanceled, TakeData,
              ReadDeliver, ReadSend, jobVars, connVars
<1>3. CASE UNCHANGED canceled
  BY <1>3
<1> QED
  BY <1>1, <1>2, <1>3
  DEF Next, Daemon, Supervise, ConnLost, SuperClosed, SuperEnd, SleepTimer, SleepClosed, DialFails,
      DialSucceeds, CloseStart, Closing, CloseRead, CloseFail, CloseEnd, AtRest, vars, connVars, jobVars

(* It leaves "halt" by queueing the halt; the record of lost halts grows.  *)
LEMMA HaltLeaves ==
  ASSUME TypeOK, [Next]_vars, NEW j \in Jobs, pc[j] = "halt"
  PROVE  pc'[j] = "halt" \/ EnqueueHalt(cur[j], jid[j], j)
<1>1. ASSUME NEW k \in Jobs, Caller(k), k # j PROVE pc'[j] = pc[j]
  BY <1>1, CallerMoves
<1>2. CASE Caller(j)
  BY <1>2 DEF Caller, CallerStep, Start, Acquire, Lookup, Wake, Submit, GiveUpEarly, ReturnResult, GiveUp,
              MarkCanceled, SendHalt
<1>3. CASE DialSucceeds
  BY <1>3 DEF DialSucceeds, Publish
<1>4. CASE UNCHANGED pc
  BY <1>4
<1> QED
  BY <1>1, <1>2, <1>3, <1>4
  DEF Next, Connection, Daemon, Supervise, ConnLost, SuperClosed, SuperEnd, SleepTimer, SleepClosed,
      DialFails, CloseStart, Closing, CloseRead, CloseFail, CloseEnd, AtRest, vars, callerVars

(* A halt that was reported lost stays so.                                 *)
LEMMA LostStays ==
  ASSUME [Next]_vars
  PROVE  lostHalts \subseteq lostHalts'
<1>1. ASSUME NEW k \in Jobs, Caller(k) PROVE lostHalts \subseteq lostHalts'
  BY <1>1 DEF Caller, CallerStep, Start, Acquire, Lookup, Wake, Submit, GiveUpEarly, ReturnResult,
              GiveUp, MarkCanceled, SendHalt, EnqueueHalt, Finish
<1>2. ASSUME NEW h \in Gens, Connection(h) PROVE lostHalts \subseteq lostHalts'
  BY <1>2 DEF Connection, ConnStep, WriterStep, ReaderStep, FailStep, Read, WriterTake, WriterSend,
              WriterError, WriterQuit, FailDeliver, FailSend, FailDone, ReadOkId, ReadHalted,
              ReadErr, ReadData, ReadNoise, ReadBad, ReadEnd, SetId, HaltIfCanceled, TakeData,
              ReadDeliver, ReadSend, EnqueueHalt, connVars
<1>3. CASE UNCHANGED lostHalts
  BY <1>3
<1> QED
  BY <1>1, <1>2, <1>3
  DEF Next, Daemon, Supervise, ConnLost, SuperClosed, SuperEnd, SleepTimer, SleepClosed, DialFails,
      DialSucceeds, CloseStart, Closing, CloseRead, CloseFail, CloseEnd, AtRest, vars, connVars

(* A mark sets the halt on its way, by the caller if it has the id and     *)
(* else by the reader that is about to bring it.                           *)
LEMMA ChasedStep ==
  ASSUME NEW g \in Gens, Ground, [Next]_vars, state[g] = "open", state'[g] = "open", Apart(g),
         Ended(g), Learned(g), Chased(g), \A j \in Jobs : HaltKnown(j)
  PROVE  Chased(g)'
<1>1. TypeOK /\ LifeInv /\ cause[g] = "none"
  BY OpenFacts DEF Ground
<1>2. SUFFICES ASSUME NEW i \in live'[g], canceled'[tasks'[g][i]] PROVE Stopping(g, i)'
  BY DEF Chased
<1>3. CASE i \notin live[g]
  BY <1>3, LiveBefore DEF Stopping
<1>4. CASE i \in live[g]
  <2>1. i \in DOMAIN tasks[g] /\ i \in Ids /\ i # 0
    BY <1>4, IdFacts DEF Ids
  <2>2. PICK j : j = tasks[g][i]
    OBVIOUS
  <2>3. tasks'[g][i] = j /\ j \in Jobs /\ Owned(g, j)
    BY <2>1, <2>2, TaskStays, TaskFacts
  <2>4. SUFFICES \/ Halt(i) \in Orders(g)'
                 \/ IdSent(g, i)'
                 \/ reader'[g].pc \in {"bound", "idset"} /\ reader'[g].id = i
                 \/ pc'[j] = "halt"
                 \/ j \in lostHalts'
    BY <2>3 DEF Stopping
  <2>5. CASE IdSent(g, i) \/ (reader[g].pc = "bound" /\ reader[g].id = i)
    BY <2>1, <2>2, <2>5, Carried
  <2>6. CASE canceled[j]
    <3>1. Stopping(g, i)
      BY <1>4, <2>2, <2>6 DEF Chased
    <3>2. CASE Halt(i) \in Orders(g)
      BY <1>1, <3>2, OrdersKept
    <3>3. CASE reader[g].pc = "idset" /\ reader[g].id = i
      BY <2>1, <2>2, <2>6, <3>3, Carried
    <3>4. CASE pc[j] = "halt"
      <4>1. jid[j] # 0 /\ cur[j] = g
        BY <1>1, <2>3, <3>4 DEF HaltKnown, Owned
      <4>2. IsTask(g, jid[j], j)
        BY <1>1, <2>3, <4>1 DEF Ground, DeliveryInv, JobTrue
      <4>3. jid[j] = i
        BY <2>1, <2>2, <4>2 DEF IsTask, Apart
      <4>4. CASE EnqueueHalt(g, i, j)
        BY <1>1, <2>1, <4>4, HaltHandedOver DEF Ids
      <4> QED
        BY <1>1, <2>3, <3>4, <4>1, <4>3, <4>4, HaltLeaves
    <3>5. CASE j \in lostHalts
      BY <3>5, LostStays
    <3> QED
      BY <2>2, <2>5, <3>1, <3>2, <3>3, <3>4, <3>5 DEF Stopping
  <2>7. CASE ~canceled[j]
    <3>1. ch[j] = None
      BY <1>4, <2>2, <2>3 DEF Ended, Over
    <3>2. CASE jid[j] = i
      BY <1>1, <1>2, <2>1, <2>3, <2>7, <3>1, <3>2, NewlyCanceled
    <3> QED
      BY <1>4, <2>2, <2>5, <3>2 DEF Learned, IdKnown
  <2> QED
    BY <2>6, <2>7
<1> QED
  BY <1>3, <1>4

(* session.halt goes on to the halt only with an id.                       *)
LEMMA HaltKnownStep ==
  ASSUME Ground, [Next]_vars, NEW j \in Jobs, HaltKnown(j)
  PROVE  HaltKnown(j)'
<1>1. TypeOK /\ LifeInv /\ Moves(j)
  BY JobMoves DEF Ground
<1>2. SUFFICES ASSUME pc'[j] = "halt" PROVE jid'[j] # 0 \/ (cur'[j] \in Gens /\ cause'[cur'[j]] = "closed")
  BY DEF HaltKnown
<1>3. \A g \in Gens : cause[g] = "closed" => cause'[g] = "closed"
  BY <1>1, ClosedStays
<1>4. jid[j] # 0 \/ (cur[j] \in Gens /\ cause[cur[j]] = "closed" /\ cur'[j] = cur[j])
  <2>1. CASE pc[j] = "halt"
    BY <1>1, <2>1 DEF HaltKnown, Moves, Late
  <2>2. CASE pc[j] # "halt"
    <3>1. ASSUME NEW k \in Jobs, Caller(k) PROVE jid[j] # 0
      <4>1. k = j
        BY <1>1, <1>2, <2>2, <3>1, CallerMoves
      <4> QED
        BY <1>1, <1>2, <2>2, <3>1, <4>1
        DEF Caller, CallerStep, Start, Acquire, Lookup, Wake, Submit, GiveUpEarly, ReturnResult, GiveUp,
            MarkCanceled, SendHalt, Finish, Goto, TypeOK
    <3>2. CASE DialSucceeds
      BY <1>2, <2>2, <3>2 DEF DialSucceeds, Publish
    <3>3. CASE UNCHANGED pc
      BY <1>2, <2>2, <3>3
    <3> QED
      BY <3>1, <3>2, <3>3
      DEF Next, Connection, Daemon, Supervise, ConnLost, SuperClosed, SuperEnd, SleepTimer, SleepClosed,
          DialFails, CloseStart, Closing, CloseRead, CloseFail, CloseEnd, AtRest, vars, callerVars
  <2> QED
    BY <2>1, <2>2
<1>5. CASE jid'[j] = jid[j]
  BY <1>3, <1>4, <1>5
<1>6. ASSUME NEW g \in Gens, Numbers(j, g)
      PROVE  jid'[j] # 0 \/ (cur'[j] \in Gens /\ cause'[cur'[j]] = "closed")
  <2>1. j \in Known(g) /\ j # Nil
    BY <1>6, SocketAssumption DEF Numbers, Known
  <2>2. cur'[j] = g
    BY <1>1, <2>1, KnownLate DEF Moves
  <2>3. CASE cause[g] = "closed"
    BY <1>3, <2>2, <2>3
  <2>4. CASE cause[g] # "closed"
    <3>1. reader[g].id \in DOMAIN tasks[g]
      BY <1>6, <2>4 DEF Numbers, Ground, DeliveryInv, DeliveryOf, Lawful, ReaderTrue, IsTask
    <3>2. reader[g].id # 0
      BY <1>1, <3>1, LinkTypes
    <3> QED
      BY <1>6, <3>2 DEF Numbers
  <2> QED
    BY <2>3, <2>4
<1> QED
  BY <1>1, <1>5, <1>6, JobTold

(* Only a dialled connection is published, and so used.                    *)
LEMMA PublishedStep ==
  ASSUME Ground, [Next]_vars, Published
  PROVE  Published'
<1>1. TypeOK /\ LifeInv
  BY DEF Ground
<1>2. \A g \in Gens : state[g] # "none" => state'[g] # "none"
  BY <1>1, LifeMoves DEF Lives
<1>3. conn \in Gens \cup {0} /\ \A j \in Jobs : cur[j] \in Gens \cup {0}
  BY <1>1 DEF TypeOK, GenOrNone
<1>4. conn' \in {conn, 0} \/ (conn' = gen + 1 /\ DialSucceeds)
  BY DEF Next, Caller, Connection, Daemon, Supervise, ConnLost, SuperClosed, SuperEnd, SleepTimer,
         SleepClosed, DialFails, DialSucceeds, Publish, CloseStart, Closing, CloseRead, CloseFail, CloseEnd,
         AtRest, vars, sessionVars
<1>5. conn' # 0 => state'[conn'] # "none"
  <2>1. CASE conn' \in {conn, 0}
    BY <1>2, <1>3, <2>1 DEF Published
  <2>2. CASE conn' = gen + 1 /\ DialSucceeds
    <3>1. gen + 1 \in Gens
      BY <1>1, <2>2, SocketAssumption DEF DialSucceeds, TypeOK, Gens
    <3>2. state' = [state EXCEPT ![gen + 1] = "open"]
      BY <2>2 DEF DialSucceeds
    <3> QED
      BY <1>1, <2>2, <3>1, <3>2 DEF TypeOK, ConnTypeOK
  <2> QED
    BY <1>4, <2>1, <2>2
<1>6. ASSUME NEW j \in Jobs PROVE cur'[j] \in {cur[j], conn}
  <2>1. ASSUME NEW k \in Jobs, Caller(k) PROVE cur'[j] \in {cur[j], conn}
    BY <1>1, <2>1 DEF Caller, CallerStep, Start, Acquire, Lookup, Wake, Submit, GiveUpEarly, ReturnResult,
                      GiveUp, MarkCanceled, SendHalt, Finish, TypeOK
  <2>2. CASE UNCHANGED cur
    BY <2>2
  <2> QED
    BY <2>1, <2>2
    DEF Next, Connection, Daemon, Supervise, ConnLost, SuperClosed, SuperEnd, SleepTimer, SleepClosed,
        DialFails, DialSucceeds, CloseStart, Closing, CloseRead, CloseFail, CloseEnd, AtRest, vars,
        callerVars
<1>7. \A j \in Jobs : cur'[j] # 0 => state'[cur'[j]] # "none"
  BY <1>2, <1>3, <1>6 DEF Published
<1> QED
  BY <1>5, <1>7 DEF Published

(* A connection that was just dialled has nothing to tidy.                 *)
LEMMA DialledTidy ==
  ASSUME NEW g \in Gens, Ground, Published, [Next]_vars, state[g] # "open", state'[g] = "open"
  PROVE  Tidy(g)' /\ Cleared(g)'
<1>1. TypeOK /\ LifeInv
  BY DEF Ground
<1>2. state[g] = "none"
  BY <1>1, LifeMoves DEF Lives
<1>3. Dialled(g)
  <2>1. ~Untouched(g) /\ ~Daemon(g) /\ \A j \in Jobs : ~Caller(j)
    BY <1>2 DEF Untouched, Daemon, connVars, Caller
  <2>2. ~ClosedBy(g)
    BY <1>1, FailNotOpen DEF ClosedBy
  <2>3. ~Connection(g)
    BY <1>1, <1>2, ConnLives DEF Connection, Lives, TypeOK
  <2> QED
    BY <1>1, <2>1, <2>2, <2>3, StepActsOn DEF ActsOn
<1>4. /\ toClient'[g] = <<>> /\ live'[g] = {} /\ ids'[g] = NoIds /\ reader'[g] = Idle
      /\ UNCHANGED <<writeCh, writer, toDaemon>>
  BY <1>3 DEF Dialled, Pristine
<1>5. Range(<<>>) = {} /\ DOMAIN <<>> = {}
  BY DEF Range
<1>6. \A j \in Jobs : Over(g, j)'
  <2>1. ASSUME NEW j \in Jobs PROVE j \notin Known(g)
    <3>1. cur[j] # g
      BY <1>2 DEF Published, Gens
    <3> QED
      BY <3>1, KnownLate, SocketAssumption
  <2>2. \A j \in Jobs : j \notin Names(writeCh[g]) /\ writer[g].req.of # j /\ j \notin Names(toDaemon[g])
    BY <1>1, <2>1, UnknownFacts
  <2> QED
    BY <1>4, <2>2 DEF Over
<1>7. reader'[g].pc = "idle" /\ \A i \in Ids : ids'[g][i] = Nil
  BY <1>4 DEF Idle, NoIds
<1>8. Ended(g)'
  BY <1>4, <1>5, <1>6 DEF Ended
<1>9. Fresh(g)' /\ OkFirst(toClient'[g]) /\ Learned(g)' /\ Chased(g)' /\ Cleared(g)'
  BY <1>4, <1>5, <1>7 DEF Fresh, OkFirst, Learned, Chased, Cleared, IdSent
<1> QED
  BY <1>8, <1>9 DEF Tidy

(***************************************************************************)
(* The theorems                                                            *)
(***************************************************************************)
LEMMA TableInit ==
  ASSUME Init
  PROVE  TableInv
<1>1. Range(<<>>) = {} /\ DOMAIN <<>> = {} /\ Names(<<>>) = {}
  BY DEF Range, Names
<1>2. 1 \in Gens /\ 0 \notin Gens
  BY SocketAssumption DEF Gens
<1>3. ASSUME NEW g \in Gens PROVE TableOf(g)
  <2>1. /\ toClient[g] = <<>> /\ toDaemon[g] = <<>> /\ writeCh[g] = <<>> /\ tasks[g] = <<>> /\ live[g] = {}
        /\ ids[g] = NoIds /\ reader[g].pc = "idle" /\ writer[g].req.of = Nil
    BY DEF Init, SocketInit, ConnInit, Idle, WriterIdle, Halt
  <2>2. \A j \in Jobs : ch[j] = None
    BY DEF Init, ConnInit
  <2>3. Apart(g)
    BY <1>1, <2>1, SocketAssumption DEF Apart, Once
  <2>4. Ended(g)
    BY <1>1, <2>1, <2>2 DEF Ended
  <2>5. Fresh(g) /\ OkFirst(toClient[g]) /\ Learned(g) /\ Chased(g) /\ Cleared(g)
    BY <1>1, <2>1 DEF Fresh, OkFirst, Learned, Chased, Cleared, IdSent, NoIds
  <2> QED
    BY <2>3, <2>4, <2>5 DEF TableOf, Tidy
<1>4. \A j \in Jobs : HaltKnown(j)
  BY DEF Init, HaltKnown
<1>5. Published
  BY <1>2 DEF Init, ConnInit, Published
<1> QED
  BY <1>3, <1>4, <1>5 DEF TableInv

(* The parts of TableInv together are inductive.                           *)
LEMMA TableStep ==
  ASSUME Ground, TableInv, [Next]_vars
  PROVE  TableInv'
<1>1. TypeOK /\ LifeInv /\ OwnedInv
  BY DEF Ground
<1>2. ASSUME NEW g \in Gens PROVE TableOf(g)'
  <2>1. Apart(g) /\ (state[g] = "open" => Tidy(g))
    BY DEF TableInv, TableOf
  <2>2. Apart(g)'
    BY <1>1, <2>1, ApartStep
  <2>3. ASSUME state[g] = "open", state'[g] = "open"
        PROVE  Tidy(g)' /\ (peer'[g] = "up" => Cleared(g)')
    <3>1. Ended(g) /\ OkFirst(toClient[g]) /\ Fresh(g) /\ Learned(g) /\ Chased(g)
      BY <2>1, <2>3 DEF Tidy
    <3>2. (peer[g] = "up" => Cleared(g)) /\ \A j \in Jobs : HaltKnown(j)
      BY <2>3 DEF TableInv, TableOf
    <3>3. Ended(g)'
      BY <2>1, <2>2, <2>3, <3>1, EndedStep
    <3>4. OkFirst(toClient'[g]) /\ Fresh(g)'
      BY <2>3, <3>1, FirstStep
    <3>5. Learned(g)'
      BY <2>1, <2>3, <3>1, LearnedStep
    <3>6. Chased(g)'
      BY <2>1, <2>3, <3>1, <3>2, ChasedStep
    <3>7. peer'[g] = "up" => Cleared(g)'
      BY <2>3, <3>1, <3>2, ClearedStep
    <3>8. Tidy(g)'
      BY <3>3, <3>4, <3>5, <3>6 DEF Tidy
    <3> QED
      BY <3>7, <3>8
  <2>4. ASSUME state[g] # "open", state'[g] = "open"
        PROVE  Tidy(g)' /\ Cleared(g)'
    BY <2>4, DialledTidy DEF TableInv
  <2> QED
    BY <2>2, <2>3, <2>4 DEF TableOf
<1>3. \A j \in Jobs : HaltKnown(j)'
  BY HaltKnownStep DEF TableInv
<1>4. Published'
  BY PublishedStep DEF TableInv
<1> QED
  BY <1>2, <1>3, <1>4 DEF TableInv

(* Until a connection fails, every job is in one place between submit and  *)
(* the daemon's task list, the client learns the id of every task, a given *)
(* up task has its halt somewhere, and the id table holds no leftovers.    *)
THEOREM TablesAreTidy == Spec => []TableInv
<1>1. Init => TableInv
  BY TableInit
<1>2. Ground /\ TableInv /\ [Next]_vars => TableInv'
  BY TableStep
<1>3. TypeOK /\ LifeInv /\ OwnedInv /\ AlignInv /\ DeliveryInv => Ground
  BY DEF Ground
<1> QED
  BY <1>1, <1>2, <1>3, TypeCorrect, ConnectionLife, JobHasOneConnection, RepliesInOrder, IdsAreTrue,
     PTL DEF Spec

(* halt and the check after setID together leave no window: a task whose   *)
(* caller gave up keeps running only if writeCh had no room for its halt.  *)
THEOREM NoHaltIsForgotten == Spec => []CancelNotForgotten
<1>1. TypeOK /\ TableInv => CancelNotForgotten
  <2> SUFFICES ASSUME TypeOK, TableInv, NEW g \in Gens, NEW i \in live[g], state[g] = "open",
                      canceled[tasks[g][i]]
               PROVE  HaltQueued(g, i) \/ HaltToCome(g, i) \/ tasks[g][i] \in lostHalts
    BY DEF CancelNotForgotten
  <2>1. Stopping(g, i)
    BY DEF TableInv, TableOf, Tidy, Chased
  <2>2. Halt(i) \in Orders(g) => HaltQueued(g, i)
    BY DEF Orders, Range, HaltQueued
  <2>3. IdSent(g, i) => \E k \in DOMAIN toClient[g] : toClient[g][k].t = "okid" /\ toClient[g][k].id = i
    BY DEF IdSent, Range
  <2> QED
    BY <2>1, <2>2, <2>3 DEF Stopping, HaltToCome
<1> QED
  BY <1>1, TypeCorrect, TablesAreTidy, PTL

(* handleData, handleLine and fail keep c.jobs to the tasks that still owe *)
(* something: no entry is leaked and no running task goes without one.     *)
THEOREM NothingIsLeaked == Spec => []IdTable
<1>1. Ground /\ TableInv => IdTable
  <2> SUFFICES ASSUME Ground, TableInv, NEW g \in Gens, NEW i \in Ids, state[g] = "open", peer[g] = "up"
               PROVE  /\ ids[g][i] # Nil =>
                           /\ i <= Len(tasks[g]) /\ ids[g][i] = tasks[g][i]
                           /\ i \in live[g] \/ ResultOnItsWay(g, i) \/ canceled[tasks[g][i]]
                      /\ i \in live[g] =>
                           \/ ids[g][i] = tasks[g][i]
                           \/ \E k \in DOMAIN toClient[g] : toClient[g][k].t = "okid" /\ toClient[g][k].id = i
    BY DEF IdTable
  <2>1. TypeOK /\ LifeInv
    BY DEF Ground
  <2>2. tasks[g] \in Seq(Jobs)
    BY <2>1, LinkTypes
  <2>3. TableTrue(g)
    BY <2>1, OpenFacts DEF Ground, DeliveryInv, DeliveryOf, Lawful
  <2>4. ASSUME ids[g][i] # Nil
        PROVE  i <= Len(tasks[g]) /\ ids[g][i] = tasks[g][i]
    BY <2>2, <2>3, <2>4 DEF TableTrue, IsTask
  <2>5. ids[g][i] # Nil => i \in live[g] \/ ResultSent(g, i) \/ canceled[tasks[g][i]]
    BY DEF TableInv, TableOf, Cleared
  <2>6. ResultSent(g, i) => ResultOnItsWay(g, i)
    BY DEF ResultSent, ResultOnItsWay, Range
  <2>7. i \in live[g] => Listed(g, i)
    BY DEF TableInv, TableOf, Tidy, Learned
  <2>8. IdSent(g, i) => \E k \in DOMAIN toClient[g] : toClient[g][k].t = "okid" /\ toClient[g][k].id = i
    BY DEF IdSent, Range
  <2> QED
    BY <2>4, <2>5, <2>6, <2>7, <2>8 DEF Listed
<1>2. TypeOK /\ LifeInv /\ OwnedInv /\ AlignInv /\ DeliveryInv => Ground
  BY DEF Ground
<1> QED
  BY <1>1, <1>2, TypeCorrect, ConnectionLife, JobHasOneConnection, RepliesInOrder, IdsAreTrue,
     TablesAreTidy, PTL
=============================================================================
