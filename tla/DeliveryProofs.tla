--------------------------- MODULE DeliveryProofs ---------------------------
(***************************************************************************)
(* Theorems about Session: which connection a job belongs to, which reply  *)
(* belongs to which command, and whose result a caller is given.           *)
(***************************************************************************)
EXTENDS SessionProofs

USE SocketAssumption, WriteCapAssumption

(***************************************************************************)
(* Sequences of commands and frames                                        *)
(***************************************************************************)
(* What the operators on sequences do to the elements.                     *)
LEMMA RangeFacts ==
  ASSUME NEW S, NEW s \in Seq(S)
  PROVE  /\ Range(s) \subseteq S
         /\ \A e \in S : Range(Append(s, e)) = Range(s) \cup {e}
         /\ s # <<>> => Head(s) \in S /\ Range(s) = {Head(s)} \cup Range(Tail(s))
         /\ \A n \in 0..Len(s) : Range(SubSeq(s, 1, n)) \subseteq Range(s)
<1>1. Range(s) \subseteq S
  BY RangeOfSeq
<1>2. ASSUME NEW e \in S PROVE Range(Append(s, e)) = Range(s) \cup {e}
  BY AppendProperties DEF Range
<1>3. ASSUME s # <<>> PROVE Head(s) \in S /\ Range(s) = {Head(s)} \cup Range(Tail(s))
  <2>1. /\ Len(s) \in Nat \ {0} /\ DOMAIN s = 1..Len(s)
        /\ Tail(s) \in Seq(S) /\ Len(Tail(s)) = Len(s) - 1
        /\ \A k \in 1..Len(Tail(s)) : Tail(s)[k] = s[k + 1]
        /\ Head(s) = s[1] /\ Head(s) \in S
    BY <1>3, HeadTailProperties, LenProperties
  <2>2. DOMAIN Tail(s) = 1..Len(Tail(s))
    BY <2>1, LenProperties
  <2>3. \A k \in DOMAIN s : k = 1 \/ (k - 1 \in DOMAIN Tail(s) /\ s[k] = Tail(s)[k - 1])
    BY <2>1, <2>2
  <2>4. \A k \in DOMAIN Tail(s) : k + 1 \in DOMAIN s /\ Tail(s)[k] = s[k + 1]
    BY <2>1, <2>2
  <2>5. 1 \in DOMAIN s
    BY <2>1
  <2>6. Range(s) \subseteq {Head(s)} \cup Range(Tail(s))
    BY <2>1, <2>3 DEF Range
  <2>7. Head(s) \in Range(s) /\ Range(Tail(s)) \subseteq Range(s)
    BY <2>1, <2>4, <2>5 DEF Range
  <2> QED
    BY <2>1, <2>6, <2>7
<1>4. ASSUME NEW n \in 0..Len(s) PROVE Range(SubSeq(s, 1, n)) \subseteq Range(s)
  <2>1. n \in Nat /\ n <= Len(s) /\ Len(s) \in Nat /\ DOMAIN s = 1..Len(s)
    BY LenProperties
  <2>2. \A i \in 1..n : s[i] \in S
    BY <2>1, ElementOfSeq
  <2>3. /\ SubSeq(s, 1, n) \in Seq(S) /\ Len(SubSeq(s, 1, n)) = n
        /\ \A i \in 1..n : SubSeq(s, 1, n)[i] = s[i]
    BY <2>1, <2>2, SubSeqProperties
  <2>4. DOMAIN SubSeq(s, 1, n) = 1..n
    BY <2>3, LenProperties
  <2> QED
    BY <2>1, <2>3, <2>4 DEF Range
<1> QED
  BY <1>1, <1>2, <1>3, <1>4

(* The jobs a sequence of commands or frames is about.                     *)
Names(s) == {e.of : e \in Range(s)}

(* What they do to the jobs that are named.                                *)
LEMMA NamesFacts ==
  ASSUME NEW S, NEW s \in Seq(S)
  PROVE  /\ \A e \in S : Names(Append(s, e)) = Names(s) \cup {e.of}
         /\ s # <<>> => Names(s) = {Head(s).of} \cup Names(Tail(s))
         /\ \A n \in 0..Len(s) : Names(SubSeq(s, 1, n)) \subseteq Names(s)
<1>1. ASSUME NEW e \in S PROVE Names(Append(s, e)) = Names(s) \cup {e.of}
  BY RangeFacts DEF Names
<1>2. ASSUME s # <<>> PROVE Names(s) = {Head(s).of} \cup Names(Tail(s))
  BY <1>2, RangeFacts DEF Names
<1>3. ASSUME NEW n \in 0..Len(s) PROVE Names(SubSeq(s, 1, n)) \subseteq Names(s)
  BY RangeFacts DEF Names
<1> QED
  BY <1>1, <1>2, <1>3

(* A reply and what is sent right behind it.                               *)
LEMMA AnswerNames ==
  ASSUME NEW S, NEW s \in Seq(S), NEW e \in S, NEW more \in Seq(S)
  PROVE  Names(Append(s, e) \o more) = Names(s) \cup {e.of} \cup Names(more)
<1>1. Append(s, e) \in Seq(S) /\ Range(Append(s, e)) = Range(s) \cup {e}
  BY AppendProperties, RangeFacts
<1>2. ASSUME NEW t \in Seq(S) PROVE Range(t \o more) = Range(t) \cup Range(more)
  BY RangeConcatenation
<1> QED
  BY <1>1, <1>2 DEF Names

(***************************************************************************)
(* What a step can touch                                                   *)
(***************************************************************************)
(* Connection h is left alone.                                             *)
Untouched(h) ==
  /\ UNCHANGED <<peer[h], toDaemon[h], toClient[h], tasks[h], live[h], replies[h]>>
  /\ UNCHANGED <<state[h], cause[h], writeCh[h], replyQ[h], ids[h], victims[h], writer[h],
                 reader[h]>>

(* The daemon of one connection does nothing to another,                   *)
LEMMA DaemonElsewhere ==
  ASSUME NEW g \in Gens, NEW h \in Gens, h # g, SocketTypeOK, DaemonStep(g)
  PROVE  UNCHANGED <<peer[h], toDaemon[h], toClient[h], tasks[h], live[h], replies[h]>>
<1> USE DEF SocketTypeOK
<1>1. ASSUME NEW kind, NEW i, NEW more, Answer(g, kind, i, more)
      PROVE  UNCHANGED <<toDaemon[h], toClient[h], replies[h]>>
  BY <1>1 DEF Answer
<1>2. CASE AcceptTrace(g)
  BY <1>1, <1>2 DEF AcceptTrace
<1>3. CASE RejectTrace(g)
  BY <1>1, <1>3 DEF RejectTrace
<1>4. CASE AnswerHalt(g)
  <2>1. UNCHANGED <<toDaemon[h], toClient[h], replies[h]>>
    BY <1>1, <1>4 DEF AnswerHalt
  <2> QED
    BY <1>4, <2>1 DEF AnswerHalt
<1>5. ASSUME NEW i \in live[g], NEW kind \in DataKinds, SendData(g, i, kind)
      PROVE  UNCHANGED <<peer[h], toDaemon[h], toClient[h], tasks[h], live[h], replies[h]>>
  BY <1>5 DEF SendData
<1>6. CASE SendOther(g)
  BY <1>6 DEF SendOther
<1>7. CASE Drop(g)
  BY <1>7 DEF Drop
<1> QED
  BY <1>2, <1>3, <1>4, <1>5, <1>6, <1>7 DEF DaemonStep, DaemonAnswer

(* nor does fail,                                                          *)
LEMMA FailElsewhere ==
  ASSUME NEW g \in Gens, NEW h \in Gens, h # g, SocketTypeOK, ConnTypeOK, NEW why, Fail(g, why)
  PROVE  /\ UNCHANGED <<peer[h], toDaemon[h], toClient[h], tasks[h], live[h], replies[h]>>
         /\ UNCHANGED <<state[h], cause[h], replyQ[h], ids[h], victims[h]>>
BY DEF Fail, CloseSocket, socketVars, SocketTypeOK, ConnTypeOK

(* nor do the goroutines of a connection.                                  *)
LEMMA ConnElsewhere ==
  ASSUME NEW g \in Gens, NEW h \in Gens, h # g, SocketTypeOK, ConnTypeOK, ConnStep(g)
  PROVE  Untouched(h)
<1>0. ASSUME NEW why, Fail(g, why), UNCHANGED <<writeCh[h], writer[h], reader[h]>> PROVE Untouched(h)
  BY <1>0, FailElsewhere DEF Untouched
<1> USE DEF SocketTypeOK, ConnTypeOK, Untouched, socketVars
<1>1. CASE WriterTake(g)
  BY <1>1 DEF WriterTake
<1>2. CASE WriterSend(g)
  BY <1>2 DEF WriterSend, Transmit
<1>3. CASE WriterError(g)
  <2>1. Fail(g, "unavailable")
    BY <1>3 DEF WriterError
  <2>2. UNCHANGED <<writeCh[h], writer[h], reader[h]>>
    BY <1>3 DEF WriterError
  <2> QED
    BY <1>0, <2>1, <2>2, Zenon
<1>4. CASE WriterQuit(g)
  BY <1>4 DEF WriterQuit
<1>5. CASE FailDeliver(g) \/ FailSend(g)
  BY <1>5 DEF FailDeliver, FailSend
<1>6. CASE FailDone(g)
  BY <1>6 DEF FailDone
<1>7. CASE ReadOkId(g)
  BY <1>7 DEF ReadOkId, Consume, PopReply
<1>8. CASE ReadHalted(g)
  BY <1>8 DEF ReadHalted, Consume, PopReply
<1>9. CASE ReadErr(g)
  BY <1>9 DEF ReadErr, Consume, PopReply
<1>10. CASE ReadData(g)
  BY <1>10 DEF ReadData, Consume
<1>11. CASE ReadNoise(g)
  BY <1>11 DEF ReadNoise, Consume, connVars
<1>12. CASE ReadBad(g)
  <2>1. Fail(g, "protocol")
    BY <1>12 DEF ReadBad
  <2>2. UNCHANGED <<writeCh[h], writer[h], reader[h]>>
    BY <1>12 DEF ReadBad
  <2> QED
    BY <1>0, <2>1, <2>2, Zenon
<1>13. CASE ReadEnd(g)
  <2>1. Fail(g, "unavailable")
    BY <1>13 DEF ReadEnd
  <2>2. UNCHANGED <<writeCh[h], writer[h], reader[h]>>
    BY <1>13 DEF ReadEnd
  <2> QED
    BY <1>0, <2>1, <2>2, Zenon
<1>14. CASE SetId(g)
  BY <1>14 DEF SetId
<1>15. CASE HaltIfCanceled(g)
  BY <1>15 DEF HaltIfCanceled, EnqueueHalt
<1>16. CASE TakeData(g)
  BY <1>16 DEF TakeData
<1>17. CASE ReadDeliver(g)
  BY <1>17 DEF ReadDeliver
<1>18. CASE ReadSend(g)
  BY <1>18 DEF ReadSend
<1> QED
  BY <1>1, <1>2, <1>3, <1>4, <1>5, <1>6, <1>7, <1>8, <1>9, <1>10, <1>11, <1>12, <1>13, <1>14,
     <1>15, <1>16, <1>17, <1>18
  DEF ConnStep, WriterStep, FailStep, ReaderStep, Read

(***************************************************************************)
(* The life of a connection                                                *)
(***************************************************************************)
(* Nobody has used a connection that has not been dialled.                 *)
Pristine(g) ==
  /\ peer[g] = "down" /\ toDaemon[g] = <<>> /\ toClient[g] = <<>> /\ tasks[g] = <<>>
  /\ live[g] = {} /\ replies[g] = 0
  /\ cause[g] = "none" /\ replyQ[g] = <<>> /\ ids[g] = NoIds /\ victims[g] = {}
  /\ writer[g] = WriterIdle /\ reader[g] = Idle

(* The state of a connection says whether it has a cause and victims.      *)
LifeOf(g) ==
  /\ cause[g] = "none" <=> state[g] \in {"none", "open"}
  /\ state[g] # "failing" => victims[g] = {}
  /\ cause[g] = "closed" => closed

LifeInv ==
  /\ \A g \in Gens : /\ g > gen => state[g] = "none"
                     /\ state[g] = "none" => Pristine(g)
                     /\ LifeOf(g)
  /\ closer # "idle" => closed

(* How a connection gets on in one step.                                   *)
Lives(g) ==
  \/ state'[g] = state[g] /\ cause'[g] = cause[g] /\ victims'[g] \subseteq victims[g]
  \/ /\ state[g] = "open" /\ state'[g] = "failing" /\ cause'[g] \in Causes
     /\ cause'[g] = "closed" => closed'
  \/ /\ state[g] = "failing" /\ state'[g] = "dead" /\ cause'[g] = cause[g]
     /\ victims[g] = {} /\ victims'[g] = {}

(* fail takes an open connection one step on.                              *)
LEMMA FailLives ==
  ASSUME NEW g \in Gens, ConnTypeOK, NEW why \in Causes, Fail(g, why),
         why = "closed" => closed'
  PROVE  Lives(g)
BY DEF Fail, Lives, ConnTypeOK

(* Its goroutines run only on a connection that was dialled.               *)
LEMMA ConnLives ==
  ASSUME NEW g \in Gens, TypeOK, LifeInv, ConnStep(g)
  PROVE  state[g] # "none" /\ Lives(g)
<1> USE DEF ConnTypeOK
<1>1. ConnTypeOK /\ "unavailable" \in Causes /\ "protocol" \in Causes
  BY DEF TypeOK, Causes
<1>2. ASSUME UNCHANGED <<state, cause, victims>> PROVE Lives(g)
  BY <1>2 DEF Lives
<1>3. state[g] = "none" => writer[g].pc = "idle" /\ reader[g].pc = "idle" /\ peer[g] = "down"
  BY DEF LifeInv, Pristine, WriterIdle, Idle
<1>4. CASE WriterTake(g) \/ WriterSend(g) \/ WriterQuit(g)
  BY <1>2, <1>3, <1>4 DEF WriterTake, WriterSend, WriterQuit, dead
<1>5. CASE WriterError(g)
  BY <1>1, <1>3, <1>5, FailLives DEF WriterError
<1>6. CASE FailDeliver(g) \/ FailSend(g)
  <2>1. state[g] # "none"
    BY <1>6 DEF FailDeliver, FailSend, Telling, LifeInv, Pristine
  <2>2. state'[g] = state[g] /\ cause'[g] = cause[g] /\ victims'[g] \subseteq victims[g]
    BY <1>1, <1>6 DEF FailDeliver, FailSend
  <2> QED
    BY <2>1, <2>2 DEF Lives
<1>7. CASE FailDone(g)
  BY <1>1, <1>7 DEF FailDone, Lives
<1>8. CASE ReadOkId(g) \/ ReadHalted(g) \/ ReadErr(g) \/ ReadData(g) \/ ReadNoise(g)
  BY <1>2, <1>8 DEF ReadOkId, ReadHalted, ReadErr, ReadData, ReadNoise, Receive, connVars
<1>9. CASE ReadBad(g) \/ ReadEnd(g)
  BY <1>1, <1>9, FailLives DEF ReadBad, ReadEnd, Receive
<1>10. CASE SetId(g) \/ HaltIfCanceled(g) \/ TakeData(g) \/ ReadDeliver(g) \/ ReadSend(g)
  BY <1>2, <1>3, <1>10 DEF SetId, HaltIfCanceled, TakeData, ReadDeliver, ReadSend
<1> QED
  BY <1>4, <1>5, <1>6, <1>7, <1>8, <1>9, <1>10
  DEF ConnStep, WriterStep, FailStep, ReaderStep, Read

(* The daemon answers only on a connection that was dialled.               *)
LEMMA DaemonLives ==
  ASSUME NEW g \in Gens, TypeOK, LifeInv, DaemonStep(g)
  PROVE  state[g] # "none"
<1>1. peer[g] = "up"
  BY DEF DaemonStep, DaemonAnswer, AcceptTrace, RejectTrace, AnswerHalt, SendData, SendOther, Drop,
         Room
<1> QED
  BY <1>1 DEF LifeInv, Pristine

(* The steps that are not a dial.                                          *)
LEMMA LifeKept ==
  ASSUME TypeOK, TypeOK', LifeInv,
         \A g \in Gens : Lives(g) /\ (state[g] = "none" => Untouched(g)),
         closed => closed', gen <= gen', closer' # "idle" => closed'
  PROVE  LifeInv'
<1>1. ASSUME NEW g \in Gens
      PROVE  (g > gen => state[g] = "none")' /\ LifeOf(g)'
  <2>1. g \in Nat /\ gen \in Nat /\ gen' \in Nat
    BY DEF TypeOK, Gens
  <2>2. Lives(g) /\ LifeOf(g) /\ (g > gen => state[g] = "none")
    BY DEF LifeInv
  <2>3. LifeOf(g)'
    BY <2>2 DEF Lives, LifeOf, Causes
  <2> QED
    BY <2>1, <2>2, <2>3 DEF Lives
<1>2. ASSUME NEW g \in Gens, state'[g] = "none"
      PROVE  Pristine(g)'
  <2>1. state[g] = "none"
    BY <1>2 DEF Lives
  <2>2. Untouched(g) /\ Pristine(g)
    BY <2>1 DEF LifeInv
  <2> QED
    BY <2>2 DEF Untouched, Pristine
<1> QED
  BY <1>1, <1>2 DEF LifeInv

(* A step that leaves every connection alone.                              *)
LEMMA LifeUntouched ==
  ASSUME UNCHANGED <<state, cause, victims>>, NEW g \in Gens
  PROVE  Lives(g)
BY DEF Lives

(* Every behaviour of the session keeps LifeInv.                           *)
LEMMA LifeStep ==
  ASSUME TypeOK, TypeOK', LifeInv, [Next]_vars
  PROVE  LifeInv'
<1> DEFINE Quiet == \A g \in Gens : state[g] = "none" => Untouched(g)
<1>0. gen \in Nat /\ (closer # "idle" => closed)
  BY DEF TypeOK, Gens, LifeInv
<1>1. ASSUME NEW j \in Jobs, Caller(j) PROVE LifeInv'
  <2>1. /\ UNCHANGED <<peer, toDaemon, toClient, tasks, live, replies>>
        /\ UNCHANGED <<state, cause, replyQ, ids, victims, writer, reader>>
        /\ UNCHANGED <<gen, closed, closer>>
    BY <1>1 DEF Caller, socketVars, sessionVars
  <2> QED
    BY <2>1 DEF LifeInv, LifeOf, Pristine
<1>2. ASSUME NEW g \in Gens, Connection(g) PROVE LifeInv'
  <2>1. UNCHANGED <<gen, closed, closer>> /\ ConnStep(g)
    BY <1>2 DEF Connection, sessionVars
  <2>2. \A h \in Gens \ {g} : Untouched(h)
    BY <2>1, ConnElsewhere DEF TypeOK
  <2>3. \A h \in Gens \ {g} : Lives(h)
    BY <2>2 DEF Untouched, Lives
  <2>4. state[g] # "none" /\ Lives(g)
    BY <2>1, ConnLives
  <2>5. gen <= gen'
    BY <1>0, <2>1
  <2> QED
    BY <1>0, <2>1, <2>2, <2>3, <2>4, <2>5, LifeKept
<1>3. ASSUME NEW g \in Gens, Daemon(g) PROVE LifeInv'
  <2>1. UNCHANGED <<gen, closed, closer, connVars>> /\ DaemonStep(g)
    BY <1>3 DEF Daemon, sessionVars
  <2>2. \A h \in Gens \ {g} : Untouched(h)
    BY <2>1, DaemonElsewhere DEF TypeOK, Untouched, connVars
  <2>3. \A h \in Gens : Lives(h)
    BY <2>1, LifeUntouched DEF connVars
  <2>4. state[g] # "none"
    BY <2>1, DaemonLives
  <2>5. gen <= gen'
    BY <1>0, <2>1
  <2> QED
    BY <1>0, <2>1, <2>2, <2>3, <2>4, <2>5, LifeKept
<1>4. ASSUME NEW g \in Gens, Fail(g, "closed"), closed,
             UNCHANGED <<writeCh, writer, reader, gen, closed>>
      PROVE  LifeInv'
  <2>1. "closed" \in Causes /\ ConnTypeOK /\ SocketTypeOK
    BY DEF Causes, TypeOK
  <2>2. \A h \in Gens \ {g} : Untouched(h)
    BY <1>4, <2>1, FailElsewhere DEF Untouched
  <2>3. \A h \in Gens \ {g} : Lives(h)
    BY <2>2 DEF Untouched, Lives
  <2>4. Lives(g)
    BY <1>4, <2>1, FailLives
  <2>5. state[g] = "none" => Untouched(g)
    BY <1>4 DEF Fail, Untouched, socketVars
  <2>6. gen <= gen' /\ closed'
    BY <1>0, <1>4
  <2> QED
    BY <1>0, <2>2, <2>3, <2>4, <2>5, <2>6, LifeKept
<1>5. ASSUME UNCHANGED <<socketVars, connVars>>, closed => closed', gen <= gen',
             closer' # "idle" => closed'
      PROVE  LifeInv'
  <2>1. \A g \in Gens : Lives(g)
    BY <1>5, LifeUntouched DEF connVars
  <2>2. \A g \in Gens : Untouched(g)
    BY <1>5 DEF connVars, socketVars, Untouched
  <2> QED
    BY <1>5, <2>1, <2>2, LifeKept
<1>6. CASE ConnLost \/ SuperEnd \/ SleepTimer \/ SleepClosed
  <2>1. UNCHANGED <<socketVars, connVars, closed, gen, closer>>
    BY <1>6 DEF ConnLost, SuperEnd, SleepTimer, SleepClosed
  <2> QED
    BY <1>0, <1>5, <2>1
<1>7. CASE DialFails
  <2>1. UNCHANGED <<socketVars, connVars, closed, closer>> /\ gen' \in {gen, gen + 1}
    BY <1>7 DEF DialFails
  <2> QED
    BY <1>0, <1>5, <2>1
<1>8. CASE DialSucceeds
  <2> DEFINE new == gen + 1
  <2>1. new \in Gens /\ new > gen
    BY <1>0, <1>8 DEF DialSucceeds, Gens
  <2>2. state[new] = "none" /\ Pristine(new)
    BY <2>1 DEF LifeInv
  <2>3. /\ gen' = new /\ state' = [state EXCEPT ![new] = "open"]
        /\ UNCHANGED <<cause, replyQ, ids, victims, writer, reader, closed, closer>>
        /\ peer' = [peer EXCEPT ![new] = "up"]
        /\ UNCHANGED <<toDaemon, toClient, tasks, live, replies>>
    BY <1>8 DEF DialSucceeds, Connect
  <2>4. \A g \in Gens : state'[g] = IF g = new THEN "open" ELSE state[g]
    BY <2>3 DEF TypeOK, ConnTypeOK
  <2>5. \A g \in Gens : g # new => peer'[g] = peer[g]
    BY <2>3 DEF TypeOK, SocketTypeOK
  <2>6. ASSUME NEW g \in Gens PROVE LifeOf(g)' /\ (g > gen' => state'[g] = "none")
    <3>1. g \in Nat
      BY DEF Gens
    <3> QED
      BY <1>0, <2>2, <2>3, <2>4, <3>1 DEF LifeInv, LifeOf, Pristine
  <2>7. ASSUME NEW g \in Gens, state'[g] = "none" PROVE Pristine(g)'
    <3>1. g # new /\ Pristine(g)
      BY <2>4, <2>7 DEF LifeInv
    <3> QED
      BY <2>3, <2>5, <3>1 DEF Pristine
  <2> QED
    BY <1>0, <2>3, <2>6, <2>7 DEF LifeInv
<1>9. CASE SuperClosed
  <2>1. /\ superConn \in Gens /\ Fail(superConn, "closed") /\ closed
        /\ UNCHANGED <<writeCh, writer, reader, gen, closed>>
    BY <1>9 DEF SuperClosed, TypeOK
  <2> QED
    BY <1>4, <2>1
<1>10. CASE CloseFail
  <2>1. /\ closeConn \in Gens /\ Fail(closeConn, "closed") /\ closed
        /\ UNCHANGED <<writeCh, writer, reader, gen, closed>>
    BY <1>0, <1>10 DEF CloseFail, TypeOK, GenOrNone
  <2> QED
    BY <1>4, <2>1
<1>11. CASE CloseStart \/ CloseRead \/ CloseEnd
  <2>1. UNCHANGED <<socketVars, connVars, gen>> /\ closed'
    BY <1>0, <1>11 DEF CloseStart, CloseRead, CloseEnd
  <2> QED
    BY <1>0, <1>5, <2>1
<1>12. CASE UNCHANGED vars
  BY <1>0, <1>5, <1>12 DEF vars, sessionVars
<1> QED
  BY <1>1, <1>2, <1>3, <1>6, <1>7, <1>8, <1>9, <1>10, <1>11, <1>12
  DEF Next, Supervise, Closing, AtRest

(* A connection that has not been dialled is as it was created, and one    *)
(* has a cause of its end from the moment fail begins.                     *)
THEOREM ConnectionLife == Spec => []LifeInv
<1>1. Init => LifeInv
  BY DEF Init, SocketInit, ConnInit, LifeInv, LifeOf, Pristine, Gens
<1>2. TypeOK /\ TypeOK' /\ LifeInv /\ [Next]_vars => LifeInv'
  BY LifeStep
<1> QED
  BY <1>1, <1>2, TypeCorrect, PTL DEF Spec

(***************************************************************************)
(* The connection a job belongs to                                         *)
(***************************************************************************)
(* The jobs connection g has ever had to do with: in its queues and        *)
(* tables, in the hands of its goroutines, on the socket, at the daemon.   *)
Known(g) ==
  UNION {Names(writeCh[g]), Names(toDaemon[g]), Names(toClient[g]), Range(tasks[g]),
         Range(replyQ[g]), Range(ids[g]), victims[g], {writer[g].req.of, reader[g].job}}

(* A caller that has submitted its job stays past the submit ...           *)
Late == {"await", "mark", "halt", "done"}

(* ... and the connection it submitted the job to is the only one that     *)
(* ever knows it.                                                          *)
Owned(g, j) == cur[j] = g /\ pc[j] \in Late
OwnedInv == \A g \in Gens : \A j \in Known(g) \ {Nil} : Owned(g, j)

(* What the queues of a connection know.                                   *)
LEMMA QueueFacts ==
  ASSUME NEW g \in Gens, TypeOK
  PROVE  /\ writeCh[g] # <<>> =>
              Head(writeCh[g]) \in Commands /\ Names(writeCh[g]) = {Head(writeCh[g]).of} \cup Names(Tail(writeCh[g]))
         /\ toDaemon[g] # <<>> =>
              Head(toDaemon[g]) \in Commands /\ Names(toDaemon[g]) = {Head(toDaemon[g]).of} \cup Names(Tail(toDaemon[g]))
         /\ toClient[g] # <<>> =>
              frame(g) \in Frames /\ Names(toClient[g]) = {frame(g).of} \cup Names(Tail(toClient[g]))
         /\ replyQ[g] # <<>> =>
              Head(replyQ[g]) \in JobOrNil /\ Range(replyQ[g]) = {Head(replyQ[g])} \cup Range(Tail(replyQ[g]))
         /\ NextReply(g) \in Range(replyQ[g]) \cup {Nil}
<1>1. /\ writeCh[g] \in Seq(Commands) /\ toDaemon[g] \in Seq(Commands)
      /\ toClient[g] \in Seq(Frames) /\ replyQ[g] \in Seq(JobOrNil)
  BY DEF TypeOK, SocketTypeOK, ConnTypeOK
<1>2. writeCh[g] # <<>> =>
        Head(writeCh[g]) \in Commands /\ Names(writeCh[g]) = {Head(writeCh[g]).of} \cup Names(Tail(writeCh[g]))
  BY <1>1, NamesFacts, RangeFacts
<1>3. toDaemon[g] # <<>> =>
        Head(toDaemon[g]) \in Commands /\ Names(toDaemon[g]) = {Head(toDaemon[g]).of} \cup Names(Tail(toDaemon[g]))
  BY <1>1, NamesFacts, RangeFacts
<1>4. toClient[g] # <<>> =>
        frame(g) \in Frames /\ Names(toClient[g]) = {frame(g).of} \cup Names(Tail(toClient[g]))
  BY <1>1, NamesFacts, RangeFacts DEF frame
<1>5. replyQ[g] # <<>> =>
        Head(replyQ[g]) \in JobOrNil /\ Range(replyQ[g]) = {Head(replyQ[g])} \cup Range(Tail(replyQ[g]))
  BY <1>1, RangeFacts
<1> QED
  BY <1>2, <1>3, <1>4, <1>5 DEF NextReply

(* Setting one entry of the id table adds one job at most.                 *)
LEMMA IdsRange ==
  ASSUME NEW g \in Gens, NEW i, NEW j, TypeOK
  PROVE  Range([ids[g] EXCEPT ![i] = j]) \subseteq Range(ids[g]) \cup {j}
BY DEF Range

(* What is known are jobs.                                                 *)
LEMMA KnownJobs ==
  ASSUME NEW g \in Gens, TypeOK
  PROVE  Known(g) \subseteq JobOrNil
<1>1. /\ writeCh[g] \in Seq(Commands) /\ toDaemon[g] \in Seq(Commands)
      /\ toClient[g] \in Seq(Frames) /\ replyQ[g] \in Seq(JobOrNil)
      /\ tasks[g] \in Seq(Jobs) /\ ids[g] \in [Ids -> JobOrNil]
      /\ victims[g] \subseteq Jobs /\ writer[g].req \in Commands /\ reader[g].job \in JobOrNil
  BY DEF TypeOK, SocketTypeOK, ConnTypeOK
<1>2. (\A c \in Commands : c.of \in JobOrNil) /\ (\A f \in Frames : f.of \in JobOrNil)
  BY DEF Commands, Frames, JobOrNil
<1>3. /\ Range(writeCh[g]) \subseteq Commands /\ Range(toDaemon[g]) \subseteq Commands
      /\ Range(toClient[g]) \subseteq Frames /\ Range(replyQ[g]) \subseteq JobOrNil
      /\ Range(tasks[g]) \subseteq Jobs
  BY <1>1, RangeOfSeq
<1>4. Range(ids[g]) \subseteq JobOrNil
  BY <1>1 DEF Range
<1> QED
  BY <1>1, <1>2, <1>3, <1>4 DEF Known, Names, JobOrNil

(* Closing the socket and failing a connection tell it of no new job,      *)
LEMMA FailKnown ==
  ASSUME NEW g \in Gens, TypeOK, NEW why, Fail(g, why),
         UNCHANGED <<Names(writeCh[g])>>,
         writer'[g].req.of \in {writer[g].req.of, Nil},
         reader'[g].job \in {reader[g].job, Nil}
  PROVE  Known(g)' \subseteq Known(g) \cup {Nil}
<1>1. CASE state[g] # "open"
  BY <1>1 DEF Fail, Known, socketVars
<1>2. CASE state[g] = "open"
  <2>1. PICK kept \in 0..Len(toClient[g]) :
          toClient' = [toClient EXCEPT ![g] = SubSeq(toClient[g], 1, kept)]
    BY <1>2 DEF Fail, CloseSocket
  <2>2. Names(toClient'[g]) \subseteq Names(toClient[g])
    <3>1. toClient[g] \in Seq(Frames) /\ toClient'[g] = SubSeq(toClient[g], 1, kept)
      BY <2>1 DEF TypeOK, SocketTypeOK
    <3> QED
      BY <3>1, NamesFacts
  <2>3. /\ toDaemon'[g] = <<>> /\ tasks' = tasks /\ replyQ'[g] = <<>> /\ ids'[g] = NoIds
        /\ victims'[g] = Pending(g)
    BY <1>2 DEF Fail, CloseSocket, TypeOK, SocketTypeOK, ConnTypeOK
  <2>4. Pending(g) \subseteq Range(replyQ[g]) \cup Range(ids[g])
    <3>1. DOMAIN ids[g] = Ids
      BY DEF TypeOK, ConnTypeOK
    <3> QED
      BY <3>1 DEF Pending, Range
  <2>5. Range(<<>>) = {} /\ Names(<<>>) = {}
    BY DEF Range, Names
  <2>6. Range(NoIds) \subseteq {Nil}
    BY DEF Range, NoIds
  <2>7. Names(writeCh'[g]) = Names(writeCh[g])
    OBVIOUS
  <2> QED
    BY <2>2, <2>3, <2>4, <2>5, <2>6, <2>7 DEF Known
<1> QED
  BY <1>1, <1>2

(* nor does anything else its goroutines do: a job moves from one place to *)
(* another.                                                                *)
LEMMA ConnKnown ==
  ASSUME NEW g \in Gens, TypeOK, ConnStep(g)
  PROVE  Known(g)' \subseteq Known(g) \cup {Nil}
<1> DEFINE Link == Names(toDaemon[g]) \cup Names(toClient[g]) \cup Range(tasks[g])
           Queued == Names(writeCh[g])
           Tables == Range(replyQ[g]) \cup Range(ids[g])
           Held == {writer[g].req.of, reader[g].job} \cup victims[g]
<1>1. Known(g) = UNION {Link, Queued, Tables, Held} /\ Known(g)' = UNION {Link', Queued', Tables', Held'}
  BY DEF Known
<1> USE DEF TypeOK
<1>2. ASSUME Consume(g), toClient[g] # <<>> PROVE Link' \subseteq Link
  <2>1. Names(Tail(toClient[g])) \subseteq Names(toClient[g])
    BY <1>2, QueueFacts
  <2>2. toClient'[g] = Tail(toClient[g]) /\ UNCHANGED <<toDaemon, tasks>>
    BY <1>2 DEF Consume, SocketTypeOK
  <2> QED
    BY <2>1, <2>2
<1>3. ASSUME PopReply(g) PROVE Range(replyQ'[g]) \subseteq Range(replyQ[g])
  BY <1>3, QueueFacts DEF PopReply, ConnTypeOK
<1>4. ASSUME NEW i, NEW j, EnqueueHalt(g, i, j), i \in Nat
      PROVE  Queued' \subseteq Queued \cup {Nil}
  <2>1. CASE writeCh' = writeCh
    BY <2>1
  <2>2. CASE writeCh' = [writeCh EXCEPT ![g] = Append(@, Halt(i))]
    <3>1. writeCh[g] \in Seq(Commands) /\ Halt(i) \in Commands /\ Halt(i).of = Nil
      BY <1>4 DEF ConnTypeOK, Halt, Commands
    <3>2. writeCh'[g] = Append(writeCh[g], Halt(i))
      BY <2>2 DEF ConnTypeOK
    <3> QED
      BY <3>1, <3>2, NamesFacts
  <2> QED
    BY <1>4, <2>1, <2>2 DEF EnqueueHalt
<1>5. CASE WriterTake(g)
  <2> DEFINE req == Head(writeCh[g])
  <2>1. /\ writeCh[g] # <<>> /\ writeCh'[g] = Tail(writeCh[g])
        /\ replyQ'[g] = Append(replyQ[g], req.of)
        /\ writer'[g] = [pc |-> "write", req |-> req]
        /\ UNCHANGED <<socketVars, ids, victims, reader>>
    BY <1>5 DEF WriterTake, ConnTypeOK
  <2>2. req \in Commands /\ req.of \in JobOrNil /\ Queued = {req.of} \cup Queued'
    BY <2>1, QueueFacts DEF Commands, JobOrNil
  <2>3. Range(replyQ'[g]) = Range(replyQ[g]) \cup {req.of}
    BY <2>1, <2>2, RangeFacts DEF ConnTypeOK
  <2>4. Link' = Link
    BY <2>1 DEF socketVars
  <2> QED
    BY <1>1, <2>1, <2>2, <2>3, <2>4
<1>6. CASE WriterSend(g)
  <2>1. /\ toDaemon'[g] = Append(toDaemon[g], writer[g].req) /\ writer'[g].req.of = Nil
        /\ UNCHANGED <<toClient, tasks, writeCh, replyQ, ids, victims, reader>>
    BY <1>6 DEF WriterSend, Transmit, SocketTypeOK, ConnTypeOK, WriterIdle, Halt
  <2>2. Names(toDaemon'[g]) = Names(toDaemon[g]) \cup {writer[g].req.of}
    <3>1. toDaemon[g] \in Seq(Commands) /\ writer[g].req \in Commands
      BY DEF SocketTypeOK, ConnTypeOK
    <3> QED
      BY <2>1, <3>1, NamesFacts
  <2> QED
    BY <1>1, <2>1, <2>2
<1>7. CASE WriterError(g)
  <2>1. /\ Fail(g, "unavailable") /\ writer'[g].req.of = Nil
        /\ UNCHANGED <<writeCh, reader>>
    BY <1>7 DEF WriterError, ConnTypeOK, WriterStopped, Halt
  <2> QED
    BY <2>1, FailKnown
<1>8. CASE WriterQuit(g)
  <2>1. writer'[g].req.of = Nil /\ UNCHANGED <<socketVars, writeCh, replyQ, ids, victims, reader>>
    BY <1>8 DEF WriterQuit, ConnTypeOK, WriterStopped, Halt
  <2> QED
    BY <1>1, <2>1 DEF socketVars
<1>9. CASE FailStep(g)
  <2>1. /\ victims'[g] \subseteq victims[g]
        /\ UNCHANGED <<socketVars, writeCh, replyQ, ids, writer, reader>>
    BY <1>9 DEF FailStep, FailDeliver, FailSend, FailDone, ConnTypeOK
  <2> QED
    BY <1>1, <2>1 DEF socketVars
<1>10. CASE ReadOkId(g)
  <2>1. /\ toClient[g] # <<>> /\ Consume(g) /\ PopReply(g)
        /\ UNCHANGED <<writeCh, victims, writer>>
    BY <1>10 DEF ReadOkId, Receive
  <2>2. \/ UNCHANGED <<ids, reader>>
        \/ /\ ids'[g] = [ids[g] EXCEPT ![frame(g).id] = NextReply(g)]
           /\ reader'[g].job = NextReply(g)
    BY <1>10 DEF ReadOkId, ConnTypeOK
  <2>3. Range(ids'[g]) \subseteq Range(ids[g]) \cup {NextReply(g)}
    BY <2>2, IdsRange
  <2>4. NextReply(g) \in Range(replyQ[g]) \cup {Nil}
    BY QueueFacts
  <2> QED
    BY <1>1, <1>2, <1>3, <2>1, <2>2, <2>3, <2>4
<1>11. CASE ReadHalted(g)
  <2>1. /\ toClient[g] # <<>> /\ Consume(g) /\ PopReply(g)
        /\ UNCHANGED <<writeCh, victims, writer, ids, reader>>
    BY <1>11 DEF ReadHalted, Receive
  <2> QED
    BY <1>1, <1>2, <1>3, <2>1
<1>12. CASE ReadErr(g)
  <2>1. /\ toClient[g] # <<>> /\ Consume(g) /\ PopReply(g)
        /\ UNCHANGED <<writeCh, victims, writer, ids>>
        /\ reader'[g].job \in {reader[g].job, NextReply(g)}
    BY <1>12 DEF ReadErr, Receive, ConnTypeOK
  <2>2. NextReply(g) \in Range(replyQ[g]) \cup {Nil}
    BY QueueFacts
  <2> QED
    BY <1>1, <1>2, <1>3, <2>1, <2>2
<1>13. CASE ReadData(g)
  <2> DEFINE j == ids[g][frame(g).id]
  <2>1. /\ toClient[g] # <<>> /\ Consume(g)
        /\ UNCHANGED <<writeCh, replyQ, victims, writer, ids>>
        /\ reader'[g].job \in {reader[g].job, j}
        /\ frame(g).t \in DataKinds
    BY <1>13 DEF ReadData, Receive, ConnTypeOK
  <2>2. j \in Range(ids[g])
    <3>1. frame(g).id \in Ids
      BY <2>1, QueueFacts DEF Frames, DataKinds
    <3>2. DOMAIN ids[g] = Ids
      BY DEF ConnTypeOK
    <3> QED
      BY <3>1, <3>2 DEF Range
  <2> QED
    BY <1>1, <1>2, <2>1, <2>2
<1>14. CASE ReadNoise(g)
  <2>1. toClient[g] # <<>> /\ Consume(g) /\ UNCHANGED connVars
    BY <1>14 DEF ReadNoise, Receive
  <2> QED
    BY <1>1, <1>2, <2>1 DEF connVars
<1>15. CASE ReadBad(g) \/ ReadEnd(g)
  <2>1. PICK why : Fail(g, why) /\ reader'[g].job = Nil /\ UNCHANGED <<writeCh, writer>>
    BY <1>15 DEF ReadBad, ReadEnd, ConnTypeOK, ReaderStopped
  <2> QED
    BY <2>1, FailKnown
<1>16. CASE SetId(g)
  <2>1. /\ reader'[g].job = reader[g].job
        /\ UNCHANGED <<socketVars, writeCh, replyQ, ids, victims, writer>>
    BY <1>16 DEF SetId, ConnTypeOK
  <2> QED
    BY <1>1, <2>1 DEF socketVars
<1>17. CASE HaltIfCanceled(g)
  <2>1. /\ reader'[g].job = Nil /\ UNCHANGED <<socketVars, replyQ, ids, victims, writer>>
        /\ EnqueueHalt(g, reader[g].id, reader[g].job) \/ UNCHANGED writeCh
    BY <1>17 DEF HaltIfCanceled, ConnTypeOK, Idle
  <2>2. reader[g].id \in Nat
    BY DEF ConnTypeOK, Ids
  <2>3. Queued' \subseteq Queued \cup {Nil}
    BY <1>4, <2>1, <2>2
  <2> QED
    BY <1>1, <2>1, <2>3 DEF socketVars
<1>18. CASE TakeData(g)
  <2>1. /\ reader'[g].job = reader[g].job
        /\ ids'[g] = [ids[g] EXCEPT ![reader[g].id] = Nil]
        /\ UNCHANGED <<socketVars, writeCh, replyQ, victims, writer>>
    BY <1>18 DEF TakeData, ConnTypeOK
  <2>0. \A i : Range([ids[g] EXCEPT ![i] = Nil]) \subseteq Range(ids[g]) \cup {Nil}
    BY IdsRange
  <2>2. Range(ids'[g]) \subseteq Range(ids[g]) \cup {Nil}
    BY <2>0, <2>1, Zenon
  <2> QED
    BY <1>1, <2>1, <2>2 DEF socketVars
<1>19. CASE ReadDeliver(g) \/ ReadSend(g)
  <2>1. /\ reader'[g].job \in {reader[g].job, Nil}
        /\ UNCHANGED <<socketVars, writeCh, replyQ, ids, victims, writer>>
    BY <1>19 DEF ReadDeliver, ReadSend, ConnTypeOK, Idle
  <2> QED
    BY <1>1, <2>1 DEF socketVars
<1> QED
  BY <1>5, <1>6, <1>7, <1>8, <1>9, <1>10, <1>11, <1>12, <1>13, <1>14, <1>15, <1>16, <1>17, <1>18,
     <1>19
  DEF ConnStep, WriterStep, ReaderStep, Read

(* The daemon names only the jobs it was told of.                          *)
LEMMA AnswerKnown ==
  ASSUME NEW g \in Gens, TypeOK, toDaemon[g] # <<>>, NEW kind, NEW i, NEW more \in Seq(Frames),
         [t |-> kind, of |-> Head(toDaemon[g]).of, id |-> i, n |-> replies[g] + 1] \in Frames,
         Answer(g, kind, i, more)
  PROVE  /\ Names(toDaemon'[g]) \subseteq Names(toDaemon[g])
         /\ Names(toClient'[g]) \subseteq Names(toClient[g]) \cup Names(toDaemon[g]) \cup Names(more)
         /\ Head(toDaemon[g]).of \in Names(toDaemon[g])
<1> DEFINE f == [t |-> kind, of |-> Head(toDaemon[g]).of, id |-> i, n |-> replies[g] + 1]
<1>1. toClient'[g] = Append(toClient[g], f) \o more /\ toDaemon'[g] = Tail(toDaemon[g])
  BY DEF Answer, TypeOK, SocketTypeOK
<1>2. toClient[g] \in Seq(Frames) /\ Append(toClient[g], f) \in Seq(Frames) /\ f \in Frames
  BY DEF TypeOK, SocketTypeOK
<1>3. Names(toClient'[g]) = Names(toClient[g]) \cup {f.of} \cup Names(more)
  <2> HIDE DEF f
  <2> QED
    BY <1>1, <1>2, AnswerNames
<1> QED
  BY <1>1, <1>3, QueueFacts

(* It tells the connection of no job.                                      *)
LEMMA DaemonKnown ==
  ASSUME NEW g \in Gens, TypeOK, DaemonStep(g),
         UNCHANGED <<writeCh, replyQ, ids, victims, writer, reader>>
  PROVE  Known(g)' \subseteq Known(g) \cup {Nil}
<1> DEFINE Link == Names(toDaemon[g]) \cup Names(toClient[g]) \cup Range(tasks[g])
<1>1. SUFFICES Link' \subseteq Link \cup {Nil}
  BY DEF Known
<1>2. Names(<<>>) = {} /\ <<>> \in Seq(Frames) /\ replies[g] + 1 \in Nat
  BY DEF Names, Range, TypeOK, SocketTypeOK
<1> DEFINE head == Head(toDaemon[g])
<1>3. toDaemon[g] # <<>> => head.of \in JobOrNil /\ (head.t = "trace" => head.of \in Jobs)
  BY HeadCommand DEF TypeOK
<1>4. ASSUME NEW f \in Frames, toClient' = [toClient EXCEPT ![g] = Append(@, f)],
             UNCHANGED <<toDaemon, tasks>>, f.of \in Range(tasks[g]) \cup {Nil}
      PROVE  Link' \subseteq Link \cup {Nil}
  <2>1. toClient[g] \in Seq(Frames) /\ toClient'[g] = Append(toClient[g], f)
    BY <1>4 DEF TypeOK, SocketTypeOK
  <2>2. Names(toClient'[g]) = Names(toClient[g]) \cup {f.of}
    BY <2>1, NamesFacts
  <2> QED
    BY <1>4, <2>2
<1>5. \A i \in live[g] : i \in Ids /\ tasks[g][i] \in Jobs /\ tasks[g][i] \in Range(tasks[g])
  BY DEF TypeOK, SocketTypeOK, Range
<1>6. CASE AcceptTrace(g)
  <2>1. /\ toDaemon[g] # <<>> /\ head.t = "trace" /\ Answer(g, "okid", Len(tasks[g]) + 1, <<>>)
        /\ tasks'[g] = Append(tasks[g], head.of) /\ Len(tasks[g]) + 1 \in Ids
    <3>1. /\ toDaemon[g] # <<>> /\ head.t = "trace" /\ Answer(g, "okid", Len(tasks[g]) + 1, <<>>)
          /\ tasks' = [tasks EXCEPT ![g] = Append(@, head.of)] /\ Len(tasks[g]) < MaxId
      BY <1>6 DEF AcceptTrace, NextCommand
    <3>2. g \in DOMAIN tasks /\ Len(tasks[g]) \in Nat
      BY DEF TypeOK, SocketTypeOK
    <3> QED
      BY <3>1, <3>2, SocketAssumption DEF Ids
  <2>2. [t |-> "okid", of |-> head.of, id |-> Len(tasks[g]) + 1, n |-> replies[g] + 1] \in Frames
    BY <1>2, <1>3, <2>1, TaskFrame
  <2>3. Range(tasks'[g]) = Range(tasks[g]) \cup {head.of}
    <3>1. tasks[g] \in Seq(Jobs)
      BY DEF TypeOK, SocketTypeOK
    <3> QED
      BY <1>3, <2>1, <3>1, RangeFacts
  <2> QED
    BY <1>2, <2>1, <2>2, <2>3, AnswerKnown
<1>7. CASE RejectTrace(g)
  <2>1. toDaemon[g] # <<>> /\ Answer(g, "err", 0, <<>>) /\ UNCHANGED tasks
    BY <1>7 DEF RejectTrace, NextCommand
  <2>2. [t |-> "err", of |-> head.of, id |-> 0, n |-> replies[g] + 1] \in Frames
    BY <1>2, <1>3, <2>1, OtherFrame
  <2> QED
    BY <1>2, <2>1, <2>2, AnswerKnown
<1>8. CASE AnswerHalt(g)
  <2> DEFINE i == head.id
             last == [t |-> "final", of |-> tasks[g][i], id |-> i, n |-> replies[g] + 1]
  <2>1. toDaemon[g] # <<>> /\ UNCHANGED tasks
    BY <1>8 DEF AnswerHalt, NextCommand
  <2>2. \A kind \in {"halted", "err"} :
          [t |-> kind, of |-> head.of, id |-> 0, n |-> replies[g] + 1] \in Frames
    BY <1>2, <1>3, <2>1, OtherFrame
  <2>3. i \in live[g] => last \in Frames
    BY <1>2, <1>5, TaskFrame DEF DataKinds
  <2>4. i \in live[g] => <<last>> \in Seq(Frames) /\ Names(<<last>>) \subseteq Range(tasks[g])
    BY <1>5, <2>3 DEF Names, Range
  <2>5. PICK kind \in {"halted", "err"}, more \in Seq(Frames) :
          Names(more) \subseteq Range(tasks[g]) /\ Answer(g, kind, 0, more)
    BY <1>2, <1>8, <2>4 DEF AnswerHalt
  <2> QED
    BY <2>1, <2>2, <2>5, AnswerKnown
<1>9. ASSUME NEW i \in live[g], NEW kind \in DataKinds, SendData(g, i, kind)
      PROVE  Link' \subseteq Link \cup {Nil}
  <2>1. [t |-> kind, of |-> tasks[g][i], id |-> i, n |-> replies[g]] \in Frames
    BY <1>5, TaskFrame, RepliesNat DEF TypeOK
  <2> QED
    BY <1>4, <1>5, <1>9, <2>1 DEF SendData
<1>10. CASE SendOther(g)
  <2>1. \A kind \in {"noise", "bad"} :
          [t |-> kind, of |-> Nil, id |-> 0, n |-> replies[g]] \in Frames
    BY OtherFrame, RepliesNat DEF TypeOK, JobOrNil
  <2> QED
    BY <1>4, <1>10, <2>1 DEF SendOther
<1>11. CASE Drop(g)
  <2>1. toDaemon'[g] = <<>> /\ toClient' = toClient /\ tasks' = tasks
    BY <1>11 DEF Drop, TypeOK, SocketTypeOK
  <2> QED
    BY <1>2, <2>1
<1> QED
  BY <1>6, <1>7, <1>8, <1>9, <1>10, <1>11 DEF DaemonStep, DaemonAnswer

(* How a step moves a job.                                                 *)
Moves(j) ==
  /\ pc[j] \in Late => pc'[j] \in Late /\ cur'[j] = cur[j]
  /\ outcome'[j] = outcome[j] \/ pc[j] # "done"

(* A caller that moves on, returns or gives up.                            *)
LEMMA CallerMoves ==
  ASSUME NEW j \in Jobs, TypeOK, Caller(j), NEW i \in Jobs
  PROVE  /\ Moves(i)
         /\ i # j => pc'[i] = pc[i] /\ cur'[i] = cur[i] /\ outcome'[i] = outcome[i]
<1> USE DEF TypeOK, Late, Moves
<1>1. ASSUME NEW next \in Late, Goto(j, next), UNCHANGED cur, pc[j] # "done" \/ UNCHANGED outcome,
             i # j => outcome'[i] = outcome[i]
      PROVE  /\ Moves(i)
             /\ i # j => pc'[i] = pc[i] /\ cur'[i] = cur[i] /\ outcome'[i] = outcome[i]
  BY <1>1 DEF Goto
<1>2. ASSUME NEW next, Goto(j, next), pc[j] \notin Late, UNCHANGED outcome,
             i # j => cur'[i] = cur[i]
      PROVE  /\ Moves(i)
             /\ i # j => pc'[i] = pc[i] /\ cur'[i] = cur[i] /\ outcome'[i] = outcome[i]
  BY <1>2 DEF Goto
<1>3. ASSUME NEW res, Finish(j, res), pc[j] # "done"
      PROVE  /\ Moves(i)
             /\ i # j => pc'[i] = pc[i] /\ cur'[i] = cur[i] /\ outcome'[i] = outcome[i]
  <2>1. i # j => outcome'[i] = outcome[i]
    BY <1>3 DEF Finish
  <2> QED
    BY <1>1, <1>3, <2>1 DEF Finish
<1>4. CASE Start(j)
  BY <1>2, <1>3, <1>4 DEF Start
<1>5. CASE Acquire(j) \/ Wake(j)
  BY <1>2, <1>5 DEF Acquire, Wake
<1>6. CASE Lookup(j)
  BY <1>2, <1>6 DEF Lookup
<1>7. CASE Submit(j)
  BY <1>1, <1>3, <1>7 DEF Submit
<1>8. ASSUME NEW why, GiveUpEarly(j, why)
      PROVE  /\ Moves(i)
             /\ i # j => pc'[i] = pc[i] /\ cur'[i] = cur[i] /\ outcome'[i] = outcome[i]
  BY <1>3, <1>8 DEF GiveUpEarly
<1>9. CASE ReturnResult(j)
  BY <1>3, <1>9 DEF ReturnResult
<1>10. ASSUME NEW why, GiveUp(j, why)
      PROVE  /\ Moves(i)
             /\ i # j => pc'[i] = pc[i] /\ cur'[i] = cur[i] /\ outcome'[i] = outcome[i]
  <2>1. i # j => outcome'[i] = outcome[i]
    BY <1>10 DEF GiveUp
  <2> QED
    BY <1>1, <1>10, <2>1 DEF GiveUp
<1>11. CASE MarkCanceled(j) \/ SendHalt(j)
  BY <1>1, <1>11 DEF MarkCanceled, SendHalt
<1> QED
  BY <1>4, <1>5, <1>6, <1>7, <1>8, <1>9, <1>10, <1>11 DEF Caller, CallerStep

(* Submitting hands the job to its connection, a halt names no job.        *)
LEMMA CallerKnown ==
  ASSUME NEW j \in Jobs, TypeOK, Caller(j), NEW g \in Gens
  PROVE  Known(g)' \subseteq Known(g) \cup {Nil} \cup {i \in Jobs : Owned(g, i)'}
<1>1. UNCHANGED <<socketVars, replyQ, ids, victims, writer, reader>>
  BY DEF Caller
<1>2. SUFFICES Names(writeCh'[g]) \subseteq Names(writeCh[g]) \cup {Nil} \cup {i \in Jobs : Owned(g, i)'}
  BY <1>1 DEF Known, socketVars
<1>3. CASE writeCh' = writeCh
  BY <1>3
<1>4. writeCh \in [Gens -> Seq(Commands)] /\ writeCh[g] \in Seq(Commands)
  BY DEF TypeOK, ConnTypeOK
<1>5. CASE Submit(j) /\ writeCh' = [writeCh EXCEPT ![cur[j]] = Append(@, Trace(j))]
  <2>1. CASE cur[j] = g
    <3>1. Trace(j) \in Commands /\ Trace(j).of = j
      BY DEF Trace, Commands
    <3>2. Names(writeCh'[g]) = Names(writeCh[g]) \cup {j}
      BY <1>4, <1>5, <2>1, <3>1, NamesFacts
    <3>3. Owned(g, j)' \/ writeCh' = writeCh
      BY <1>5, <2>1 DEF Submit, Finish, Goto, Owned, Late, TypeOK
    <3> QED
      BY <3>2, <3>3
  <2>2. CASE cur[j] # g
    BY <1>4, <1>5, <2>2
  <2> QED
    BY <2>1, <2>2
<1>6. CASE SendHalt(j)
  <2>1. writeCh' = writeCh \/ writeCh' = [writeCh EXCEPT ![cur[j]] = Append(@, Halt(jid[j]))]
    BY <1>6 DEF SendHalt, EnqueueHalt
  <2>2. Halt(jid[j]) \in Commands /\ Halt(jid[j]).of = Nil
    BY DEF Halt, Commands, TypeOK, ConnTypeOK, Ids
  <2>3. Names(Append(writeCh[g], Halt(jid[j]))) = Names(writeCh[g]) \cup {Nil}
    BY <1>4, <2>2, NamesFacts
  <2> QED
    BY <1>4, <2>1, <2>3
<1> QED
  BY <1>3, <1>5, <1>6
  DEF Caller, CallerStep, Start, Acquire, Lookup, Wake, Submit, GiveUpEarly, ReturnResult, GiveUp,
      MarkCanceled, Finish

(* How any step moves any job.                                             *)
LEMMA JobMoves ==
  ASSUME TypeOK, [Next]_vars, NEW j \in Jobs
  PROVE  Moves(j)
<1>1. ASSUME NEW i \in Jobs, Caller(i) PROVE Moves(j)
  BY <1>1, CallerMoves
<1>2. ASSUME UNCHANGED <<cur, outcome>>, pc'[j] = pc[j] \/ (pc[j] = "parked" /\ pc'[j] = "woken")
      PROVE  Moves(j)
  BY <1>2 DEF Moves, Late
<1>3. CASE DialSucceeds
  <2>1. UNCHANGED <<cur, outcome>> /\ (pc'[j] = pc[j] \/ (pc[j] = "parked" /\ pc'[j] = "woken"))
    BY <1>3 DEF DialSucceeds, Publish
  <2> QED
    BY <1>2, <2>1
<1>4. CASE UNCHANGED callerVars
  BY <1>2, <1>4 DEF callerVars
<1> QED
  BY <1>1, <1>3, <1>4
  DEF Next, Connection, Daemon, Supervise, ConnLost, SuperClosed, SuperEnd, SleepTimer, SleepClosed,
      DialFails, CloseStart, Closing, CloseRead, CloseFail, CloseEnd, AtRest, vars

(* A connection learns of a job only from the caller who submits it.       *)
LEMMA KnownStep ==
  ASSUME TypeOK, [Next]_vars, NEW g \in Gens
  PROVE  Known(g)' \subseteq Known(g) \cup {Nil} \cup {j \in Jobs : Owned(g, j)'}
<1>1. ASSUME NEW j \in Jobs, Caller(j) PROVE Known(g)' \subseteq Known(g) \cup {Nil} \cup {i \in Jobs : Owned(g, i)'}
  BY <1>1, CallerKnown
<1>2. ASSUME Untouched(g) PROVE Known(g)' = Known(g)
  BY <1>2 DEF Untouched, Known
<1>3. ASSUME NEW h \in Gens, Connection(h) PROVE Known(g)' \subseteq Known(g) \cup {Nil}
  BY <1>2, <1>3, ConnKnown, ConnElsewhere DEF Connection, TypeOK
<1>4. ASSUME NEW h \in Gens, Daemon(h) PROVE Known(g)' \subseteq Known(g) \cup {Nil}
  <2>1. UNCHANGED <<state, cause, writeCh, replyQ, ids, victims, writer, reader>> /\ DaemonStep(h)
    BY <1>4 DEF Daemon, connVars
  <2>2. CASE h = g
    BY <2>1, <2>2, DaemonKnown
  <2>3. CASE h # g
    <3>1. Untouched(g)
      BY <2>1, <2>3, DaemonElsewhere DEF TypeOK, Untouched
    <3> QED
      BY <1>2, <3>1
  <2> QED
    BY <2>2, <2>3
<1>5. ASSUME NEW h \in Gens, Fail(h, "closed"), UNCHANGED <<writeCh, writer, reader>>
      PROVE  Known(g)' \subseteq Known(g) \cup {Nil}
  <2>1. CASE h = g
    BY <1>5, <2>1, FailKnown
  <2>2. CASE h # g
    <3>1. Untouched(g)
      BY <1>5, <2>2, FailElsewhere DEF TypeOK, Untouched
    <3> QED
      BY <1>2, <3>1
  <2> QED
    BY <2>1, <2>2
<1>6. CASE SuperClosed
  BY <1>5, <1>6 DEF SuperClosed, TypeOK
<1>7. CASE CloseFail
  BY <1>5, <1>7 DEF CloseFail, TypeOK, GenOrNone
<1>8. CASE DialSucceeds
  <2>1. UNCHANGED <<toDaemon, toClient, tasks, writeCh, replyQ, ids, victims, writer, reader>>
    BY <1>8 DEF DialSucceeds, Connect
  <2> QED
    BY <2>1 DEF Known
<1>9. ASSUME UNCHANGED <<socketVars, connVars>> PROVE Known(g)' = Known(g)
  BY <1>9 DEF Known, socketVars, connVars
<1>10. CASE ConnLost \/ SuperEnd \/ SleepTimer \/ SleepClosed \/ DialFails \/ CloseStart
            \/ CloseRead \/ CloseEnd \/ UNCHANGED vars
  BY <1>9, <1>10 DEF ConnLost, SuperEnd, SleepTimer, SleepClosed, DialFails, CloseStart, CloseRead,
                     CloseEnd, vars
<1> QED
  BY <1>1, <1>3, <1>4, <1>6, <1>7, <1>8, <1>10 DEF Next, Supervise, Closing, AtRest

(* A job is known to one connection, the one its caller submitted it to.   *)
THEOREM JobHasOneConnection == Spec => []OwnedInv
<1>1. Init => OwnedInv
  <2> SUFFICES ASSUME Init, NEW g \in Gens PROVE Known(g) \subseteq {Nil}
    BY DEF OwnedInv
  <2>1. Names(<<>>) = {} /\ Range(<<>>) = {} /\ Range(NoIds) \subseteq {Nil}
    BY DEF Names, Range, NoIds
  <2> QED
    BY <2>1 DEF Init, SocketInit, ConnInit, Known, WriterIdle, Halt, Idle
<1>2. TypeOK /\ OwnedInv /\ [Next]_vars => OwnedInv'
  <2> SUFFICES ASSUME TypeOK, OwnedInv, [Next]_vars,
                      NEW g \in Gens, NEW j \in Known(g)' \ {Nil}
               PROVE  Owned(g, j)'
    BY DEF OwnedInv
  <2>1. CASE j \in Known(g)
    <3>1. Owned(g, j)
      BY <2>1 DEF OwnedInv
    <3>2. j \in Jobs
      BY <2>1, KnownJobs DEF JobOrNil
    <3> QED
      BY <3>1, <3>2, JobMoves DEF Moves, Owned
  <2> QED
    BY <2>1, KnownStep
<1> QED
  BY <1>1, <1>2, TypeCorrect, PTL DEF Spec

(***************************************************************************)
(* SpecificError                                                           *)
(***************************************************************************)
(* How any step takes a connection on: its life begins with a dial.        *)
LEMMA LifeMoves ==
  ASSUME TypeOK, LifeInv, [Next]_vars, NEW g \in Gens
  PROVE  \/ Lives(g)
         \/ /\ state[g] = "none" /\ state'[g] = "open"
            /\ UNCHANGED <<cause[g], victims[g]>>
<1>1. ASSUME UNCHANGED <<state[g], cause[g], victims[g]>> PROVE Lives(g)
  BY <1>1 DEF Lives
<1>2. ASSUME NEW j \in Jobs, Caller(j) PROVE Lives(g)
  BY <1>1, <1>2 DEF Caller
<1>3. ASSUME NEW h \in Gens, Connection(h) PROVE Lives(g)
  BY <1>1, <1>3, ConnLives, ConnElsewhere DEF Connection, TypeOK, Untouched
<1>4. ASSUME NEW h \in Gens, Daemon(h) PROVE Lives(g)
  BY <1>1, <1>4 DEF Daemon, connVars
<1>5. ASSUME NEW h \in Gens, Fail(h, "closed"), closed' PROVE Lives(g)
  <2>1. "closed" \in Causes /\ ConnTypeOK /\ SocketTypeOK
    BY DEF Causes, TypeOK
  <2>2. CASE h = g
    BY <1>5, <2>1, <2>2, FailLives
  <2>3. CASE h # g
    BY <1>1, <1>5, <2>1, <2>3, FailElsewhere
  <2> QED
    BY <2>2, <2>3
<1>6. CASE SuperClosed
  BY <1>5, <1>6 DEF SuperClosed, TypeOK
<1>7. CASE CloseFail
  BY <1>5, <1>7 DEF CloseFail, TypeOK, GenOrNone, LifeInv
<1>8. CASE DialSucceeds
  <2> DEFINE new == gen + 1
  <2>1. /\ new \in Gens /\ new > gen /\ state' = [state EXCEPT ![new] = "open"]
        /\ UNCHANGED <<cause, victims>>
    BY <1>8 DEF DialSucceeds, TypeOK, Gens
  <2>2. state[new] = "none"
    BY <2>1 DEF LifeInv
  <2>3. CASE g = new
    BY <2>1, <2>2, <2>3 DEF TypeOK, ConnTypeOK
  <2>4. CASE g # new
    BY <1>1, <2>1, <2>4 DEF TypeOK, ConnTypeOK
  <2> QED
    BY <2>3, <2>4
<1>9. CASE UNCHANGED connVars
  BY <1>1, <1>9 DEF connVars
<1> QED
  BY <1>2, <1>3, <1>4, <1>6, <1>7, <1>8, <1>9
  DEF Next, Supervise, ConnLost, SuperEnd, SleepTimer, SleepClosed, DialFails, CloseStart, Closing,
      CloseRead, CloseEnd, AtRest, vars

(* What a caller decides to return, and when.                              *)
Decides(j) ==
  /\ pc[j] \in {"idle", "sem", "parked", "woken", "submit", "await"}
  /\ cur'[j] = cur[j]
  /\ \/ pc[j] = "await" /\ ch[j] # None /\ outcome'[j] = ch[j] /\ pc'[j] = "done"
     \/ outcome'[j] = Failure("ctx") /\ pc[j] # "idle" /\ pc'[j] \in {"mark", "done"}
     \/ outcome'[j] = Failure("closed") /\ closed /\ pc'[j] \in {"mark", "done"}
     \/ outcome'[j] = Failure("gone") /\ pc[j] = "submit" /\ dead(cur[j]) /\ pc'[j] = "done"
     \/ outcome'[j] = Failure("weak") /\ pc[j] = "await" /\ dead(cur[j]) /\ pc'[j] = "mark"

(* A step decides one outcome at most.                                     *)
LEMMA CallerDecides ==
  ASSUME NEW j \in Jobs, TypeOK, Caller(j)
  PROVE  outcome' = outcome \/ Decides(j)
<1> USE DEF TypeOK, Goto, Decides
<1>1. CASE Start(j)
  BY <1>1 DEF Start, Finish
<1>2. CASE Submit(j)
  BY <1>2 DEF Submit, Finish
<1>3. ASSUME NEW why \in {"ctx", "weak", "closed"}, GiveUpEarly(j, why) PROVE Decides(j)
  BY <1>3 DEF GiveUpEarly, GivesUp, Finish
<1>4. ASSUME NEW why \in {"ctx", "weak", "closed"}, GiveUp(j, why) PROVE Decides(j)
  BY <1>4 DEF GiveUp, GivesUp
<1>5. CASE ReturnResult(j)
  BY <1>5 DEF ReturnResult, Delivered, Finish
<1>6. CASE Acquire(j) \/ Lookup(j) \/ Wake(j) \/ MarkCanceled(j) \/ SendHalt(j)
  BY <1>6 DEF Acquire, Lookup, Wake, MarkCanceled, SendHalt
<1> QED
  BY <1>1, <1>2, <1>3, <1>4, <1>5, <1>6 DEF Caller, CallerStep

(* Only callers decide.                                                    *)
LEMMA OutcomeMoves ==
  ASSUME TypeOK, [Next]_vars
  PROVE  outcome' = outcome \/ \E j \in Jobs : Caller(j) /\ Decides(j)
<1>1. ASSUME NEW j \in Jobs, Caller(j) PROVE outcome' = outcome \/ Decides(j)
  BY <1>1, CallerDecides
<1> QED
  BY <1>1
  DEF Next, Connection, Daemon, Supervise, ConnLost, SuperClosed, SuperEnd, SleepTimer, SleepClosed,
      DialFails, DialSucceeds, CloseStart, Closing, CloseRead, CloseFail, CloseEnd, AtRest, vars,
      callerVars

(* A caller past the lookup has a connection, and it settles for the weak  *)
(* error only on a dead one.                                               *)
WeakOf(j) ==
  /\ pc[j] \in {"submit", "await", "mark", "halt"} => cur[j] \in Gens
  /\ outcome[j].k = "weak" => pc[j] \in Late /\ cur[j] \in Gens /\ dead(cur[j])
WeakInv == \A j \in Jobs : WeakOf(j)

(* No caller has the weak error while fail still holds its specific one.   *)
THEOREM SpecificErrorFirst == Spec => []SpecificError
<1>1. Init => WeakInv
  <2> SUFFICES ASSUME Init, NEW j \in Jobs PROVE WeakOf(j)
    BY DEF WeakInv
  <2>1. pc[j] = "idle" /\ outcome[j] = None
    BY DEF Init
  <2> QED
    BY <2>1 DEF WeakOf, None
<1>2. TypeOK /\ LifeInv /\ WeakInv /\ [Next]_vars => WeakInv'
  <2> SUFFICES ASSUME TypeOK, LifeInv, WeakInv, [Next]_vars, NEW j \in Jobs
               PROVE  WeakOf(j)'
    BY DEF WeakInv
  <2>1. WeakOf(j) /\ Moves(j)
    BY JobMoves DEF WeakInv
  <2>2. \A g \in Gens : dead(g) => dead(g)'
    BY LifeMoves DEF Lives, dead
  <2>3. pc'[j] \in {"submit", "await", "mark", "halt"} => cur'[j] \in Gens
    <3>1. ASSUME NEW i \in Jobs, Caller(i)
          PROVE  \/ i = j /\ pc[j] = "lookup" /\ conn # 0 /\ cur'[j] = conn
                 \/ cur'[j] = cur[j] /\ (pc'[j] \in {"submit", "await", "mark", "halt"} =>
                      pc[j] \in {"submit", "await", "mark", "halt"})
      BY <3>1 DEF Caller, CallerStep, Start, Acquire, Lookup, Wake, Submit, GiveUpEarly,
                  ReturnResult, GiveUp, MarkCanceled, SendHalt, Finish, Goto, TypeOK
    <3>2. CASE cur' = cur /\ \A i \in Jobs : pc'[i] = pc[i] \/ pc'[i] = "woken"
      BY <2>1, <3>2 DEF WeakOf
    <3>3. conn \in GenOrNone
      BY DEF TypeOK
    <3> QED
      BY <2>1, <3>1, <3>2, <3>3
      DEF WeakOf, GenOrNone, Next, Connection, Daemon, Supervise, ConnLost, SuperClosed, SuperEnd, SleepTimer,
          SleepClosed, DialFails, DialSucceeds, Publish, CloseStart, Closing, CloseRead, CloseFail,
          CloseEnd, AtRest, vars, callerVars
  <2>4. CASE outcome'[j] = outcome[j]
    BY <2>1, <2>2, <2>3, <2>4 DEF WeakOf, Moves
  <2>5. CASE outcome'[j] # outcome[j]
    <3>1. PICK i \in Jobs : Caller(i) /\ Decides(i)
      BY <2>5, OutcomeMoves
    <3>2. i = j
      BY <2>5, <3>1, CallerMoves
    <3>3. ch[j].k # "weak"
      BY DEF TypeOK, ConnTypeOK, Results, Causes
    <3> QED
      BY <2>1, <2>2, <2>3, <3>1, <3>2, <3>3 DEF WeakOf, Decides, Failure, Late
  <2> QED
    BY <2>4, <2>5
<1>3. LifeInv /\ OwnedInv /\ TypeOK /\ WeakInv => SpecificError
  <2> SUFFICES ASSUME LifeInv, OwnedInv, TypeOK, WeakInv, NEW g \in Gens, NEW j \in victims[g]
               PROVE  outcome[j].k # "weak"
    BY DEF SpecificError
  <2>1. state[g] = "failing"
    BY DEF LifeInv, LifeOf
  <2>2. j \in Jobs /\ j # Nil
    BY DEF TypeOK, ConnTypeOK
  <2>3. cur[j] = g
    BY <2>2 DEF OwnedInv, Owned, Known
  <2> QED
    BY <2>1, <2>2, <2>3 DEF WeakInv, WeakOf, dead
<1> QED
  BY <1>1, <1>2, <1>3, TypeCorrect, ConnectionLife, JobHasOneConnection, PTL DEF Spec
=============================================================================
