--------------------------- MODULE ControlSocket ---------------------------
(***************************************************************************)
(* The scamper daemon and the Unix control socket, as src/socket uses them *)
(* (external code: protocol.go's package comment, handleLine, handleData   *)
(* and the fake daemon of socket/session_test.go say what may arrive).     *)
(*                                                                         *)
(* Connection g carries commands to the daemon and frames back, each a     *)
(* bounded FIFO.  The daemon answers commands in order, numbers the tasks  *)
(* it accepts from 1 on every connection (so that an id of an old          *)
(* connection is always reused), and sends the DATA of a running task      *)
(* whenever it likes.                                                      *)
(***************************************************************************)
EXTENDS Naturals, Sequences

CONSTANTS
  Jobs,      \* one job per attempt: one call of session.trace
  Nil,       \* no job
  MaxGen,    \* bound: connections dialled in a behaviour
  MaxId,     \* bound: tasks the daemon accepts on one connection
  PipeCap,   \* bound: frames each direction of the socket holds
  Events     \* the optional events of the environment that are switched on

ASSUME SocketAssumption ==
  /\ Nil \notin Jobs
  /\ MaxGen \in Nat \ {0}
  /\ MaxId \in Nat \ {0}
  /\ PipeCap \in Nat \ {0}
  /\ Events \subseteq {"reject", "haltdata", "inprogress", "garbage",
                    "noise", "bad", "drop", "cancel", "close"}

Gens == 1..MaxGen
Ids == 1..MaxId
JobOrNil == Jobs \cup {Nil}

VARIABLES
  peer,      \* peer[g]: is the link to the daemon "up" or "down"
  toDaemon,  \* toDaemon[g]: commands written and not yet read by the daemon
  toClient,  \* toClient[g]: frames sent and not yet handled by readLoop
  tasks,     \* tasks[g]: jobs of the accepted traces; id i is tasks[g][i]
  live,      \* live[g]: ids of the tasks that still run
  replies    \* replies[g]: history, how many replies the daemon has sent

socketVars == <<peer, toDaemon, toClient, tasks, live, replies>>

(***************************************************************************)
(* A command names the job it is for (Nil for a halt) and the halted id.   *)
(* A frame carries, as history, the job it is really about and the number  *)
(* of replies sent so far, itself included.                                *)
(***************************************************************************)
Commands == [t : {"trace"}, of : Jobs, id : {0}] \cup [t : {"halt"}, of : {Nil}, id : Nat]

ReplyKinds == {"okid", "halted", "err"}
DataKinds == {"final", "inprogress", "garbage"}
Frames == [t : {"okid"} \cup DataKinds, of : Jobs, id : Ids, n : Nat]
            \cup [t : {"halted", "err", "noise", "bad"}, of : JobOrNil, id : {0}, n : Nat]

Trace(j) == [t |-> "trace", of |-> j, id |-> 0]
Halt(i) == [t |-> "halt", of |-> Nil, id |-> i]

SocketInit ==
  /\ peer = [g \in Gens |-> IF g = 1 THEN "up" ELSE "down"]
  /\ toDaemon = [g \in Gens |-> <<>>]
  /\ toClient = [g \in Gens |-> <<>>]
  /\ tasks = [g \in Gens |-> <<>>]
  /\ live = [g \in Gens |-> {}]
  /\ replies = [g \in Gens |-> 0]

Room(g) == peer[g] = "up" /\ Len(toClient[g]) < PipeCap
NextCommand(g, kind) == toDaemon[g] # <<>> /\ Head(toDaemon[g]).t = kind

(* The daemon reads one command and sends the reply that belongs to it;    *)
(* "more" is what it sends right behind the reply.                         *)
Answer(g, kind, i, more) ==
  /\ toDaemon' = [toDaemon EXCEPT ![g] = Tail(@)]
  /\ replies' = [replies EXCEPT ![g] = @ + 1]
  /\ toClient' = [toClient EXCEPT ![g] = Append(@,
       [t |-> kind, of |-> Head(toDaemon[g]).of, id |-> i, n |-> replies[g] + 1])
       \o more]

AcceptTrace(g) ==
  /\ Room(g)
  /\ NextCommand(g, "trace")
  /\ Len(tasks[g]) < MaxId
  /\ tasks' = [tasks EXCEPT ![g] = Append(@, Head(toDaemon[g]).of)]
  /\ live' = [live EXCEPT ![g] = @ \cup {Len(tasks[g]) + 1}]
  /\ Answer(g, "okid", Len(tasks[g]) + 1, <<>>)
  /\ UNCHANGED peer

RejectTrace(g) ==
  /\ "reject" \in Events
  /\ Room(g)
  /\ NextCommand(g, "trace")
  /\ Answer(g, "err", 0, <<>>)
  /\ UNCHANGED <<peer, tasks, live>>

(* "OK halted N" for a running task, whose partial DATA may still follow;  *)
(* "ERR no task id-N" for one that has ended.                              *)
AnswerHalt(g) ==
  LET i == Head(toDaemon[g]).id
      last == [t |-> "final", of |-> tasks[g][i], id |-> i, n |-> replies[g] + 1]
  IN
  /\ Room(g)
  /\ NextCommand(g, "halt")
  /\ \/ i \notin live[g] /\ Answer(g, "err", 0, <<>>)
     \/ i \in live[g] /\ Answer(g, "halted", 0, <<>>)
     \/ /\ "haltdata" \in Events
        /\ i \in live[g] /\ Len(toClient[g]) + 1 < PipeCap
        /\ Answer(g, "halted", 0, <<last>>)
  /\ live' = [live EXCEPT ![g] = @ \ {i}]
  /\ UNCHANGED <<peer, tasks>>

(* A DATA frame of a running task: "final" ends it, so does "garbage" (a   *)
(* payload the parser refuses); "inprogress" is a -y stream snapshot.      *)
SendData(g, i, kind) ==
  /\ kind \in {"final"} \cup Events
  /\ Room(g)
  /\ i \in live[g]
  /\ toClient' = [toClient EXCEPT ![g] = Append(@,
       [t |-> kind, of |-> tasks[g][i], id |-> i, n |-> replies[g]])]
  /\ live' = [live EXCEPT ![g] = IF kind = "inprogress" THEN @ ELSE @ \ {i}]
  /\ UNCHANGED <<peer, toDaemon, tasks, replies>>

(* "noise" is every line readLoop skips: MORE, a bare OK, a blank or       *)
(* unknown line, DATA without an id.  "bad" is a line it cannot frame.     *)
SendOther(g) == \E kind \in {"noise", "bad"} \cap Events :
  /\ Room(g)
  /\ toClient' = [toClient EXCEPT ![g] = Append(@,
       [t |-> kind, of |-> Nil, id |-> 0, n |-> replies[g]])]
  /\ UNCHANGED <<peer, toDaemon, tasks, live, replies>>

(* The daemon goes away: unread commands and running tasks are lost, what  *)
(* it had sent can still be read.                                          *)
Drop(g) ==
  /\ "drop" \in Events
  /\ peer[g] = "up"
  /\ peer' = [peer EXCEPT ![g] = "down"]
  /\ toDaemon' = [toDaemon EXCEPT ![g] = <<>>]
  /\ live' = [live EXCEPT ![g] = {}]
  /\ UNCHANGED <<toClient, tasks, replies>>

(* A dial has succeeded and the attach handshake is done.                  *)
Connect(g) ==
  /\ peer' = [peer EXCEPT ![g] = "up"]
  /\ UNCHANGED <<toDaemon, toClient, tasks, live, replies>>

(* The client closes its end.  The frames already copied into the bufio    *)
(* reader, a prefix of the stream that only timing decides, stay readable. *)
CloseSocket(g) == \E kept \in 0..Len(toClient[g]) :
  /\ toClient' = [toClient EXCEPT ![g] = SubSeq(@, 1, kept)]
  /\ toDaemon' = [toDaemon EXCEPT ![g] = <<>>]
  /\ live' = [live EXCEPT ![g] = {}]
  /\ peer' = [peer EXCEPT ![g] = "down"]
  /\ UNCHANGED <<tasks, replies>>

DaemonAnswer(g) == AcceptTrace(g) \/ RejectTrace(g) \/ AnswerHalt(g)
DaemonStep(g) ==
  \/ DaemonAnswer(g)
  \/ \E i \in live[g], kind \in DataKinds : SendData(g, i, kind)
  \/ SendOther(g)
  \/ Drop(g)

(* The reader takes the first frame off the stream.                        *)
Consume(g) ==
  /\ toClient' = [toClient EXCEPT ![g] = Tail(@)]
  /\ UNCHANGED <<peer, toDaemon, tasks, live, replies>>

(* The writer puts one command into the stream.                            *)
Transmit(g, cmd) ==
  /\ toDaemon' = [toDaemon EXCEPT ![g] = Append(@, cmd)]
  /\ UNCHANGED <<peer, toClient, tasks, live, replies>>
SocketTypeOK ==
  /\ peer \in [Gens -> {"up", "down"}]
  /\ toDaemon \in [Gens -> Seq(Commands)]
  /\ toClient \in [Gens -> Seq(Frames)]
  /\ tasks \in [Gens -> Seq(Jobs)]
  /\ live \in [Gens -> SUBSET Ids]
  /\ \A g \in Gens : live[g] \subseteq DOMAIN tasks[g]
  /\ replies \in [Gens -> Nat]
=============================================================================
