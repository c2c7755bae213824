------------------------------ MODULE Attempt ------------------------------
(***************************************************************************)
(* The way of one measurement through the data: a configuration is handed  *)
(* to Trace or TraceBatch, each attempt builds a command line of it (once, *)
(* src/legacy/client.go and src/socket/client.go), scamper reads the line  *)
(* and writes records, and a result with metadata comes of them (run.go).  *)
(* The application goes on using its other configurations meanwhile; the   *)
(* one in use it may only read, as TraceConfig asks.                       *)
(***************************************************************************)
EXTENDS TraceConfig, CommandLine, ResultParser

CONSTANTS
  NoConfig,  \* nil
  Targets,   \* the targets looked at, as tokens
  MaxTries   \* bound: attempts of the call

ASSUME AttemptAssumption == NoConfig \notin Configs /\ MaxTries \in Nat

VARIABLES
  call,   \* [phase, cfg, batch, asked, target]; asked is the value of the
          \* configuration when the call began, target that of the last attempt
  tries,  \* attempts so far
  words,  \* the command line of the last attempt
  output  \* the records scamper wrote for it

callVars == <<call, tries, words, output>>
attemptVars == <<configVars, callVars>>

ValueOf(c) == IF c = NoConfig THEN [fields |-> <<>>, options |-> <<>>, extraArgs |-> <<>>]
              ELSE Value(c)

AttemptInit ==
  /\ ConfigInit
  /\ call = [phase |-> "none", cfg |-> NoConfig, batch |-> FALSE, asked |-> ValueOf(NoConfig),
             target |-> ""]
  /\ tries = 0 /\ words = <<>> /\ output = <<>>

Becomes(phase) == call' = [call EXCEPT !.phase = phase]

BeginWith(checked) == \E c \in made \cup {NoConfig}, batch \in BOOLEAN :
  /\ call.phase = "none"
  /\ call' = [call EXCEPT !.cfg = c, !.batch = batch, !.asked = ValueOf(c),
       !.phase = IF checked /\ batch /\ c # NoConfig /\ ~Validate(Value(c)) THEN "refused" ELSE "begun"]
  /\ UNCHANGED <<configVars, tries, words, output>>

(* Variant: Batch leaves the configuration to the attempts.                *)
BeginUnchecked == BeginWith(FALSE)

(* The configuration is the call's own, else the client's default, else    *)
(* none.  Batch validates it before any attempt.                           *)
Begin == BeginWith(TRUE)

(* once, for the target of the call or one of the batch.                   *)
Submit == \E target \in Targets :
  /\ call.phase = "begun"
  /\ LET v == ValueOf(call.cfg)
         ok == ArgvAllowed(v, target)
     IN /\ call' = [call EXCEPT !.phase = IF ok THEN "sent" ELSE "invalid", !.target = target]
        /\ words' = IF ok THEN Words(Argv(v, target)) ELSE words
  /\ tries' = tries + 1
  /\ UNCHANGED <<configVars, output>>

(* What scamper writes: perhaps a cycle-start record, with -y perhaps a    *)
(* snapshot, then the trace, with the user id it was given, or garbage.    *)
Record(type, reason, data) == [type |-> type, reason |-> reason, data |-> data]
UserId(set) == IF \E p \in set : p[1] = "-U" THEN (CHOOSE p \in set : p[1] = "-U")[2] ELSE "0"
Snapshots(set) == \E p \in set : p[1] = "-y" /\ p[2] # "0"

Data(set) == [userid |-> UserId(set), errmsg |-> ""]
Endings(set) ==
  {Record("garbage", "", <<>>), Record("trace", "COMPLETED", Data(set)),
   Record("trace", "ERROR", [Data(set) EXCEPT !.errmsg = "bind"])}

CycleStart == Record("other", "", <<>>)
Snapshot(set) == Record("trace", InProgress, Data(set))

Maybe(rec) == {<<>>, <<rec>>}
Outputs(set) ==
  {Append(h \o s, f) : h \in Maybe(CycleStart),
                       s \in IF Snapshots(set) THEN Maybe(Snapshot(set)) ELSE {<<>>},
                       f \in Endings(set)}

Measure ==
  /\ call.phase = "sent"
  /\ output' \in Outputs(ScamperReads(words).set)
  /\ Becomes("answered")
  /\ UNCHANGED <<configVars, tries, words>>

(* An answer that does not parse is retryable.                             *)
Retry ==
  /\ call.phase = "answered" /\ SocketResult(output).err = "parse"
  /\ tries < MaxTries
  /\ Becomes("begun")
  /\ UNCHANGED <<configVars, tries, words, output>>

(* Between attempts nothing is read of a configuration.                    *)
Application ==
  /\ call.phase \in {"none", "begun"}
  /\ \/ \E c \in Configs : New(c) \/ \E d \in Configs : Clone(c, d)
     \/ \E c \in Configs : (call.phase = "begun" => c # call.cfg) /\ Configure(c)
  /\ UNCHANGED callVars

AttemptNext == Application \/ Begin \/ Submit \/ Measure \/ Retry

AttemptSpec == AttemptInit /\ [][AttemptNext]_attemptVars

(***************************************************************************)
(* Properties                                                              *)
(***************************************************************************)
(* Every attempt asks scamper for just what the configuration said when    *)
(* the call began: no token is lost, split or taken for another's value,   *)
(* none reaches into a second line, and what the application does to       *)
(* clones in the meantime does not show.                                   *)
AskedIsSent == call.phase = "sent" =>
  ScamperReads(words) = [set |-> Requested(call.asked), rest |-> <<"trace", call.target>>,
                         flag |-> "", over |-> FALSE]

(* A batch whose configuration passed fails for no target but a bad one.   *)
RefusedForCause == call.phase = "invalid" =>
  ~ValidateToken(call.target) \/ (~call.batch /\ ~Validate(call.asked))

(* The two modes make the same result of the same output, and the socket   *)
(* mode never takes a snapshot for the result.                             *)
ModesAgree == call.phase = "answered" =>
  LET res == SocketResult(output) IN
  /\ res.reason # InProgress
  /\ ~Snapshots(Requested(call.asked)) => LegacyResult(output) = res

(* The user id of the configuration comes back with the result, unless the *)
(* caller's own metadata has that key.                                     *)
UserIdComesBack == \A user \in {<<>>, [userid |-> "mine"]} :
  LET res == SocketResult(output) IN
  call.phase = "answered" /\ res.err # "parse" =>
    MergeMetadata(res.metadata, user)["userid"] =
      IF user = <<>> THEN UserId(Requested(call.asked)) ELSE "mine"
=============================================================================
