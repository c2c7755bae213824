---------------------------- MODULE CommandLine ----------------------------
(***************************************************************************)
(* src/internal/core/config.go: Validate, Build, BuildArgv and             *)
(* ValidateToken; the line once makes of the vector; and how scamper reads *)
(* that line.  A configuration is a value of TraceConfig: [fields,         *)
(* options, extraArgs].  Times are in milliseconds.                        *)
(***************************************************************************)
EXTENDS Integers, SequencesExt

Methods == {"udp", "icmp", "udp-paris", "icmp-paris", "tcp", "tcp-ack"}
OptionValues == {"back", "const-payload", "dl", "dtree-noback", "ptr", "raw"}
IPs == {"192.168.6.254", "fe80::1"}
Port == 0..65535

(* The fields in the order of Build, each with its flag and the values     *)
(* Validate lets through.                                                  *)
Row(f, flag, valid) == [f |-> f, flag |-> flag, valid |-> valid]
Table == <<
  Row("protocol", "-P", Methods),          Row("firstHop", "-f", 1..255),
  Row("maxHops", "-m", 1..255),            Row("wait", "-w", Nat),
  Row("probesPerHop", "-q", Nat \ {0}),    Row("source", "-S", IPs \cup {""}),
  Row("dstPort", "-d", Port),              Row("srcPort", "-s", Port),
  Row("tos", "-t", 0..255),                Row("confidence", "-c", {95, 99}),
  Row("gapLimit", "-g", Nat),              Row("gapAction", "-G", {1, 2}),
  Row("waitProbe", "-W", Nat),             Row("waitProbeHop", "-H", 0..2000),
  Row("loops", "-l", Nat),                 Row("squeries", "-N", Nat \ {0}),
  Row("offset", "-o", 0..8191),            Row("payloadHex", "-p", {"", "00"}),
  Row("routerAddr", "-r", IPs \cup {""}),  Row("userID", "-U", Nat),
  Row("stream", "-y", Nat),                Row("pmtud", "-M", BOOLEAN),
  Row("allProbes", "-Q", BOOLEAN),         Row("ttlExceededNotDest", "-T", BOOLEAN) >>

Texts == {"protocol", "source", "payloadHex", "routerAddr"}
Switches == {"pmtud", "allProbes", "ttlExceededNotDest"}
(* The unit of a time on the command line; Go's division truncates.        *)
Unit(f) == CASE f \in {"wait", "waitProbeHop"} -> 1000 [] f = "waitProbe" -> 10 [] OTHER -> 1

(* Tokens that are empty or hold white space or control characters, as the *)
(* words they fall into on a command line; "eol" ends the line.            *)
Odd == [t \in {"", "a b", "a\nb"} |->
         CASE t = "" -> <<>> [] t = "a b" -> <<"a", "b">> [] t = "a\nb" -> <<"a", "eol", "b">>]

(* Variant: only a line break is refused, as trace-config-design.md has it.*)
ValidateLineOnly(t) == t # "a\nb"
ValidateToken(t) == t \notin DOMAIN Odd

Set2(v, f, g) == {f, g} \subseteq DOMAIN v.fields

Validate(v) ==
  /\ \A k \in DOMAIN Table :
       Table[k].f \in DOMAIN v.fields => v.fields[Table[k].f] \in Table[k].valid
  /\ Set2(v, "firstHop", "maxHops") => v.fields["firstHop"] <= v.fields["maxHops"]
  /\ Set2(v, "squeries", "gapLimit") /\ v.fields["gapLimit"] > 0 =>
       v.fields["squeries"] < v.fields["gapLimit"]
  /\ \A i \in DOMAIN v.options : v.options[i] \in OptionValues
  /\ \A i \in DOMAIN v.extraArgs : ValidateToken(v.extraArgs[i])

(* Variant: an empty text is rendered like any other.                      *)
RenderedEmpty(row, x) ==
  IF row.f \in Texts THEN <<row.flag, x>> ELSE
  IF row.f \in Switches THEN IF x THEN <<row.flag>> ELSE <<>>
  ELSE <<row.flag, ToString(x \div Unit(row.f))>>

(* What a field that is set adds to the vector.                            *)
Rendered(row, x) ==
  IF row.f \in Switches THEN IF x THEN <<row.flag>> ELSE <<>>
  ELSE IF row.f \in Texts THEN IF x = "" THEN <<>> ELSE <<row.flag, x>>
  ELSE <<row.flag, ToString(x \div Unit(row.f))>>

Build(v) ==
  FlattenSeq([k \in DOMAIN Table |->
    IF Table[k].f \in DOMAIN v.fields THEN Rendered(Table[k], v.fields[Table[k].f]) ELSE <<>>])
  \o FlattenSeq([i \in DOMAIN v.options |-> <<"-O", v.options[i]>>])
  \o v.extraArgs

(* BuildArgv refuses a bad target or configuration and is else Argv.       *)
ArgvAllowed(v, target) == ValidateToken(target) /\ Validate(v)
Argv(v, target) == <<"trace">> \o Build(v) \o <<target>>

(* strings.Join with blanks, as a sequence of words.                       *)
Words(argv) == FlattenSeq([i \in DOMAIN argv |->
  IF argv[i] \in DOMAIN Odd THEN Odd[argv[i]] ELSE <<argv[i]>>])

(***************************************************************************)
(* scamper reads the first line word by word: a flag takes the next word,  *)
(* unless it is a switch; the last value of a flag counts, save for -O.    *)
(***************************************************************************)
Bare == {"-M", "-Q", "-T"}
Valued == ({Table[k].flag : k \in DOMAIN Table} \ Bare) \cup {"-O", "-z", "-Z"}

Given(set, flag, x) == {p \in set : p[1] # flag \/ flag = "-O"} \cup {<<flag, x>>}

ReadWord(acc, w) ==
  IF w = "eol" \/ acc.over THEN [acc EXCEPT !.over = TRUE]
  ELSE IF acc.flag # "" THEN [acc EXCEPT !.flag = "", !.set = Given(@, acc.flag, w)]
  ELSE IF w \in Bare THEN [acc EXCEPT !.set = Given(@, w, "on")]
  ELSE IF w \in Valued THEN [acc EXCEPT !.flag = w]
  ELSE [acc EXCEPT !.rest = Append(@, w)]

ScamperReads(words) ==
  FoldLeft(ReadWord, [set |-> {}, rest |-> <<>>, flag |-> "", over |-> FALSE], words)

(* What the caller asked for, by the table of docs/trace-config-design.md: *)
(* the fields that are set and not empty or off, the options, and the      *)
(* extra arguments, pairs of a flag and its one value, which come first.   *)
Shown(f, x) == IF f \in Switches THEN "on"
               ELSE IF f \in Texts THEN x ELSE ToString(x \div Unit(f))

Requested(v) ==
  LET extra == {<<v.extraArgs[i], v.extraArgs[i + 1]>> :
                  i \in {n \in 1..(Len(v.extraArgs) - 1) : n % 2 = 1}}
      own == {<<Table[k].flag, Shown(Table[k].f, v.fields[Table[k].f])>> :
                k \in {n \in DOMAIN Table :
                  /\ Table[n].f \in DOMAIN v.fields
                  /\ Table[n].f \in Texts => v.fields[Table[n].f] # ""
                  /\ Table[n].f \in Switches => v.fields[Table[n].f]}}
  IN extra \cup {p \in own : \A e \in extra : e[1] # p[1]}
           \cup {<<"-O", v.options[i]>> : i \in DOMAIN v.options}
=============================================================================
