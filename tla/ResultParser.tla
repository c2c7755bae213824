---------------------------- MODULE ResultParser ----------------------------
(***************************************************************************)
(* src/internal/parser/json.go and how both clients apply it.  A record of *)
(* scamper's output is [type, reason, data]: "trace", "other" (cycle-start *)
(* and the like) or "garbage" (no JSON); the stop reason; and the fields   *)
(* present in it, by name.  Hops and times are left out.                   *)
(***************************************************************************)
EXTENDS Naturals, Sequences, FiniteSets

TextKeys == {"errmsg", "src", "rtr", "version", "monitor"}

(* A key for every field present; a text that is empty counts as absent.   *)
buildMetadata(rec) ==
  [k \in {f \in DOMAIN rec.data : f \in TextKeys => rec.data[f] # ""} |-> rec.data[k]]

ParseError == [err |-> "parse", reason |-> "", metadata |-> <<>>]

(* The record's own errmsg becomes the result's error.                     *)
convert(rec) ==
  [err |-> IF "errmsg" \in DOMAIN buildMetadata(rec) THEN "failed" ELSE "none",
   reason |-> rec.reason, metadata |-> buildMetadata(rec)]

(* The first record that matters decides: garbage, or a trace.             *)
FirstOf(types, recs) ==
  LET hits == {k \in DOMAIN recs : recs[k].type \in types}
      first == CHOOSE k \in hits : \A n \in hits : k <= n
  IN IF hits = {} \/ recs[first].type = "garbage" THEN ParseError ELSE convert(recs[first])

(* Variant: records that are no trace are not skipped.                     *)
ParseAny(recs) == FirstOf({"trace", "other", "garbage"}, recs)
ParseTrace(recs) == FirstOf({"trace", "garbage"}, recs)

(* Variant: the earlier map wins.                                          *)
MergeEarlier(a, b) ==
  [k \in DOMAIN a \cup DOMAIN b |-> IF k \in DOMAIN a THEN a[k] ELSE b[k]]

(* MergeMetadata: the later map wins.                                      *)
MergeMetadata(a, b) ==
  [k \in DOMAIN a \cup DOMAIN b |-> IF k \in DOMAIN b THEN b[k] ELSE a[k]]

(* legacy: once parses all that scamper wrote to stdout.                   *)
LegacyResult(recs) == ParseTrace(recs)

(* socket: handleData parses every DATA frame that has an id by itself (the*)
(* daemon gives none to other records) and skips a snapshot.               *)
InProgress == "INPROGRESS"
SocketResult(recs) ==
  LET Result(k) == ParseTrace(<<recs[k]>>)
      hits == {k \in DOMAIN recs : recs[k].type # "other" /\ Result(k).reason # InProgress}
  IN Result(CHOOSE k \in hits : \A n \in hits : k <= n)
=============================================================================
