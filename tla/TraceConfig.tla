---------------------------- MODULE TraceConfig ----------------------------
(***************************************************************************)
(* src/internal/core/config.go, TraceConfig: the builder's setters, Option *)
(* and ExtraArgs, and Clone.  A scalar field is a pointer that a setter    *)
(* replaces, so that sharing it does no harm; options and extraArgs are    *)
(* slices, which append may extend in an array that others see.            *)
(***************************************************************************)
EXTENDS Naturals, Sequences, FiniteSets

CONSTANTS
  Configs,   \* the *TraceConfig values of an application
  Setters,   \* the calls of a setter looked at: <<field, argument>>
  OptionArgs,\* arguments of Option
  ExtraArgs, \* arguments of ExtraArgs, each a sequence of tokens
  Spare,     \* capacities append may leave unused when it allocates
  MaxCalls   \* bound: calls that change a configuration

ASSUME ConfigAssumption ==
  /\ OptionArgs \subseteq STRING /\ ExtraArgs \subseteq Seq(STRING)
  /\ Spare \subseteq Nat /\ Spare # {}
  /\ MaxCalls \in Nat

VARIABLES
  made,    \* configurations that exist
  config,  \* config[c]: [fields, options, extraArgs]; an unset field is not in
           \* the domain of fields
  heap,    \* the arrays behind the slices; array 1 has no room, for nil slices
  calls    \* calls so far

configVars == <<made, config, heap, calls>>

NilSlice == [arr |-> 1, len |-> 0]
NewTraceConfig == [fields |-> <<>>, options |-> NilSlice, extraArgs |-> NilSlice]

ConfigInit ==
  /\ made = {}
  /\ config = [c \in Configs |-> NewTraceConfig]
  /\ heap = << <<>> >>
  /\ calls = 0

Read(slice) == SubSeq(heap[slice.arr], 1, slice.len)
Value(c) == [fields |-> config[c].fields, options |-> Read(config[c].options),
             extraArgs |-> Read(config[c].extraArgs)]

(* A new array with the given elements; nothing is allocated for none.     *)
Array(xs, spare) == IF xs = <<>> THEN xs ELSE xs \o [i \in 1..spare |-> ""]

(* append: in place while the array has room for it, else in a copy.       *)
AppendTo(c, part, xs) ==
  LET old == config[c][part]
      size == old.len + Len(xs)
  IN
  \/ /\ size <= Len(heap[old.arr])
     /\ heap' = [heap EXCEPT ![old.arr] =
          [i \in DOMAIN @ |-> IF i \in (old.len + 1)..size THEN xs[i - old.len] ELSE @[i]]]
     /\ config' = [config EXCEPT ![c][part].len = size]
  \/ /\ size > Len(heap[old.arr])
     /\ \E spare \in Spare : heap' = Append(heap, Array(Read(old) \o xs, spare))
     /\ config' = [config EXCEPT ![c][part] = [arr |-> Len(heap) + 1, len |-> size]]

New(c) ==
  /\ c \notin made
  /\ made' = made \cup {c}
  /\ UNCHANGED <<config, heap, calls>>

(* Variant: the struct is copied with its slices.                          *)
CloneShallow(c, d) ==
  /\ c \in made /\ d \notin made
  /\ made' = made \cup {d}
  /\ config' = [config EXCEPT ![d] = config[c]]
  /\ UNCHANGED <<heap, calls>>

Clone(c, d) ==
  /\ c \in made /\ d \notin made
  /\ made' = made \cup {d}
  /\ \E m, n \in Spare : heap' = heap \o << Array(Read(config[c].options), m),
                                           Array(Read(config[c].extraArgs), n) >>
  /\ config' = [config EXCEPT ![d] =
       [fields |-> config[c].fields,
        options |-> [arr |-> Len(heap) + 1, len |-> config[c].options.len],
        extraArgs |-> [arr |-> Len(heap) + 2, len |-> config[c].extraArgs.len]]]
  /\ UNCHANGED <<calls>>

(* Protocol folds the case of its argument.                                *)
Folded(v) == IF v = "UDP" THEN "udp" ELSE v
Stored(f, v) == IF f = "protocol" THEN Folded(v) ELSE v

Set(c, f, v) ==
  /\ c \in made /\ calls < MaxCalls
  /\ calls' = calls + 1
  /\ config' = [config EXCEPT ![c].fields =
       [g \in DOMAIN @ \cup {f} |-> IF g = f THEN Stored(f, v) ELSE @[g]]]
  /\ UNCHANGED <<made, heap>>

(* Option drops a value that is there already.                             *)
AddOption(c, o) ==
  /\ c \in made /\ calls < MaxCalls
  /\ calls' = calls + 1
  /\ IF \E i \in 1..config[c].options.len : Read(config[c].options)[i] = o
     THEN UNCHANGED <<config, heap>>
     ELSE AppendTo(c, "options", <<o>>)
  /\ UNCHANGED made

AddExtraArgs(c, args) ==
  /\ c \in made /\ calls < MaxCalls
  /\ calls' = calls + 1
  /\ AppendTo(c, "extraArgs", args)
  /\ UNCHANGED made

(* The application calls a method of c.                                    *)
Configure(c) ==
  \/ \E call \in Setters : Set(c, call[1], call[2])
  \/ \E o \in OptionArgs : AddOption(c, o)
  \/ \E args \in ExtraArgs : AddExtraArgs(c, args)

(***************************************************************************)
(* Clones are independent: a step changes the value of one configuration   *)
(* at most, and Option and ExtraArgs only add to what it had; no append    *)
(* writes over the tokens of a clone or of the original.                   *)
(***************************************************************************)
IsExtended(old, new) == Len(old) <= Len(new) /\ SubSeq(new, 1, Len(old)) = old

ClonesAreIndependent == [][
  /\ Cardinality({c \in made : Value(c)' # Value(c)}) <= 1
  /\ \A c \in made :
       /\ IsExtended(Value(c).options, Value(c)'.options)
       /\ IsExtended(Value(c).extraArgs, Value(c)'.extraArgs)]_configVars
=============================================================================
