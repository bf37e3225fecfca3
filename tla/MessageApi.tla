------------------------------ MODULE MessageApi ------------------------------
(***************************************************************************)
(* The functions with which a program builds the messages it sends and     *)
(* reads the ones its handlers get: New, WithArg, WithFlag and the getters *)
(* of the Go packages, over the conversions of spore_c.go, over the        *)
(* setters and getters of spore_c.cpp, over the objects of Codec.          *)
(*                                                                         *)
(* A program that builds a message is [type, calls], and one call is       *)
(*   [op, key, value]     op: "command", "handle", "code", "text", "arg"   *)
(*                            or "flag"; key is that of an arg             *)
(* where command is also the topic, and text the what and the body.  C     *)
(* callers may pass a null pointer, and Go callers a string with the unit  *)
(* "nul" in it, where C takes the string to end.                           *)
(***************************************************************************)
EXTENDS Codec

CONSTANT NullPtr

----------------------------------------------------------------------------
(* Building *)

\* C.CString, read to its first zero byte.
CString(s) ==
  LET end == SelectInSeq(s, LAMBDA u : u = "nul")
  IN  IF end = 0 THEN s ELSE SubSeq(s, 1, end - 1)

\* A call with a null pointer does nothing.
Effective(c) == NullPtr \notin {c.key, c.value}

\* The fields each type has setters and getters for; all have args and flags.
requestFields  == {"command", "handle"}
responseFields == {"command", "handle"}
errorFields    == {"command", "handle", "code", "text"}
witnessFields  == {"text"}
publishFields  == {"command"}

FieldsOf(type) ==
  CASE type = "request"  -> requestFields
    [] type = "response" -> responseFields
    [] type = "error"    -> errorFields
    [] type = "witness"  -> witnessFields
    [] type = "publish"  -> publishFields

Types == {"request", "response", "error", "witness", "publish"}
Ops   == {"arg", "flag", "command", "handle", "code", "text"}

\* What a program can be written with.
IsProgram(program) ==
  \A i \in DOMAIN program.calls :
    program.calls[i].op \in {"arg", "flag"} \cup FieldsOf(program.type)

\* args[k] = v
Assign(args, k, v) == [x \in DOMAIN args \cup {k} |-> IF x = k THEN v ELSE args[x]]

\* Mutant of Apply: an arg that is there stays as it is.
ApplyKeepsFirst(m, c) ==
  IF ~Effective(c) \/ (c.op = "arg" /\ CString(c.key) \in DOMAIN m.args) THEN m
  ELSE CASE c.op = "arg"  -> [m EXCEPT !.args = Assign(@, CString(c.key), CString(c.value))]
         [] c.op = "flag" -> [m EXCEPT !.flags = @ \cup {CString(c.value)}]
         [] OTHER         -> [m EXCEPT ![c.op] = CString(c.value)]

\* One setter, down to the object: args are a map and flags a set.
Apply(m, c) ==
  IF ~Effective(c) THEN m
  ELSE CASE c.op = "arg"  -> [m EXCEPT !.args = Assign(@, CString(c.key), CString(c.value))]
         [] c.op = "flag" -> [m EXCEPT !.flags = @ \cup {CString(c.value)}]
         [] OTHER         -> [m EXCEPT ![c.op] = CString(c.value)]

Built(program) ==
  LET built[i \in 0 .. Len(program.calls)] ==
        IF i = 0 THEN Create(program.type) ELSE Apply(built[i - 1], program.calls[i])
  IN  built[Len(program.calls)]

----------------------------------------------------------------------------
(* Reading *)

\* A string that is empty is handed out as a null pointer, which C.GoString
\* makes an empty string again.
sv(s) == IF s = <<>> THEN NullPtr ELSE s

GoString(p) == IF p = NullPtr THEN <<>> ELSE p

\* Command, Handle, Topic, Code, What and Body.
Field(m, f) == GoString(sv(m[f]))

getArg(m, k) == IF k \in DOMAIN m.args THEN m.args[k] ELSE <<>>

\* The value of an arg and whether it is there; an empty one is not.
Arg(m, k) ==
  LET v == GoString(sv(getArg(m, CString(k))))
  IN  [value |-> v, present |-> v # <<>>]

ArgIf(m, k, default) == IF Arg(m, k).present THEN Arg(m, k).value ELSE default

\* Up to capacity ids are copied; all are counted.
CopyIds(ids, capacity) ==
  [size |-> Len(ids), out |-> SubSeq(ids, 1, IF capacity < Len(ids) THEN capacity ELSE Len(ids))]

\* The binding asks for the number first.
getStrings(ids) == CopyIds(ids, CopyIds(ids, 0).size).out

\* The elements of a map or set, in its order.
InOrder(order, elements) ==
  FlattenSeq([i \in DOMAIN order |-> Optional(order[i] \in elements, <<order[i]>>)])

Args(m)  == getStrings(InOrder(KeyOrder, DOMAIN m.args))
Flags(m) == getStrings(InOrder(FlagOrder, m.flags))

Flag(m, f) == CString(f) \in m.flags

===============================================================================
