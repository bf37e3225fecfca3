------------------------------- MODULE Codec -------------------------------
(***************************************************************************)
(* What a message looks like on the wire, and what becomes of it: the      *)
(* serialize() functions of spore_c, tokenize(), build() and validate() of *)
(* the parser, and the object a handler is given.  All are functions of    *)
(* their input; RoundTrip puts them at the two ends of a connection.       *)
(*                                                                         *)
(* Text is a sequence of units.  The units that mean something are         *)
(*   "sp" "tab" "nl" "cr" "dq" "sq"   space and line ends, both quotes     *)
(*   "=" "~" ":" "<<" ">>" "[" "]" "{" "}"                                 *)
(*   "witness" "publish" "ok" "error" "node_error" "body" "code" "what"    *)
(* and every other unit stands for other text.                             *)
(***************************************************************************)
EXTENDS Naturals, Sequences, FiniteSets, SequencesExt

CONSTANTS
  KeyOrder,    \* the keys of args in the order of a std::map
  FlagOrder    \* the flags in the order of a std::set

\* A message, to be sent or as a handler gets it.  text is the body of a
\* witness or the what of an error; fields a type does not have are empty.
\*   [type, command, handle, code, text, args, flags]
\* command is the topic of a publish; args is a partial function.

Optional(condition, s) == IF condition THEN s ELSE <<>>

----------------------------------------------------------------------------
(* serialize() *)

Blank(v) == Contains(v, "sp") \/ Contains(v, "tab")

\* Mutant of Quoted: spaces are looked for before quotes.
QuotedSpaceFirst(v) ==
  IF Contains(v, "nl") THEN <<"<<", "nl">> \o v \o <<"nl", ">>">>
  ELSE IF Blank(v) THEN <<"dq">> \o v \o <<"dq">>
  ELSE IF Contains(v, "dq") THEN <<"sq">> \o v \o <<"sq">>
  ELSE v

\* Message::serializeArg, the value
Quoted(v) ==
  IF Contains(v, "nl") THEN <<"<<", "nl">> \o v \o <<"nl", ">>">>
  ELSE IF Contains(v, "dq") THEN <<"sq">> \o v \o <<"sq">>
  ELSE IF Blank(v) THEN <<"dq">> \o v \o <<"dq">>
  ELSE v

serializeArg(k, v) == <<"sp">> \o k \o <<"=">> \o Quoted(v)

serializeArgs(args) ==
  FlattenSeq([i \in DOMAIN KeyOrder |->
    Optional(KeyOrder[i] \in DOMAIN args, serializeArg(KeyOrder[i], args[KeyOrder[i]]))])

serializeFlags(flags) ==
  FlattenSeq([i \in DOMAIN FlagOrder |->
    Optional(FlagOrder[i] \in flags, <<"sp">> \o FlagOrder[i])])

\* The first token of both kinds of response.
Addressed(m) ==
  IF m.handle # <<>> THEN <<"~">> \o m.handle \o <<":">> \o m.command ELSE m.command

\* what and body are quoted whatever they contain.
InQuotes(key, v) ==
  Optional(v # <<>>, <<"sp", key, "=", "dq">> \o v \o <<"dq">>)

serializeRequest(m) ==
  m.command \o Optional(m.handle # <<>>, <<"sp", "~">> \o m.handle)
    \o serializeArgs(m.args) \o serializeFlags(m.flags)

serializeResponse(m) ==
  Addressed(m) \o <<"sp", "ok">>
    \o serializeFlags(m.flags \ {<<"ok">>}) \o serializeArgs(m.args)

serializeError(m) ==
  Addressed(m) \o <<"sp", "error">>
    \o Optional(m.code # <<>>, <<"sp", "code", "=">> \o m.code)
    \o InQuotes("what", m.text)
    \o serializeArgs(m.args) \o serializeFlags(m.flags) \o <<"sp", "node_error">>

serializeWitness(m) ==
  <<"witness">> \o InQuotes("body", m.text)
    \o serializeArgs(m.args) \o serializeFlags(m.flags)

serializePublish(m) ==
  <<"publish">> \o Optional(m.command # <<>>, <<"sp">> \o m.command)
    \o serializeArgs(m.args) \o serializeFlags(m.flags)

serialize(m) ==
  Append(CASE m.type = "request"  -> serializeRequest(m)
           [] m.type = "response" -> serializeResponse(m)
           [] m.type = "error"    -> serializeError(m)
           [] m.type = "witness"  -> serializeWitness(m)
           [] m.type = "publish"  -> serializePublish(m), "nl")

----------------------------------------------------------------------------
(* parser::tokenize *)

Start == [where |-> "none", bracket |-> "[", depth |-> 0,
          value |-> <<>>, type |-> "none", tokens |-> <<>>]

Closer(b) == IF b = "[" THEN "]" ELSE "}"

Push(s, c) == [s EXCEPT !.value = Append(@, c)]

EndToken(s) ==
  IF s.value = <<>> THEN s
  ELSE [s EXCEPT !.tokens = Append(@, [type |-> s.type, value |-> s.value]),
                 !.value = <<>>, !.type = "none"]

InNone(s, c) ==
  CASE c = "sp"                    -> EndToken(s)
    [] c = "dq"                    -> [s EXCEPT !.where = "quotes"]
    [] c = "sq"                    -> [s EXCEPT !.where = "s_quotes"]
    [] c \in {"[", "{"}            -> [Push(s, c) EXCEPT !.where = "brackets",
                                                         !.bracket = c, !.depth = 1]
    [] c = "="                     -> [Push(s, c) EXCEPT !.type = "arg"]
    [] c = "~" /\ s.value = <<>>   -> [Push(s, c) EXCEPT !.type = "handle"]
    [] c = "<<"                    -> [Push(s, c) EXCEPT !.where = "triangles"]
    [] OTHER                       -> Push(s, c)

InBrackets(s, c) ==
  LET pushed == Push(s, c)
  IN  CASE c = s.bracket                        -> [pushed EXCEPT !.depth = @ + 1]
        [] c = Closer(s.bracket) /\ s.depth = 1 -> [pushed EXCEPT !.depth = 0, !.where = "none"]
        [] c = Closer(s.bracket) /\ s.depth > 1 -> [pushed EXCEPT !.depth = @ - 1]
        [] OTHER                                -> pushed

Token(s, c) ==
  CASE s.where = "none"      -> InNone(s, c)
    [] s.where = "quotes"    -> IF c = "dq" THEN [s EXCEPT !.where = "none"] ELSE Push(s, c)
    [] s.where = "s_quotes"  -> IF c = "sq" THEN [s EXCEPT !.where = "none"] ELSE Push(s, c)
    [] s.where = "brackets"  -> InBrackets(s, c)
    [] s.where = "triangles" -> IF c = ">>" THEN [Push(s, c) EXCEPT !.where = "none"] ELSE Push(s, c)

\* What is left open at the end is closed.
CloseAll(s) ==
  CASE s.where = "brackets"  -> [s EXCEPT !.value = @ \o [i \in 1 .. s.depth |-> Closer(s.bracket)]]
    [] s.where = "triangles" -> Push(s, ">>")
    [] OTHER                 -> s

tokenize(text) ==
  LET state[i \in 0 .. Len(text)] ==
        IF i = 0 THEN Start ELSE Token(state[i - 1], text[i])
  IN  EndToken(CloseAll(state[Len(text)])).tokens

----------------------------------------------------------------------------
(* parser::build *)

find(s, u) == SelectInSeq(s, LAMBDA x : x = u)

TypeOf(first) ==
  CASE first.type = "arg"                                        -> "request"
    [] first.type = "handle"                                     -> "response"
    [] first.type = "none" /\ first.value = <<"witness">>        -> "witness"
    [] first.type = "none" /\ first.value = <<"publish">>        -> "publish"
    [] OTHER                                                     -> "request"

\* The delimiters of a block go, and one newline at each end.
Unblock(v) ==
  IF Len(v) >= 2 /\ v[1] = "<<" /\ Last(v) = ">>"
    THEN LET inner == SubSeq(v, 2, Len(v) - 1)
             chopped == IF inner # <<>> /\ Head(inner) = "nl" THEN Tail(inner) ELSE inner
         IN  IF chopped # <<>> /\ Last(chopped) = "nl" THEN Front(chopped) ELSE chopped
    ELSE v

KeyValue(v) ==
  LET e == find(v, "=")
  IN  <<SubSeq(v, 1, e - 1), Unblock(SubSeq(v, e + 1, Len(v)))>>

OfType(tokens, t) ==
  FlattenSeq([i \in DOMAIN tokens |-> Optional(tokens[i].type = t, <<tokens[i]>>)])

\* args is a sequence of pairs, flags one of values.
build(tokens) ==
  IF tokens = <<>>
    THEN [type |-> "unknown", capability |-> <<>>, handle |-> <<>>, args |-> <<>>, flags |-> <<>>]
  ELSE
    LET first   == Head(tokens)
        type    == TypeOf(first)
        named   == type = "publish" /\ Len(tokens) > 1    \* the second token is the topic
        rest    == SubSeq(tokens, IF named THEN 3 ELSE 2, Len(tokens))
        address == Tail(first.value)
        colon   == find(address, ":")
        pairs   == OfType(rest, "arg")
        handles == OfType(rest, "handle")
        words   == OfType(rest, "none")
    IN  [type |-> type,
         capability |->
           CASE type = "response" /\ colon = 0   -> <<>>
             [] type = "response" /\ colon # 0   -> SubSeq(address, colon + 1, Len(address))
             [] type = "publish" /\ named        -> tokens[2].value
             [] type = "publish" /\ ~named       -> <<>>
             [] OTHER                            -> first.value,
         handle |->
           CASE handles # <<>>                                       -> Tail(Last(handles).value)
             [] handles = <<>> /\ type = "response" /\ colon = 0     -> address
             [] handles = <<>> /\ type = "response" /\ colon # 0     -> SubSeq(address, 1, colon - 1)
             [] OTHER                                                -> <<>>,
         args |-> [i \in DOMAIN pairs |-> KeyValue(pairs[i].value)],
         flags |-> [i \in DOMAIN words |-> words[i].value]]

parse(text) == build(tokenize(text))

----------------------------------------------------------------------------
(* parser::validate *)

HasFlag(p, f) == Contains(p.flags, <<f>>)
HasArg(p, k)  == \E i \in DOMAIN p.args : p.args[i][1] = <<k>>

\* Mutant of BadRequest: a request need not say who asks.
BadRequestUnhandled(p) == p.capability = <<>> \/ Contains(p.capability, "=")

BadRequest(p) == p.capability = <<>> \/ Contains(p.capability, "=") \/ p.handle = <<>>

\* Mutant of BadResponse: it may be ok and an error at once.
BadResponseBoth(p) ==
  \/ p.capability = <<>> \/ p.handle = <<>>
  \/ ~HasFlag(p, "ok") /\ ~HasFlag(p, "error")
  \/ HasFlag(p, "error") /\ ~(HasArg(p, "code") /\ HasArg(p, "what"))

BadResponse(p) ==
  \/ p.capability = <<>> \/ p.handle = <<>>
  \/ HasFlag(p, "ok") <=> HasFlag(p, "error")
  \/ HasFlag(p, "error") /\ ~(HasArg(p, "code") /\ HasArg(p, "what"))

BadPublish(p) ==
  p.capability = <<>> \/ Contains(p.capability, "=") \/ Head(p.capability) = "~"

Malformed(p) ==
  CASE p.type = "request"  -> BadRequest(p)
    [] p.type = "response" -> BadResponse(p)
    [] p.type = "witness"  -> ~HasArg(p, "body")
    [] p.type = "publish"  -> BadPublish(p)
    [] OTHER               -> TRUE

----------------------------------------------------------------------------
(* What listen() makes of a valid message for its handlers *)

\* The last value given to a key.
Lookup(pairs, k) ==
  LET i == SelectLastInSeq(pairs, LAMBDA p : p[1] = k)
  IN  IF i = 0 THEN <<>> ELSE pairs[i][2]

\* addArg on a map: keys that have a field of their own stay out of it.
ArgMap(pairs, own) ==
  [k \in {pairs[i][1] : i \in DOMAIN pairs} \ own |-> Lookup(pairs, k)]

Create(type) ==
  [type |-> type, command |-> <<>>, handle |-> <<>>, code |-> <<>>, text |-> <<>>,
   args |-> <<>>, flags |-> {}]

requestOf(p) ==
  [Create("request") EXCEPT !.command = p.capability, !.handle = p.handle,
                            !.args = ArgMap(p.args, {}), !.flags = ToSet(p.flags)]

responseOf(p) ==
  [Create("response") EXCEPT !.command = p.capability, !.handle = p.handle,
                             !.args = ArgMap(p.args, {}), !.flags = ToSet(p.flags)]

errorOf(p) ==
  [Create("error") EXCEPT !.command = p.capability, !.handle = p.handle,
                          !.code = Lookup(p.args, <<"code">>),
                          !.text = Lookup(p.args, <<"what">>),
                          !.args = ArgMap(p.args, {<<"code">>, <<"what">>}),
                          !.flags = ToSet(p.flags)]

witnessOf(p) ==
  [Create("witness") EXCEPT !.text = Lookup(p.args, <<"body">>),
                            !.args = ArgMap(p.args, {<<"body">>}), !.flags = ToSet(p.flags)]

publishOf(p) ==
  [Create("publish") EXCEPT !.command = p.capability,
                            !.args = ArgMap(p.args, {}), !.flags = ToSet(p.flags)]

Received(p) ==
  CASE p.type = "request"                          -> requestOf(p)
    [] p.type = "response" /\ HasFlag(p, "error")  -> errorOf(p)
    [] p.type = "response" /\ ~HasFlag(p, "error") -> responseOf(p)
    [] p.type = "witness"                          -> witnessOf(p)
    [] p.type = "publish"                          -> publishOf(p)

----------------------------------------------------------------------------
(* create_from_raw: parse, without validating, the raw bytes of a message  *)

\* Mutant of Normal: only the newline at the end goes.
NormalKeepsReturns(raw) == IF raw # <<>> /\ Last(raw) = "nl" THEN Front(raw) ELSE raw

\* parseRaw: a return before a newline goes, and the newline at the end.
Normal(raw) ==
  LET kept  == [i \in DOMAIN raw |->
                  IF raw[i] = "cr" /\ i < Len(raw) /\ raw[i + 1] = "nl"
                    THEN <<>> ELSE <<raw[i]>>]
      input == FlattenSeq(kept)
  IN  IF input # <<>> /\ Last(input) = "nl" THEN Front(input) ELSE input

populateMessage(type, p, skipped) ==
  [Create(type) EXCEPT !.command = p.capability, !.handle = p.handle,
                       !.args = ArgMap(p.args, skipped), !.flags = ToSet(p.flags)]

errorFromRaw(p) ==
  [populateMessage("error", p, {<<"code">>, <<"what">>})
     EXCEPT !.code = Lookup(p.args, <<"code">>), !.text = Lookup(p.args, <<"what">>)]

witnessFromRaw(p) ==
  [Create("witness") EXCEPT !.text = Lookup(p.args, <<"body">>),
                            !.args = ArgMap(p.args, {<<"body">>}), !.flags = ToSet(p.flags)]

publishFromRaw(p) ==
  [Create("publish") EXCEPT !.command = p.capability,
                            !.args = ArgMap(p.args, {}), !.flags = ToSet(p.flags)]

\* There is one for each kind; it gives nothing for text of another type.
FromRaw(kind, raw) ==
  LET p == parse(Normal(raw))
  IN  IF p.type # (IF kind = "error" THEN "response" ELSE kind) THEN [type |-> "nothing"]
      ELSE CASE kind = "error"   -> errorFromRaw(p)
             [] kind = "witness" -> witnessFromRaw(p)
             [] kind = "publish" -> publishFromRaw(p)
             [] OTHER            -> populateMessage(kind, p, {})

============================================================================
