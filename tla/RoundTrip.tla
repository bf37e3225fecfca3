----------------------------- MODULE RoundTrip -----------------------------
(***************************************************************************)
(* A message from one node to another: the calls that build it             *)
(* (MessageApi), serialize() and writeRaw() at the sender (Codec), the     *)
(* listen loop at the receiver (ListenFraming), the parser and the object  *)
(* its handlers get (Codec), and the getters they read it with             *)
(* (MessageApi).  The hub between them passes the text on, and may end     *)
(* lines with a carriage return.  A second message follows, to see whether *)
(* the first one leaves it alone.                                          *)
(***************************************************************************)
EXTENDS MessageApi

CONSTANTS
  Programs,    \* the ways a node may build its message
  Follower,    \* the message that follows
  Units,       \* the units of text
  MaxUnits, MaxChunk   \* of ListenFraming's Read, which is not used here

Text == Seq(Units)

\* The units that some function of Codec or ListenFraming looks for.
Marks == {"sp", "tab", "nl", "cr", "dq", "sq", "=", "~", ":", "<<", ">>", "[", "]", "{", "}"}

\* Commands, topics, handles, codes, keys and flags are plain words.
Name == Seq(Units \ Marks)

\* A call as IsProgram has it, with names for names.
IsCall(c) ==
  Effective(c) =>
    CASE c.op = "arg"  -> CString(c.key) \in ToSet(KeyOrder)
      [] c.op = "flag" -> CString(c.value) \in ToSet(FlagOrder)
      [] c.op = "text" -> TRUE
      [] OTHER         -> CString(c.value) \in Name

ASSUME RoundTripAssumption ==
  /\ Marks \cup {"witness", "publish", "ok", "error", "node_error", "body", "code", "what"}
       \subseteq Units
  /\ NullPtr \notin Text
  /\ \A order \in {KeyOrder, FlagOrder} :
       order \in Seq(Name \ {<<>>}) /\ \A i, j \in DOMAIN order : order[i] = order[j] => i = j
  /\ \A p \in Programs :
       /\ p.type \in Types
       /\ p.calls \in Seq([op : Ops, key : Text \cup {NullPtr}, value : Text \cup {NullPtr}])
       /\ IsProgram(p) /\ \A i \in DOMAIN p.calls : IsCall(p.calls[i])

VARIABLES
  program,     \* how the first message is built
  sent,        \* the first message
  unread,      \* bytes on their way to the receiver
  buf, line, rawLine, multiline, listening, input, output   \* see ListenFraming

Listener == INSTANCE ListenFraming

vars == <<program, sent, unread, Listener!vars>>

\* writeRaw adds a newline to what serialize() ends with one.
Wire(m) == Append(serialize(m), "nl")

CrLf(s) == FlattenSeq([i \in DOMAIN s |-> IF s[i] = "nl" THEN <<"cr", "nl">> ELSE <<s[i]>>])

\* The message that follows is on one line, and by itself a node gets it.
ASSUME FollowerAssumption ==
  LET text == Front(serialize(Follower))
  IN  /\ text \in Seq(Units \ {"nl", "cr", "<<"}) /\ serialize(Follower) = Append(text, "nl")
      /\ ~Malformed(parse(text)) /\ Received(parse(text)) = Follower
      /\ Follower.type \in {"request", "witness", "publish"}

Init ==
  /\ program \in Programs
  /\ sent = Built(program)
  /\ \E bytes \in {Wire(sent) \o Wire(Follower)} : unread \in {bytes, CrLf(bytes)}
  /\ Listener!Init

\* ListenFraming shows that it does not matter how the reads cut the bytes.
Read ==
  /\ unread # <<>>
  /\ buf' = unread /\ input' = unread
  /\ unread' = <<>>
  /\ UNCHANGED <<program, sent, line, rawLine, multiline, listening, output>>

\* One turn of the loop over the lines.  The parser decides what becomes of a
\* complete message.
Turn ==
  /\ Listener!Turn
  /\ output' # output =>
       (Last(output').kind = "error" <=> Malformed(parse(Last(output').text)))
  /\ UNCHANGED <<program, sent, unread>>

Next == Read \/ Turn

Spec == Init /\ [][Next]_vars

----------------------------------------------------------------------------
(* What can be sent *)

Quiet == unread = <<>> /\ Listener!Blocked

\* Some newline would lose a return that is part of the value.
EatsReturn(v) == \E i \in DOMAIN v : v[i] = "cr" /\ (i = Len(v) \/ v[i + 1] = "nl")

Count(v, i, j, u) == Cardinality({k \in i .. j : v[k] = u})

\* Every bracket has its match.
Balanced(v) ==
  \A b \in {"[", "{"} : \A i \in DOMAIN v : v[i] = b =>
    \E j \in i + 1 .. Len(v) : Count(v, i, j, b) = Count(v, i, j, Closer(b))

\* Values of args that serializeArg can put on the wire.  The format has no
\* escapes: a block must not contain its end, a value on one line nothing
\* that opens a block, and there is no way to write both kinds of quote.
Writable(v) ==
  /\ ~EatsReturn(v)
  /\ IF Contains(v, "nl") THEN ~Contains(v, ">>")
     ELSE /\ ~Contains(v, "<<")
          /\ Contains(v, "sq") => ~Contains(v, "dq") /\ Blank(v)
          /\ Quoted(v) = v => Balanced(v)

\* what and body are quoted, but not as args are.
WritableText(v) == \A u \in {"nl", "dq", "<<"} : ~Contains(v, u)

\* Only the first block of a message may begin with a newline, see
\* BoundaryNewlineTrimmedOnce.
OneBlockLeads(m) ==
  LET Blocks == {i \in DOMAIN KeyOrder :
                   KeyOrder[i] \in DOMAIN m.args /\ Contains(m.args[KeyOrder[i]], "nl")}
  IN  \A i, j \in Blocks : i < j => Head(m.args[KeyOrder[j]]) # "nl"

AllWritable(m) ==
  WritableText(m.text) /\ \A k \in DOMAIN m.args : Writable(m.args[k])

\* The first tokens that say the type.
Keyword(token) == token \in {<<"witness">>, <<"publish">>}

\* Names with a meaning of their own, which serialize() does not keep apart
\* from what the message says by itself: the receiver takes a command of that
\* name for the type, an arg of that name for the field, and a response that is
\* both ok and an error for malformed.
Reserved(m) ==
  CASE m.type = "request"  -> Keyword(m.command)
    [] m.type = "response" -> <<"error">> \in m.flags \/ Keyword(Addressed(m))
    [] m.type = "error"    -> <<"ok">> \in m.flags \/ Keyword(Addressed(m))
                                \/ {<<"code">>, <<"what">>} \cap DOMAIN m.args # {}
    [] m.type = "witness"  -> <<"body">> \in DOMAIN m.args
    [] m.type = "publish"  -> FALSE

\* No line of the message opens a block that serialize() does not close.
NoStrayBlock(m) ==
  /\ ~Contains(m.text, "<<")
  /\ \A k \in DOMAIN m.args :
       Contains(m.args[k], "<<") => Contains(m.args[k], "nl") /\ ~Contains(m.args[k], ">>")

\* No line ends outside a block, and no value ends its block.
BlocksHold(m) ==
  /\ ~Contains(m.text, "nl")
  /\ \A k \in DOMAIN m.args : Contains(m.args[k], "nl") => ~Contains(m.args[k], ">>")

\* The sender has said all the receiver asks for.
Entire(m) ==
  CASE m.type = "witness" -> m.text # <<>>
    [] m.type = "publish" -> m.command # <<>>
    [] m.type = "error"   -> \A f \in {m.command, m.handle, m.code, m.text} : f # <<>>
    [] OTHER              -> m.command # <<>> /\ m.handle # <<>>

\* What the handlers should see of m: the flags that say how a request went
\* are put there by serialize().
Expected(m) ==
  [m EXCEPT !.flags = CASE m.type = "response" -> @ \cup {<<"ok">>}
                        [] m.type = "error"    -> @ \cup {<<"error">>, <<"node_error">>}
                        [] OTHER               -> @]

Delivers(o, m) == o.kind = "message" /\ Received(parse(o.text)) = Expected(m)

\* The calls that set a field, add a flag or give the arg k a value.
CallsOf(p, op, k) ==
  {i \in DOMAIN p.calls : /\ p.calls[i].op = op /\ Effective(p.calls[i])
                          /\ op = "arg" => CString(p.calls[i].key) = k}

\* What the last of them says.
LastSaid(p, op, k) ==
  LET set == CallsOf(p, op, k)
  IN  IF set = {} THEN <<>> ELSE CString(p.calls[Max(set)].value)

\* ids are the elements of set, each once, in their order.
Lists(ids, order, set) ==
  /\ ToSet(ids) = set
  /\ \A i, j \in DOMAIN ids : i < j =>
       \E a, b \in DOMAIN order : a < b /\ ids[i] = order[a] /\ ids[j] = order[b]

----------------------------------------------------------------------------
(* Properties *)

\* A node gets what another node sent: the type, command, handle and flags,
\* and the value of every arg, whatever quotes, brackets, spaces, newlines or
\* block marks are in it, as far as the wire format can carry it.  And the
\* message that follows is delivered on its own.
SentIsReceived ==
  Quiet /\ Entire(sent) /\ AllWritable(sent) /\ OneBlockLeads(sent) /\ ~Reserved(sent) =>
    Len(output) = 2 /\ Delivers(output[1], sent) /\ Delivers(output[2], Follower)

\* What the handler reads through the getters is what the sender's calls said:
\* of several values of one arg or field the last, each key and flag once, an arg
\* as present exactly when its value is not empty; and the default otherwise.
CallsAreRead ==
  Quiet /\ Entire(sent) /\ AllWritable(sent) /\ OneBlockLeads(sent) /\ ~Reserved(sent) =>
    LET got == Received(parse(output[1].text))
    IN  /\ Lists(Args(got), KeyOrder, {k \in ToSet(KeyOrder) : CallsOf(program, "arg", k) # {}})
        /\ Lists(Flags(got), FlagOrder, got.flags \cap ToSet(FlagOrder))
        /\ \A k \in ToSet(KeyOrder) :
             LET v == LastSaid(program, "arg", CString(k))
             IN  /\ Arg(got, k) = [value |-> v, present |-> v # <<>>]
                 /\ ArgIf(got, k, <<"default">>) = IF v = <<>> THEN <<"default">> ELSE v
        /\ \A i \in CallsOf(program, "flag", <<>>) :
             LET f == program.calls[i].value
             IN  Flag(got, f) /\ Contains(Flags(got), CString(f))
        /\ \A f \in FieldsOf(sent.type) : Field(got, f) = LastSaid(program, f, <<>>)

\* A response is never received as an error nor an error as a response, whatever
\* flags and args it has, reserved names included, whatever it lacks but the
\* handle, and whatever quotes break out of its values, as long as blocks end
\* where serialize() ends them.  (Without the handle the first token does not
\* say that it is a response, and "~x" after such a quote makes it a request.)
StatusNeverFlips ==
  Quiet /\ sent.type \in {"response", "error"} /\ sent.handle # <<>>
    /\ NoStrayBlock(sent) /\ BlocksHold(sent) =>
    \A o \in ToSet(output) :
      o.kind = "message" => Received(parse(o.text)).type \in {sent.type, Follower.type}

\* However a value breaks the message it is in, with quotes, brackets and line
\* ends, the next message is delivered as it is, down to its raw bytes, unless
\* a block is left open.
NextIsIntact ==
  Quiet /\ NoStrayBlock(sent) =>
    /\ output # <<>> /\ Delivers(Last(output), Follower)
    /\ FromRaw(Follower.type, Last(output).raw) = Follower

\* A message that lacks what its type requires is rejected by the receiver, or
\* is a blank line; it is never taken for a message of another type, although
\* the type is only told from the first token, and it does not harm the message
\* that follows.  (A publish without a topic, but with flags, takes the first
\* one for it.)
PartialIsRejected ==
  Quiet /\ ~Entire(sent) /\ AllWritable(sent) /\ ~Reserved(sent)
    /\ ~(sent.type = "publish" /\ sent.args = <<>> /\ sent.flags # {}) =>
    /\ output # <<>> /\ Delivers(Last(output), Follower)
    /\ \A o \in ToSet(Front(output)) : o.kind = "error"

\* The raw bytes a handler is given are the message: create_from_raw makes of
\* them what listen() made, whatever the values contain, as long as no block
\* is opened on the line that closes another.
RawIsTheMessage ==
  Quiet => \A i \in DOMAIN output :
    output[i].kind = "message"
      /\ ~(\E j, k \in DOMAIN output[i].raw : j < k
             /\ output[i].raw[j] = ">>" /\ output[i].raw[k] = "<<")
    => LET message == Received(parse(output[i].text))
       IN  FromRaw(message.type, output[i].raw) = message

\* parser.cpp:321 says of the value of a block "strip block delimiters and
\* trim one boundary newline on each side": a value that begins with a newline
\* of its own keeps it.
BoundaryNewlineTrimmedOnce ==
  Quiet /\ Entire(sent) /\ AllWritable(sent) /\ ~Reserved(sent) =>
    Len(output) = 2 /\ Delivers(output[1], sent)

=============================================================================
