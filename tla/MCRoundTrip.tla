---------------------------- MODULE MCRoundTrip ----------------------------
(* Messages for TLC: every type, complete and not, with one arg of any     *)
(* short value, or with two args of the values that interact; with quotes  *)
(* and words that could change what the message says, or lines that could; *)
(* and every sequence of a few calls that build one.                       *)
EXTENDS RoundTrip

CONSTANTS
  ValueUnits, MaxValue,       \* the values of an arg that is alone
  PairUnits,  MaxPair,        \* the values of two args
  TextUnits,  MaxText,        \* bodies and whats
  StatusUnits, MaxStatus,     \* values that could change the status
  BlockUnits, MaxBlock,       \* values that could end a line or a block early
  MaxBuild                    \* calls in a row

MCUnits ==
  Marks \cup {"witness", "publish", "ok", "error", "node_error", "body", "code", "what",
             "cmd", "h", "top", "next", "a", "b", "c", "f", "x", "y", "nul"}

MCKeyOrder  == <<<<"a">>, <<"b">>, <<"body">>, <<"code">>, <<"what">>>>
MCFlagOrder == <<<<"error">>, <<"f">>, <<"node_error">>, <<"ok">>>>

ArgsOf(values, pairs) ==
  {<<>>} \cup {<<"a">> :> v : v \in values}
         \cup {<<"a">> :> v @@ <<"b">> :> w : v, w \in pairs}

LongArgs  == ArgsOf(BoundedSeq(ValueUnits, MaxValue), BoundedSeq(PairUnits, MaxPair))
ShortArgs == ArgsOf(BoundedSeq(ValueUnits, 1), BoundedSeq(PairUnits, 1))

Texts == BoundedSeq(TextUnits, MaxText)

Message(type, command, handle, code, text, args, flags) ==
  [type |-> type, command |-> command, handle |-> handle, code |-> code,
   text |-> text, args |-> args, flags |-> flags]

SomeFlags == {{}, {<<"f">>}}
Word(w) == {<<>>, <<w>>}

WithArgs ==
  {Message("request", <<"cmd">>, <<"h">>, <<>>, <<>>, a, {<<"f">>}) : a \in LongArgs}
  \cup UNION {{Message("response", <<"cmd">>, <<"h">>, <<>>, <<>>, a, f),
               Message("error", <<"cmd">>, <<"h">>, <<"c">>, <<"x", "sp">>, a, f),
               Message("witness", <<>>, <<>>, <<>>, <<"x">>, a, f),
               Message("publish", <<"top">>, <<>>, <<>>, <<>>, a, f)} :
                 a \in ShortArgs, f \in SomeFlags}

\* Any body or what, and every field present or not.
WithFields ==
  LET few == {<<>>, <<"a">> :> <<"x", "sp">>}
  IN  {Message("request", c, h, <<>>, <<>>, a, f) :
         c \in Word("cmd"), h \in Word("h"), a \in few, f \in SomeFlags}
      \cup {Message("response", c, h, <<>>, <<>>, a, f) :
         c \in Word("cmd"), h \in Word("h"), a \in few, f \in SomeFlags \cup {{<<"ok">>}}}
      \cup {Message("error", <<"cmd">>, <<"h">>, <<"c">>, t, a, f) :
         t \in Texts, a \in few, f \in SomeFlags}
      \cup {Message("error", c, h, d, t, a, f) :
         c \in Word("cmd"), h \in Word("h"), d \in Word("c"), t \in Word("x"), a \in few, f \in SomeFlags}
      \cup {Message("witness", <<>>, <<>>, <<>>, t, a, f) : t \in Texts, a \in few, f \in SomeFlags}
      \cup {Message("publish", c, <<>>, <<>>, <<>>, a, f) :
         c \in Word("top"), a \in few, f \in SomeFlags}

\* Quotes around the word that would turn each kind of response into the other.
WithStatus ==
  LET Values(word) == BoundedSeq(StatusUnits \cup {word}, MaxStatus)
  IN  {Message("response", <<"cmd">>, <<"h">>, <<>>, <<>>, <<"a">> :> v, {}) : v \in Values("error")}
      \cup {Message("error", <<"cmd">>, <<"h">>, <<"c">>, <<"x">>, <<"a">> :> v, {}) : v \in Values("ok")}
      \cup {Message("error", <<"cmd">>, <<"h">>, <<"c">>, v, <<>>, {}) : v \in Values("ok")}

\* One message for each condition of StatusNeverFlips, which is false of it:
\* a handle, no "<<" but that of a block, and no ">>" within a block.
Conditions ==
  LET words == <<"~", "x", ":", "x", "sp", "ok">>
  IN  {Message("error", <<"cmd">>, <<>>, <<"c">>, <<"dq", "sp", "~", "x", "sp", "dq">>, <<>>, {}),
       Message("error", <<"cmd">>, <<"h">>, <<"c">>, <<"x">>,
               <<"a">> :> <<"<<", ">>">> @@ <<"b">> :> (<<"nl">> \o words), {}),
       Message("error", <<"cmd">>, <<"h">>, <<"c">>, <<"x">>,
               <<"a">> :> (<<"nl", ">>", "nl">> \o words), {})}

\* Responses of both kinds whose values have lines of their own.
WithBlocks ==
  Conditions \cup
  UNION {{Message("response", <<"cmd">>, <<"h">>, <<>>, <<>>, <<"a">> :> v, {}),
          Message("error", <<"cmd">>, <<"h">>, <<"c">>, <<"x">>, <<"a">> :> v, {}),
          Message("error", <<"cmd">>, <<"h">>, <<"c">>, v, <<>>, {})} :
            v \in BoundedSeq(BlockUnits, MaxBlock)}

MCCall(op, key, value) == [op |-> op, key |-> key, value |-> value]

\* What the constructor of each type sets.
Constructor(m) ==
  SelectSeq([i \in 1 .. 4 |-> MCCall(<<"command", "handle", "code", "text">>[i], <<>>,
                                    <<m.command, m.handle, m.code, m.text>>[i])],
            LAMBDA c : c.value # <<>>)

ProgramOf(m) ==
  LET keys  == SetToSeq(DOMAIN m.args)
      flags == SetToSeq(m.flags)
  IN  [type |-> m.type,
       calls |-> Constructor(m)
                   \o [i \in DOMAIN keys |-> MCCall("arg", keys[i], m.args[keys[i]])]
                   \o [i \in DOMAIN flags |-> MCCall("flag", <<>>, flags[i])]]

BuildCalls ==
  {MCCall("arg", <<k>>, v) : k \in {"a", "code"}, v \in {<<"x">>, <<>>, <<"x", "nul", "y">>}}
  \cup {MCCall("arg", <<k>>, <<"y">>) : k \in {"b", "body", "what"}}
  \cup {MCCall("flag", <<>>, <<f>>) : f \in {"f", "ok", "error"}}
  \cup {MCCall("arg", <<"a">>, NullPtr), MCCall("text", <<>>, <<"y", "sp">>)}

\* Every type, with what it requires, and then any calls; and a response with
\* the args of an error.
Sequences ==
  {[type |-> m.type, calls |-> ProgramOf(m).calls \o calls] :
     m \in {Message("request", <<"cmd">>, <<"h">>, <<>>, <<>>, <<>>, {}),
            Message("response", <<"cmd">>, <<"h">>, <<>>, <<>>, <<>>, {}),
            Message("response", <<"cmd">>, <<"h">>, <<>>, <<>>,
                    <<"code">> :> <<"c">> @@ <<"what">> :> <<"x">>, {}),
            Message("error", <<"cmd">>, <<"h">>, <<"c">>, <<"x">>, <<>>, {}),
            Message("witness", <<>>, <<>>, <<>>, <<"x">>, <<>>, {}),
            Message("publish", <<"top">>, <<>>, <<>>, <<>>, <<>>, {})},
     calls \in BoundedSeq(BuildCalls, MaxBuild)}

MCPrograms ==
  {p \in Sequences : IsProgram(p)} \cup {ProgramOf(m) : m \in WithArgs \cup WithFields \cup WithStatus \cup WithBlocks}

MCFollower == Message("publish", <<"next">>, <<>>, <<>>, <<>>, <<"a">> :> <<"x">>, {})

=============================================================================
