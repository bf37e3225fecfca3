--------------------------- MODULE ListenFraming ---------------------------
(***************************************************************************)
(* How spore::Client::listen (spore_c/source/client.cpp) cuts what read()  *)
(* returns into messages.  The local variables of listen() are the state;  *)
(* a step is one read() or one turn of the loop over the lines of buf.     *)
(***************************************************************************)
EXTENDS Naturals, Sequences, FiniteSets, SequencesExt

CONSTANTS
  Units,       \* the units the hub may send, see MessageStream
  MaxUnits,    \* bound: units in the input
  MaxChunk     \* bound: units one read() returns

ASSUME FramingAssumption == MaxUnits \in Nat /\ MaxChunk \in Nat \ {0}

VARIABLES
  buf,         \* bytes read and not yet looked at
  line,        \* the message so far, as the parser will be given it
  rawLine,     \* the message so far, as it was read
  multiline,   \* inside a block
  listening,   \* the loop runs
  input,       \* history: all that read() returned
  output       \* history: what the handlers were given

local == <<buf, line, rawLine, multiline>>
vars  == <<local, listening, input, output>>

Init ==
  /\ buf = <<>> /\ line = <<>> /\ rawLine = <<>>
  /\ multiline = FALSE
  /\ listening = TRUE
  /\ input = <<>> /\ output = <<>>

\* The types; and outside a block nothing is left of the last message.
TypeOK ==
  /\ multiline <=> rawLine # <<>>
  /\ multiline => line # <<>>
  /\ buf \in Seq(Units) /\ line \in Seq(Units) /\ rawLine \in Seq(Units)
  /\ multiline \in BOOLEAN
  /\ listening \in BOOLEAN
  /\ input \in Seq(Units) /\ Len(input) <= MaxUnits
  /\ output \in Seq([kind : {"message", "error"}, raw : Seq(Units), text : Seq(Units)])

----------------------------------------------------------------------------
(* One read() *)

Blocked == ~Contains(buf, "nl")

Read ==
  /\ listening /\ Blocked
  /\ \E n \in 1 .. MaxChunk : \E chunk \in TupleOf(Units, n) :
       /\ Len(input) + n <= MaxUnits
       /\ input' = input \o chunk
       /\ buf' = buf \o chunk
  /\ UNCHANGED <<line, rawLine, multiline, listening, output>>

\* read() returned zero or less: what is left in buf is dropped.
Eof ==
  /\ listening /\ Blocked
  /\ listening' = FALSE
  /\ UNCHANGED <<local, input, output>>

----------------------------------------------------------------------------
(* One line *)

LineEnd == SelectInSeq(buf, LAMBDA u : u = "nl")
Taken   == SubSeq(buf, 1, LineEnd)

currentLine ==
  IF LineEnd > 1 /\ buf[LineEnd - 1] = "cr" THEN SubSeq(buf, 1, LineEnd - 2)
                                            ELSE SubSeq(buf, 1, LineEnd - 1)

openPos == SelectInSeq(currentLine, LAMBDA u : u = "<<")

\* Mutant of selfClosed: a ">>" anywhere on the line will do.
closedAnywhere == Contains(currentLine, ">>")

selfClosed ==
  openPos # 0 /\ Contains(SubSeq(currentLine, openPos + 1, Len(currentLine)), ">>")

\* Mutant of isClose: nothing may follow ">>" on its line.
closeIsAlone == currentLine = <<">>">>

isClose == currentLine = <<">>">> \/ IsPrefix(<<">>", "sp">>, currentLine)

TakeLine ==
  /\ listening /\ ~Blocked
  /\ buf' = SubSeq(buf, LineEnd + 1, Len(buf))
  /\ UNCHANGED <<listening, input>>

\* The line is part of a block: the loop continues.
Continue(text) ==
  /\ TakeLine
  /\ rawLine' = rawLine \o Taken
  /\ multiline' = TRUE
  /\ line' = text
  /\ UNCHANGED output

\* Mutant of Complete: rawLine is kept when the parser rejects the message.
CompleteKeepsRaw(text) ==
  /\ TakeLine
  /\ multiline' = FALSE
  /\ line' = text
  /\ \/ /\ text # <<>>
        /\ output' = Append(output, [kind |-> "message", raw |-> rawLine \o Taken, text |-> text])
        /\ rawLine' = <<>>
     \/ /\ text # <<>>
        /\ output' = Append(output, [kind |-> "error", raw |-> <<>>, text |-> text])
        /\ rawLine' = rawLine \o Taken
     \/ text = <<>> /\ rawLine' = <<>> /\ UNCHANGED output

\* The message is complete.  An empty one is skipped; the parser accepts the
\* others, and the handlers of its type run, or it rejects them.
Complete(text) ==
  /\ TakeLine
  /\ rawLine' = <<>>
  /\ multiline' = FALSE
  /\ line' = text
  /\ \/ /\ text # <<>>
        /\ output' = Append(output, [kind |-> "message", raw |-> rawLine \o Taken, text |-> text])
     \/ /\ text # <<>>
        /\ output' = Append(output, [kind |-> "error", raw |-> <<>>, text |-> text])
     \/ text = <<>> /\ UNCHANGED output

OpenBlock ==
  /\ ~multiline /\ openPos # 0 /\ ~selfClosed
  /\ Continue(Append(currentLine, "nl"))

SingleLine ==
  /\ ~multiline /\ (openPos = 0 \/ selfClosed)
  /\ Complete(currentLine)

BlockLine ==
  /\ multiline /\ ~isClose
  /\ Continue(line \o Append(currentLine, "nl"))

\* A "<<" on the closing line, whatever follows it, keeps the block open.
ReopenBlock ==
  /\ multiline /\ isClose /\ openPos # 0
  /\ Continue(line \o currentLine)

CloseBlock ==
  /\ multiline /\ isClose /\ openPos = 0
  /\ Complete(line \o currentLine)

Turn == OpenBlock \/ SingleLine \/ BlockLine \/ ReopenBlock \/ CloseBlock

----------------------------------------------------------------------------

Next == Read \/ Eof \/ Turn

Spec == Init /\ [][Next]_vars

----------------------------------------------------------------------------
(* Properties *)

\* listen() delivers exactly the messages of the stream, each once, in order,
\* with its own raw bytes, wherever the boundaries of the reads fall.
Stream == INSTANCE MessageStream
            WITH start <- Len(input) - Len(buf) - Len(rawLine)
CutsTheStream == Stream!Spec

\* The loop never goes back to read() with a whole message in hand: a message
\* does not wait for the bytes that follow it.
NoMessageWaits ==
  listening /\ Blocked =>
    LET rest == rawLine \o buf
    IN  \A e \in 1 .. Len(rest) : ~Stream!IsMessage(SubSeq(rest, 1, e))

\* client.cpp:443-444 says that a line only opens a block "if this line's
\* block isn't already closed by a >> later on the same line".  After a line
\* whose last block is closed on it, the listener is outside blocks.
ClosedLineEndsBlock ==
  [][ Turn /\ (~multiline \/ isClose) /\ selfClosed
        /\ Last(SelectSeq(currentLine, LAMBDA u : u \in {"<<", ">>"})) = ">>"
      => ~multiline' ]_vars

============================================================================
