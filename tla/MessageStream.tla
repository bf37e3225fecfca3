--------------------------- MODULE MessageStream ---------------------------
(***************************************************************************)
(* What a listener promises about the bytes of the hub: the input, however *)
(* it arrives, is cut into messages, each delivered once, in order and     *)
(* whole.  A message is one line, or a block that an unclosed "<<" opens   *)
(* and a line that begins with ">>" closes.                                *)
(*                                                                         *)
(* Bytes are grouped into units: "<<", ">>", a space "sp", a newline "nl", *)
(* a carriage return "cr", and any other text "txt".                       *)
(***************************************************************************)
EXTENDS Naturals, Sequences, FiniteSets, SequencesExt

CONSTANTS
  Units,       \* the units the hub may send
  MaxUnits     \* bound: units in the input

VARIABLES
  input,       \* all units that arrived
  start,       \* how many of them belong to messages already delivered
  output       \* what the handlers were given

vars == <<input, start, output>>

----------------------------------------------------------------------------
(* Lines and messages *)

HasOpen(l) == Contains(l, "<<")

\* Nothing closes the first "<<" of the line.
Opens(l) ==
  /\ HasOpen(l)
  /\ ~ \E i, j \in 1 .. Len(l) : i < j /\ l[i] = "<<" /\ l[j] = ">>"

\* ">>" is the first token of the line.
Closes(l) == l = <<">>">> \/ IsPrefix(<<">>", "sp">>, l)

\* A carriage return before the newline is not part of the line.
Chomp(l) == IF l # <<>> /\ Last(l) = "cr" THEN Front(l) ELSE l

IsNewline(u) == u = "nl"

\* The line of raw that the newline at position e ends.
LineTo(raw, e) ==
  LET before == SelectLastInSubSeq(raw, 1, e - 1, IsNewline)
  IN  Chomp(SubSeq(raw, before + 1, e - 1))

\* A line, not the first, that ends the block and opens no other.
EndsBlock(l) == Closes(l) /\ ~HasOpen(l)

IsMessage(raw) ==
  /\ raw # <<>> /\ Last(raw) = "nl"
  /\ LET first == SelectInSeq(raw, IsNewline)
     IN  IF Opens(LineTo(raw, first))
           THEN /\ first < Len(raw)
                /\ \A e \in first + 1 .. Len(raw) :
                     raw[e] = "nl" => (EndsBlock(LineTo(raw, e)) <=> e = Len(raw))
           ELSE first = Len(raw)

\* What the parser is given: the lines, joined by newlines, except that
\* nothing separates a line that closes one block and opens another from the
\* line after it.
Text(raw) ==
  LET first == SelectInSeq(raw, IsNewline)
      Joined(e) == IF e = Len(raw) \/ (e > first /\ Closes(LineTo(raw, e)))
                     THEN LineTo(raw, e) ELSE Append(LineTo(raw, e), "nl")
  IN  FlattenSeq([e \in 1 .. Len(raw) |-> IF raw[e] = "nl" THEN Joined(e) ELSE <<>>])

\* A blank line reaches nobody.  A message reaches its handlers with its raw
\* bytes, and one the parser rejects reaches the parse error handlers.
Delivered(raw, text) ==
  IF text = <<>> THEN {<<>>}
  ELSE {<<[kind |-> "message", raw |-> raw, text |-> text]>>,
        <<[kind |-> "error", raw |-> <<>>, text |-> text]>>}

----------------------------------------------------------------------------

Init == input = <<>> /\ start = 0 /\ output = <<>>

Arrive ==
  /\ input' \in Seq(Units) /\ Len(input') <= MaxUnits
  /\ IsPrefix(input, input')
  /\ UNCHANGED <<start, output>>

Frame ==
  /\ \E e \in start + 1 .. Len(input) :
       LET raw == SubSeq(input, start + 1, e)
       IN  /\ IsMessage(raw)
           /\ start' = e
           /\ \E d \in Delivered(raw, Text(raw)) : output' = output \o d
  /\ UNCHANGED input

Next == Arrive \/ Frame

Spec == Init /\ [][Next]_vars

============================================================================
