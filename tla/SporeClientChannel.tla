-------------------------- MODULE SporeClientChannel --------------------------
(***************************************************************************)
(* The connection of SporeClient, with its two writes, its mutex, its      *)
(* descriptors and its error slot, as an implementation of SendChannel.    *)
(***************************************************************************)
EXTENDS SporeClient

\* The hub cuts what it reads at newlines, wherever they come from: the node
\* id, the text of a message, or writeRaw.
EndsLine(g) == g.kind \in {"id", "inner", "ended", "nl"}

\* The texts of which something is in the line that ends in fragment e of w.
\* Of an "inner" text one piece ends its line and one begins the next.
TextsIn(w, e) ==
  {j \in 1 .. e : /\ IsText(w[j])
                  /\ j < e => w[j].kind # "ended"
                  /\ \A m \in j + 1 .. e - 1 : ~EndsLine(w[m])}

LineCalls(w, e) == {w[j].call : j \in TextsIn(w, e)}

\* The node id, which is a line of its own, is not a message.
HubLines(w) ==
  {[end |-> e, calls |-> LineCalls(w, e), done |-> w[e].kind # "inner"] :
     e \in {e \in 1 .. Len(w) : EndsLine(w[e]) /\ ~IsId(w[e])}}

LinesRead == [c \in Conns |-> HubLines(wire[c])]

\* The send each thread is in.
PendingSends == [t \in Threads |-> IF pc[t] \in SendPcs THEN call[t] ELSE 0]

Channel ==
  INSTANCE SendChannel WITH
    Calls   <- 1 .. MaxCalls,
    NoCall  <- 0,
    Early   <- {"NotConnected", "NullArgument"},
    Unknown <- "none",
    pending <- PendingSends,
    lines   <- LinesRead,
    own     <- slotOf,
    verdict <- result

\* The client keeps the promise of SendChannel when its callers keep connect
\* and disconnect apart from all other calls and no write is short: writeRaw
\* puts text and newline on one socket, alone, and tells of a failure of either.
SendsAreAtomic == Channel!Spec

===============================================================================
