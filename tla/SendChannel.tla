----------------------------- MODULE SendChannel -----------------------------
(***************************************************************************)
(* What the six send functions of a client promise their callers.  The     *)
(* lines of a message reach the hub one behind the other on one            *)
(* connection, with nothing of another message in them or between them; a  *)
(* blank line may follow.  All of it happens between the start of the call *)
(* and its return.  A call learns how it went from an answer that it       *)
(* shares with all other calls.  When the last word on it is its own, "no  *)
(* error" means that the whole message was delivered, and an early refusal *)
(* that nothing was; a failure in the middle promises neither.             *)
(***************************************************************************)
EXTENDS Naturals

CONSTANTS
  Threads,
  NoThread,
  Conns,       \* connections of the client
  Calls,       \* numbers that tell calls apart
  NoCall,      \* none of them
  Results,     \* what a call may tell its caller
  NoError,     \* success
  Early,       \* refusals before anything is sent
  Unknown      \* nothing told yet

VARIABLES
  pending,     \* the send each thread is in, or NoCall
  lines,       \* the lines of each connection: where each one ends, the calls
               \* whose text it holds, and whether the message ends with it
  own,         \* the thread that had the last word on the answer
  verdict      \* what the last call of each thread told its caller

vars == <<pending, lines, own, verdict>>

Init ==
  /\ pending = [t \in Threads |-> NoCall]
  /\ lines = [c \in Conns |-> {}]
  /\ own = NoThread
  /\ verdict = [t \in Threads |-> Unknown]

LinesOf(n, c) == {l \in lines[c] : n \in l.calls}

\* The number of a call is its own.
Begin(t) ==
  /\ pending[t] = NoCall
  /\ \E n \in Calls :
       /\ \A u \in Threads : pending[u] # n
       /\ \A c \in Conns : LinesOf(n, c) = {}
       /\ pending' = [pending EXCEPT ![t] = n]
  /\ own' = t
  /\ verdict' = [verdict EXCEPT ![t] = Unknown]
  /\ UNCHANGED lines

\* The next line of the message, or a blank line behind it.
Fits(t, c, l) ==
  LET n == pending[t] IN
    /\ l.calls \in {{n}, {}}
    /\ l.calls = {} <=> \E m \in LinesOf(n, c) : m.done
    /\ \A d \in Conns \ {c} : LinesOf(n, d) = {}

\* A new line is the last of its connection; if the message has lines already,
\* the line before is one of them.
Deliver(t) ==
  /\ pending[t] # NoCall
  /\ \E c \in Conns : \E l \in lines'[c] :
       /\ Fits(t, c, l)
       /\ \A m \in lines[c] : m.end < l.end
       /\ \A m \in LinesOf(pending[t], c) : \A k \in lines[c] : m.end <= k.end =>
            k \in LinesOf(pending[t], c)
       /\ lines' = [lines EXCEPT ![c] = @ \cup {l}]
  /\ UNCHANGED <<pending, own, verdict>>

\* A thread that calls or fails has the last word.
Touch(t) ==
  /\ own' = t
  /\ UNCHANGED <<pending, lines, verdict>>

Return(t) ==
  /\ pending[t] # NoCall
  /\ pending' = [pending EXCEPT ![t] = NoCall]
  /\ \E r \in Results :
       /\ verdict' = [verdict EXCEPT ![t] = r]
       /\ own = t =>
            /\ r = NoError => \E c \in Conns : \E l \in LinesOf(pending[t], c) : l.done
            /\ r \in Early => \A c \in Conns : LinesOf(pending[t], c) = {}
  /\ UNCHANGED <<lines, own>>

\* A call that sends nothing begins or ends.
OtherCall(t) ==
  /\ pending[t] = NoCall
  /\ \E r \in Results : verdict' = [verdict EXCEPT ![t] = r]
  /\ own' \in {own, t}
  /\ UNCHANGED <<pending, lines>>

Next ==
  \E t \in Threads : Begin(t) \/ Deliver(t) \/ Touch(t) \/ Return(t) \/ OtherCall(t)

Spec == Init /\ [][Next]_vars

==============================================================================
