------------------------------ MODULE Lifetimes ------------------------------
(***************************************************************************)
(* Who owns the C objects behind the Go values, and how long they live.    *)
(*                                                                         *)
(* New of each Go package makes a C object and a Go value that holds its   *)
(* pointer, and leaves it to the garbage collector to destroy the object:  *)
(* a finalizer runs once nothing refers to the Go value any more.  A       *)
(* message that listen() hands to a handler lives on listen()'s stack, and *)
(* the value FromC wraps around it has no finalizer.                       *)
(*                                                                         *)
(* The C functions work on the pointers alone, so a Go value may be        *)
(* collected while C works on its object, unless somebody will look at the *)
(* value afterwards: the method itself (MethodRefs), or the application,   *)
(* which Forgets a value when it has used it for the last time.            *)
(***************************************************************************)
EXTENDS Sequences, FiniteSets, SequencesExt

CONSTANTS
  Threads,     \* threads of the application
  Clients,     \* bound: clients that may be created
  Messages,    \* bound: messages that may be created or received
  Nothing      \* no object

ASSUME LifetimeAssumption ==
  Clients \cap Messages = {} /\ Nothing \notin Clients \cup Messages

Objects == Clients \cup Messages

VARIABLES
  mem,         \* each C object: "none" yet, on the "heap", on listen()'s
               \* "stack", "gone", or "corrupt": freed by the wrong hand
  finalizer,   \* objects whose Go value has a finalizer that has not run
  held,        \* objects whose Go value the application has in a variable
  closures,    \* the Go handlers registered for each client: "plain", or
               \* "capturing" when the closure refers to the client itself
  frames,      \* the calls each thread is in, the innermost last
  finalizing   \* the client that the finalizer goroutine is destroying

vars == <<mem, finalizer, held, closures, frames, finalizing>>

\* Where a call is.  "call" stands for Connect, Disconnect and SendRaw.  "code"
\* and "what" are the looks of Client.error at the slot: whether there is an
\* error and its code, and its text.  "get" is a getter or a setter of C and the
\* copy of what it returned, "build" the first of Serialize's two C calls.
Places == {"call", "send", "listen", "handler", "code", "what", "build", "get"}

\* closure is about the handler that runs, if one does.
Frame == [at : Places, client : Clients \cup {Nothing}, msg : Messages \cup {Nothing},
          closure : {"none", "plain", "capturing"}]

TypeOK ==
  /\ mem \in [Objects -> {"none", "heap", "stack", "gone", "corrupt"}]
  /\ finalizer \subseteq {o \in Objects : mem[o] = "heap"}
  /\ held \subseteq Objects
  /\ closures \in [Clients -> SUBSET {"plain", "capturing"}]
  /\ frames \in [Threads -> Seq(Frame)]
  /\ finalizing \in Clients \cup {Nothing}

Init ==
  /\ mem = [o \in Objects |-> "none"]
  /\ finalizer = {} /\ held = {}
  /\ closures = [c \in Clients |-> {}]
  /\ frames = [t \in Threads |-> <<>>]
  /\ finalizing = Nothing

----------------------------------------------------------------------------
(* Frames *)

Within(t, place) == frames[t] # <<>> /\ Last(frames[t]).at = place

Top(t) == Last(frames[t])

Push(t, f) == frames' = [frames EXCEPT ![t] = Append(@, f)]
Goto(t, place) == frames' = [frames EXCEPT ![t] = [@ EXCEPT ![Len(@)].at = place]]
Pop(t) == frames' = [frames EXCEPT ![t] = Front(@)]

AllFrames == UNION {ToSet(frames[t]) : t \in Threads}

\* Application code runs on a thread that is in no call, or in a handler.
InApplication(t) == frames[t] = <<>> \/ Within(t, "handler")

\* What that code can name: its variables, and what the handler was given.
Knows(t) ==
  held \cup IF ~Within(t, "handler") THEN {}
            ELSE {Top(t).msg} \cup IF Top(t).closure = "capturing" THEN {Top(t).client} ELSE {}

Begin(t, place, c, m) ==
  /\ InApplication(t)
  /\ {c, m} \ {Nothing} \subseteq Knows(t)
  /\ Push(t, [at |-> place, client |-> c, msg |-> m, closure |-> "none"])
  /\ UNCHANGED <<mem, finalizer, held, closures, finalizing>>

\* Mutant of MethodRefs: the methods do not look at the error slot at the end.
MethodRefsErrorless(f) == IF f.at = "build" THEN {f.msg} ELSE {}

\* The Go values a method of this package will load a pointer from again: the
\* client until error() has fetched what it needs, the message between the two
\* C calls of Serialize.
MethodRefs(f) ==
  CASE f.at \in {"call", "send", "listen", "code"} -> {f.client}
    [] f.at = "build"                              -> {f.msg}
    [] OTHER                                       -> {}

\* What a call in progress keeps reachable.  A closure that runs refers to what
\* it captured.
RefsOf(f) == MethodRefs(f) \cup IF f.closure = "capturing" THEN {f.client} ELSE {}

\* The collector's view.  The maps of handlers are global variables.
Reachable ==
  held \cup {c \in Clients : "capturing" \in closures[c]}
       \cup UNION {RefsOf(f) : f \in AllFrames}

----------------------------------------------------------------------------
(* Making and abandoning values *)

\* Mutant of Wrap: New forgets the finalizer.
WrapUnowned(o) == finalizer

\* New: the Go value owns the object.
Wrap(o) == finalizer \cup {o}

\* Mutant of FromC: the wrapper of a received message gets a finalizer too.
FromCOwning(m) == finalizer \cup {m}

FromC(m) == finalizer

New(t, o) ==
  /\ InApplication(t)
  /\ mem[o] = "none"
  /\ mem' = [mem EXCEPT ![o] = "heap"]
  /\ finalizer' = Wrap(o)
  /\ held' = held \cup {o}
  /\ UNCHANGED <<closures, frames, finalizing>>

\* A variable is assigned, goes out of scope, or was used for the last time.
Forget(o) ==
  /\ o \in held
  /\ held' = held \ {o}
  /\ UNCHANGED <<mem, finalizer, closures, frames, finalizing>>

\* A handler gives its message to another goroutine.
Share(t) ==
  /\ Within(t, "handler")
  /\ held' = held \cup {Top(t).msg}
  /\ UNCHANGED <<mem, finalizer, closures, frames, finalizing>>

----------------------------------------------------------------------------
(* Calls on a client *)

CallClient(t) == \E c \in Clients : Begin(t, "call", c, Nothing)

CallSend(t) == \E c \in Clients, m \in Messages : Begin(t, "send", c, m)

\* A handler does not listen.
CallListen(t) ==
  frames[t] = <<>> /\ \E c \in Clients : Begin(t, "listen", c, Nothing)

\* Connect and Disconnect may have nothing to do.
ClientRuns(t) ==
  /\ Within(t, "call")
  /\ Pop(t) \/ Goto(t, "code")
  /\ UNCHANGED <<mem, finalizer, held, closures, finalizing>>

\* The C function serializes the message, takes its text and writes it.
SendRuns(t) ==
  /\ Within(t, "send")
  /\ Goto(t, "code")
  /\ UNCHANGED <<mem, finalizer, held, closures, finalizing>>

ErrorReturns(t) ==
  /\ \/ Within(t, "code") /\ (Pop(t) \/ Goto(t, "what"))
     \/ Within(t, "what") /\ Pop(t)
  /\ UNCHANGED <<mem, finalizer, held, closures, finalizing>>

\* A promise of the callers: whoever registers or removes a handler goes on
\* using the client, for it has to connect it and to listen, so nothing can be
\* collected under this call.
On(t) ==
  /\ InApplication(t)
  /\ \E c \in Clients \cap Knows(t), how \in {"plain", "capturing"} :
       closures' = [closures EXCEPT ![c] = @ \cup {how}]
  /\ UNCHANGED <<mem, finalizer, held, frames, finalizing>>

Off(t) ==
  /\ InApplication(t)
  /\ \E c \in Clients \cap Knows(t) : \E how \in closures[c] :
       closures' = [closures EXCEPT ![c] = @ \ {how}]
  /\ UNCHANGED <<mem, finalizer, held, frames, finalizing>>

----------------------------------------------------------------------------
(* listen *)

\* A message arrives: an object on the stack, and a handler that gets a Go
\* value for it.
ListenDelivers(t) ==
  /\ Within(t, "listen")
  /\ \E m \in Messages, how \in closures[Top(t).client] :
       /\ mem[m] = "none"
       /\ mem' = [mem EXCEPT ![m] = "stack"]
       /\ finalizer' = FromC(m)
       /\ Push(t, [at |-> "handler", client |-> Top(t).client, msg |-> m,
                   closure |-> how])
  /\ UNCHANGED <<held, closures, finalizing>>

Unwound(o) == IF mem[o] = "stack" THEN "gone" ELSE "corrupt"

\* A handler that returns has seen to it that nobody uses its message any
\* longer; the object ends with the block of listen() it is declared in.
HandlerReturns(t) ==
  /\ Within(t, "handler")
  /\ LET m == Top(t).msg
     IN  /\ m \notin held
         /\ \A f \in AllFrames : f.msg = m => f = Top(t)
         /\ mem' = [mem EXCEPT ![m] = Unwound(m)]
  /\ Pop(t)
  /\ UNCHANGED <<finalizer, held, closures, finalizing>>

ListenReturns(t) ==
  /\ Within(t, "listen")
  /\ Goto(t, "code")
  /\ UNCHANGED <<mem, finalizer, held, closures, finalizing>>

----------------------------------------------------------------------------
(* Calls on a message *)

\* WithArg and its like, the getters, and Serialize.
CallMessage(t) ==
  \E m \in Messages, place \in {"get", "build"} : Begin(t, place, Nothing, m)

MessageRuns(t) ==
  /\ \/ Within(t, "build") /\ Goto(t, "get")
     \/ Within(t, "get") /\ Pop(t)
  /\ UNCHANGED <<mem, finalizer, held, closures, finalizing>>

----------------------------------------------------------------------------
(* The collector *)

\* delete of an object that New made.
Deleted(o) == IF mem[o] = "heap" THEN "gone" ELSE "corrupt"

\* A finalizer runs once, and the goroutine that runs them takes one at a time.
Collectable(o) == o \in finalizer \ Reachable /\ finalizing = Nothing

FinalizeMessage(m) ==
  /\ Collectable(m)
  /\ finalizer' = finalizer \ {m}
  /\ mem' = [mem EXCEPT ![m] = Deleted(m)]
  /\ UNCHANGED <<held, closures, frames, finalizing>>

\* Mutant of FinalizeClient: the C object goes first.
FinalizeClientFirst(c) ==
  /\ Collectable(c)
  /\ finalizer' = finalizer \ {c}
  /\ finalizing' = c
  /\ mem' = [mem EXCEPT ![c] = Deleted(c)]
  /\ UNCHANGED <<closures, held, frames>>

\* Client.destroy: after the disconnect, clearClientHandlers ...
FinalizeClient(c) ==
  /\ Collectable(c)
  /\ finalizer' = finalizer \ {c}
  /\ finalizing' = c
  /\ closures' = [closures EXCEPT ![c] = {}]
  /\ UNCHANGED <<mem, held, frames>>

\* ... and spore_client_destroy.
DestroyClient ==
  /\ finalizing # Nothing
  /\ mem' = [mem EXCEPT ![finalizing] = Deleted(finalizing)]
  /\ finalizing' = Nothing
  /\ UNCHANGED <<finalizer, held, closures, frames>>

----------------------------------------------------------------------------
(* The specification *)

Collector ==
  \/ \E m \in Messages : FinalizeMessage(m)
  \/ \E c \in Clients : FinalizeClient(c)
  \/ DestroyClient

Running(t) == ClientRuns(t) \/ SendRuns(t) \/ ErrorReturns(t) \/ MessageRuns(t)

Next ==
  \/ \E t \in Threads :
       \/ \E o \in Objects : New(t, o)
       \/ Share(t)
       \/ CallClient(t) \/ CallSend(t) \/ CallListen(t) \/ CallMessage(t)
       \/ On(t) \/ Off(t)
       \/ Running(t)
       \/ ListenDelivers(t) \/ HandlerReturns(t) \/ ListenReturns(t)
  \/ \E o \in Objects : Forget(o)
  \/ Collector

Spec == Init /\ [][Next]_vars

\* Calls that wait for nothing end; listen() and handlers owe nothing.  The
\* collector runs now and then, as it does in a program that keeps allocating.
Fairness ==
  /\ \A t \in Threads : WF_vars(Running(t))
  /\ WF_vars(Collector)

FairSpec == Spec /\ Fairness

----------------------------------------------------------------------------
(* Properties *)

\* A client is there as long as C works for it, though its program may have
\* used it for the last time in this very call: while it listens, dispatches
\* and sends, and until error() has fetched the code.  (Only the last look, at
\* errorWhat, is made on a pointer nobody protects.)
ClientOutlivesItsCalls ==
  \A f \in AllFrames :
    f.at \in {"call", "send", "listen", "handler", "code"} =>
      mem[f.client] = "heap"

\* A handler, and every call made with its message while it runs, on this
\* thread or another, finds the message there, whenever the collector runs.
ReceivedOutlivesHandler ==
  \A f, g \in AllFrames :
    f.at = "handler" /\ g.msg = f.msg => mem[g.msg] = "stack"

\* "FromC ... does not own the memory": what listen() made is freed by
\* listen(), what New made by its finalizer, each once.
FreedOnceByItsOwner == \A o \in Objects : mem[o] # "corrupt"

\* No handler stays registered under the address of a client that is gone,
\* where a new client would find it.
NoHandlersOfTheDead == \A c \in Clients : closures[c] # {} => mem[c] = "heap"

\* What a program made and no longer has a variable for is freed in the end.
\* The exceptions: a client that listens, and one that a handler of its own
\* refers to and that nobody calls Off for (the usual handler, which answers).
AbandonedIsFreed ==
  \A o \in Objects :
    mem[o] = "heap" /\ o \notin held ~>
      \/ mem[o] = "gone" \/ o \in held
      \/ o \in Clients /\ "capturing" \in closures[o]
      \/ \E f \in AllFrames : f.at = "listen" /\ f.client = o

=============================================================================
