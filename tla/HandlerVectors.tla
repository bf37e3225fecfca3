---------------------------- MODULE HandlerVectors ----------------------------
(***************************************************************************)
(* The handlers a C program registers: one std::vector of pointers for     *)
(* each kind, walked by listen() with a range-for, which fixes where it    *)
(* will end before it calls the first handler and does not look again.     *)
(* Meanwhile the program registers and removes handlers as it likes: from  *)
(* a handler, or on another thread between two calls of the loop.  (Calls  *)
(* that overlap in time are a race on the vector and are left out.)        *)
(*                                                                         *)
(* push_back moves a full vector to a larger buffer and frees the old one; *)
(* erase moves the elements behind the erased one down, and leaves what    *)
(* was in the last slot there.  new may hand out an address again that     *)
(* delete got back.                                                        *)
(***************************************************************************)
EXTENDS Integers, Sequences, FiniteSets, SequencesExt

CONSTANTS
  Kinds,       \* of messages, with a vector each
  Handlers,    \* addresses a spore_handler_t may get; bounds the vectors
  NoHandler

ASSUME VectorsAssumption ==
  NoHandler \notin Handlers /\ "freed" \notin Kinds /\ "none" \notin Kinds

VARIABLES
  alive,       \* the client has not been destroyed
  type,        \* the field of each spore_handler_t, or "freed"
  slots,       \* the buffer of each vector, up to its capacity
  size,        \* how many of its slots each vector uses
  loop,        \* the range-for: the kind it dispatches, or "none"; the slot it
               \* is at and the last one it will visit; whether its buffer was
               \* freed; and the handler that runs
  \* history of the message in the loop
  started,     \* the vector when it arrived
  called,      \* the handlers called with it so far
  stayed,      \* those of started that were not removed since
  passed,      \* how many (up to two) the loop had passed when they were removed
  ahead        \* one was removed that the loop had not come to yet

history == <<started, called, stayed, passed, ahead>>
vars    == <<alive, type, slots, size, loop, history>>

NoLoop == [kind |-> "none", at |-> 0, end |-> 0, stale |-> FALSE, running |-> NoHandler]

TypeOK ==
  /\ alive \in BOOLEAN
  /\ type \in [Handlers -> Kinds \cup {"freed"}]
  /\ slots \in [Kinds -> Seq(Handlers \cup {NoHandler})]
  /\ size \in [Kinds -> Nat]
  /\ \A k \in Kinds : size[k] <= Len(slots[k])
  /\ loop \in [kind : Kinds \cup {"none"}, at : Nat, end : Nat, stale : BOOLEAN,
               running : Handlers \cup {NoHandler}]
  /\ started \in Seq(Handlers) /\ called \in Seq(Handlers)
  /\ stayed \subseteq Handlers /\ passed \in 0 .. 2 /\ ahead \in BOOLEAN

Init ==
  /\ alive = TRUE
  /\ type = [h \in Handlers |-> "freed"]
  /\ slots = [k \in Kinds |-> <<>>]
  /\ size = [k \in Kinds |-> 0]
  /\ loop = NoLoop
  /\ started = <<>> /\ called = <<>> /\ stayed = {} /\ passed = 0 /\ ahead = FALSE

----------------------------------------------------------------------------
(* The vectors *)

Registered(k) == SubSeq(slots[k], 1, size[k])

Full(k) == size[k] = Len(slots[k])

\* The capacity doubles; it is one at first.
Grown(k) ==
  slots[k] \o [i \in 1 .. (IF size[k] = 0 THEN 1 ELSE size[k]) |-> NoHandler]

\* Mutant of PushBack: the newest handler comes first.
PushFront(k, h) == <<h>> \o Front(IF Full(k) THEN Grown(k) ELSE slots[k])

PushBack(k, h) == [(IF Full(k) THEN Grown(k) ELSE slots[k]) EXCEPT ![size[k] + 1] = h]

Erased(k, i) ==
  [j \in DOMAIN slots[k] |-> IF j \in i .. size[k] - 1 THEN slots[k][j + 1] ELSE slots[k][j]]

----------------------------------------------------------------------------
(* register and unregister *)

Register(k) ==
  /\ alive
  /\ \E h \in Handlers :
       /\ type[h] = "freed"
       /\ type' = [type EXCEPT ![h] = k]
       /\ slots' = [slots EXCEPT ![k] = PushBack(k, h)]
  /\ size' = [size EXCEPT ![k] = @ + 1]
  /\ loop' = [loop EXCEPT !.stale = @ \/ (loop.kind = k /\ Full(k))]
  /\ UNCHANGED <<alive, history>>

\* How the removal of h from position i of the vector of k looks to the loop; it
\* matters as long as the loop has handlers to call.
Noted(k, i, h) ==
  LET counts == loop.kind = k /\ Len(called) < loop.end
  IN  /\ stayed' = stayed \ {h}
      /\ passed' = IF counts /\ i <= Len(called) /\ passed < 2 THEN passed + 1 ELSE passed
      /\ ahead' = (ahead \/ (counts /\ i > Len(called)))

\* Mutant of Unregister: the handler is deleted, and stays in its vector.
UnregisterDangling(h) ==
  /\ alive /\ type[h] # "freed"
  /\ type' = [type EXCEPT ![h] = "freed"]
  /\ UNCHANGED <<alive, slots, size, loop, history>>

\* Mutant of Unregister: erase() of what find() returns, in every vector,
\* without asking whether it was found.
UnregisterEverywhere(h) ==
  /\ alive /\ type[h] # "freed"
  /\ slots' = [k \in Kinds |-> Erased(k, SelectInSeq(Registered(k), LAMBDA g : g = h))]
  /\ size' = [k \in Kinds |-> size[k] - 1]
  /\ type' = [type EXCEPT ![h] = "freed"]
  /\ UNCHANGED <<alive, loop, history>>

\* A promise of the program: it removes a handler once.
Unregister(h) ==
  /\ alive /\ type[h] # "freed"
  /\ LET k == type[h]
         i == SelectInSeq(Registered(k), LAMBDA g : g = h)
     IN  IF i = 0 THEN UNCHANGED <<type, slots, size, stayed, passed, ahead>>
         ELSE /\ slots' = [slots EXCEPT ![k] = Erased(k, i)]
              /\ size' = [size EXCEPT ![k] = @ - 1]
              /\ type' = [type EXCEPT ![h] = "freed"]
              /\ Noted(k, i, h)
  /\ UNCHANGED <<alive, loop, started, called>>

\* The destructor deletes what is in the vectors.
Destroy ==
  /\ alive /\ loop = NoLoop
  /\ alive' = FALSE
  /\ type' = [h \in Handlers |->
                IF \E k \in Kinds : Contains(Registered(k), h) THEN "freed" ELSE type[h]]
  /\ UNCHANGED <<slots, size, loop, history>>

----------------------------------------------------------------------------
(* The range-for of listen() *)

\* A message of this kind has arrived.
Dispatch(k) ==
  /\ alive /\ loop = NoLoop
  /\ loop' = [NoLoop EXCEPT !.kind = k, !.at = 1, !.end = size[k]]
  /\ started' = Registered(k) /\ stayed' = ToSet(Registered(k))
  /\ called' = <<>> /\ passed' = 0 /\ ahead' = FALSE
  /\ UNCHANGED <<alive, type, slots, size>>

\* The loop is about to read a position.
Reads == loop.kind # "none" /\ loop.running = NoHandler /\ loop.at <= loop.end

\* What it finds there is a handler of the kind.
FindsHandler ==
  /\ loop.at <= Len(slots[loop.kind])
  /\ \E h \in Handlers : slots[loop.kind][loop.at] = h /\ type[h] = loop.kind

\* Reading a buffer that was freed, or calling through a handler that was, is
\* undefined: here the program ends.
CallHandler ==
  /\ Reads /\ ~loop.stale /\ FindsHandler
  /\ LET h == slots[loop.kind][loop.at]
     IN  loop' = [loop EXCEPT !.running = h] /\ called' = Append(called, h)
  /\ UNCHANGED <<alive, type, slots, size, started, stayed, passed, ahead>>

\* Mutant of HandlerReturns: the end of the vector is looked up every time.
HandlerReturnsLooksAgain ==
  /\ loop.running # NoHandler
  /\ loop' = [loop EXCEPT !.running = NoHandler, !.at = @ + 1, !.end = size[loop.kind]]
  /\ UNCHANGED <<alive, type, slots, size, history>>

HandlerReturns ==
  /\ loop.running # NoHandler
  /\ loop' = [loop EXCEPT !.running = NoHandler, !.at = @ + 1]
  /\ UNCHANGED <<alive, type, slots, size, history>>

AtTheEnd == loop.kind # "none" /\ loop.running = NoHandler /\ loop.at > loop.end

DispatchEnds ==
  /\ AtTheEnd
  /\ loop' = NoLoop
  /\ started' = <<>> /\ called' = <<>> /\ stayed' = {} /\ passed' = 0 /\ ahead' = FALSE
  /\ UNCHANGED <<alive, type, slots, size>>

Next ==
  \/ \E k \in Kinds : Register(k) \/ Dispatch(k)
  \/ \E h \in Handlers : Unregister(h)
  \/ CallHandler \/ HandlerReturns \/ DispatchEnds
  \/ Destroy

Spec == Init /\ [][Next]_vars

----------------------------------------------------------------------------
(* Properties, for programs that change the vectors at any time.           *)

\* A program may remove one handler that the loop has passed, the one that runs
\* for instance, while others are still to come: although elements move under the
\* loop and it never asks again where the vector ends, it finds live handlers.
\* (Not so when a second one is removed, when one that is still to come is, or
\* when the vector moves to a larger buffer.)
LoopReadsLiveHandlers ==
  Reads /\ ~loop.stale /\ ~ahead /\ passed <= 1 => FindsHandler

\* Only the removal of a handler that the loop has passed makes it skip another:
\* whatever else is registered and removed, a message that reaches the end of the
\* loop has reached every handler that was there all the while.
NobodySkipped == AtTheEnd /\ passed = 0 => stayed \subseteq ToSet(called)

\* A message reaches the handlers that were registered when it arrived, each
\* once and in their order, and one that is registered meanwhile waits for the
\* next, unless a handler is removed while others are still to come.
EachHandlerInOrder ==
  passed = 0 /\ ~ahead =>
    /\ IsPrefix(called, started)
    /\ AtTheEnd => called = started

\* The vectors hold the handlers that exist, each once and in the vector of its
\* type, and nothing that was deleted; with the client all of them are freed.
RegistryIsExact ==
  IF alive
    THEN \A k \in Kinds :
           IsInjective(Registered(k)) /\ ToSet(Registered(k)) = {h \in Handlers : type[h] = k}
    ELSE \A h \in Handlers : type[h] = "freed"

===============================================================================
