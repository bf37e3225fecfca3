# A TLA+ model of the Spore client libraries

This directory specifies the client libraries of Spore OS: the C++ core behind
a C interface (`spore_c`), the wire parser (`parser`) and the Go binding
(`spore_go`).  A program that uses them is a *node*; it talks to the *hub* over
one Unix socket.  The modules are checked with TLC on small instances, and
all their safety properties but one, with the two refinements, are proved with
TLAPS for every value of the constants (section 5).

## 1. The system

| Part | Source | State it keeps | Operations |
|---|---|---|---|
| Connection | `spore_c/source/client.cpp`, `client.h`, `spore_go/client.go` | `connected`, `socketFd`, the error slot (`errorCode`, `errorWhat`), `writeMu` | connect (with a handshake), disconnect, destroy |
| Wire sends | `client.cpp` 286-399, 626-636 | none of its own; the socket | `send`, `sendResponse`, `sendResponseError`, `sendWitness`, `sendPublish`, `sendRaw`, all through `writeRaw` |
| Listen loop | `client.cpp` 401-624 | locals: `buf`, `line`, `rawLine`, `multiline` | read, cut into messages, parse, dispatch |
| C registry | `client.cpp` 201-284, `defs.h` | five vectors of handlers | register, unregister, the range-for of the dispatch |
| Go multiplexer | `spore_go/internal/spore_c/callbacks.go`, `bridges.c` | `handlersMu`, `nextHandlerID`, five maps of handlers, five of bridges | `ClientOn...`, `ClientOffHandler`, the five bridges, `clearClientHandlers` |
| Message types | `spore_c/source/{message,request,response,witness,publish}.cpp` | command, handle, args (a sorted map), flags (a sorted set), raw, serialized | setters, `serialize` |
| Parser | `parser/source/parser.cpp` | type, props, error | `tokenize`, `build`, `validate` |
| C API | `spore_c/source/spore_c.cpp` | none | forwards with null checks; setters and getters of messages; `create_from_raw` |
| Go messages | `spore_go/{request,response,witness,publish}` | a C object and a finalizer | `New`, `WithArg`, `WithFlag`, getters, `FromC` |
| cgo conversions | `spore_go/internal/spore_c/spore_c.go` | none | strings to C and back, lists of names, `ClientDestroy` |

How they meet:

- The application calls the Go client, which looks at `connected` and calls the
  C functions; these call `spore::Client`.  There is **one** mutex, and it covers
  only the two writes of `writeRaw`.  `connected`, `socketFd` and the error slot
  are plain fields that any thread may be reading.
- `listen()` blocks in `read()` on the thread that calls it and runs the
  handlers on that thread, between two reads.  Handlers call back into the
  library: they send, register and remove handlers, disconnect.
- The Go binding puts one *bridge* per client and kind of message into the C
  vector.  The bridge copies the Go handlers under `handlersMu` and calls them
  without it.
- The hub answers the node id with one line, then sends messages.
- The garbage collector runs the finalizers of Go clients and messages on a
  goroutine of its own, beside the threads of the program, as soon as no Go code will look at the value again;
  the C functions hold only pointers.  Messages that `listen()` makes live on
  its stack.

What is hard here: calls that overlap on an almost lock-free object; a
descriptor number that is closed, forgotten and given to another file;
failures between two writes; an error slot shared by all calls; an input
stream that arrives in arbitrary pieces and whose block syntax spans lines;
handlers that change the registry that is being walked; C addresses that are
reused; finalizers that run while C works on what they free; a text format
without escapes.  `PROJECT.json` lists each with its line.

What makes each part correct:

- connection: connected exactly when the hub accepted the node id; no
  descriptor lost; no descriptor of the application touched; `connect` and
  `listen` return when they must;
- sends: the hub reads whole lines, and a call reports what it did, as far as one
  slot for all calls allows;
- listen: every message of the stream delivered once, in order, complete, as
  soon as it has arrived;
- registry and multiplexer: the two layers agree; a dispatch reaches every
  registered handler once, follows no deleted bridge, and ends; the loop over C
  handlers survives what they change under it, where it does;
- messages and parser: what one node's calls put into a message another reads
  from it, and what cannot be carried harms nothing but its own message;
- objects: freed once, by their owner, under no call, and in the end.

## 2. The modules

| Module | Models | Notes |
|---|---|---|
| `SporeClient` | connection, sends, the blocking side of listen | one action per access to shared state: a field, the mutex or a system call; but the bytes of the hub's answer are read in one |
| `SendChannel` | abstract specification | what the send functions promise their callers |
| `SporeClientChannel` | | the refinement mapping from `SporeClient` to `SendChannel` |
| `MCSporeClient` | | the symmetry of threads for TLC |
| `SporeClientProofs` | | theorems about `SporeClient`: those that need no promise of the callers, those for callers that keep connect and disconnect apart, and that `SporeClient` implements `SendChannel` |
| `MessageStream` | abstract specification | what a listener promises about a byte stream |
| `ListenFraming` | the loop of `listen()` over lines | implements `MessageStream` |
| `ListenFramingProofs` | | that `ListenFraming` implements `MessageStream` |
| `HandlerMux` | Go maps, C vectors, dispatch, destruction | |
| `HandlerMuxProofs` | | theorems about `HandlerMux` |
| `HandlerVectors` | the C vectors with their buffers, and handlers of C programs | |
| `MCHandlerVectors` | | the symmetry of handlers and kinds |
| `HandlerVectorsProofs` | | theorems about `HandlerVectors` |
| `Lifetimes` | C objects, Go values, finalizers, the calls in progress | |
| `LifetimesProofs` | | theorems about `Lifetimes` |
| `SequenceLemmas` | | what `std::find`, `erase`, `push_back`, `substr` and appending in a loop amount to on sequences |
| `MessageApi` | builders and getters, from Go down to the C objects | operators only, over `Codec` |
| `Codec` | `serialize`, `tokenize`, `build`, `validate`, `create_from_raw` | operators only, no state |
| `RoundTrip` | a message from one node to another | composes `MessageApi`, `Codec` and `ListenFraming` |
| `RoundTripProofs` | | what `serialize` writes line by line and what the loop makes of it: raw bytes, and the message that follows |
| `CodecProofs` | | what `tokenize` and `build` make of what `serialize` writes, over `RoundTripProofs`: the status of a response, and the whole message |
| `MCRoundTrip` | | the messages TLC sends |

### SporeClient

The fields of `Client` are variables of the same name; `errorCode` and
`errorWhat` are always written together and are one variable.  The kernel is
`fdTable` (what each descriptor number refers to), `wire` (what was written to
each file, as fragments: a node id, a text, part of either, a newline), `down`
(the hub's lines that wait to be read) and `timed` (which sockets have a receive
timeout).  One file, `Foreign`, belongs to the application and competes for
descriptor numbers.  `pc[t]` is where thread `t` is in a call, `back[t]` where it
returns to: a handler is simply the state `handle` of a thread inside `listen()`,
from which it may make any call except another `listen()`.

A fragment of text is of one of three kinds, for the hub cuts what it reads at
newlines wherever they come from: the text of the five typed sends ends in a
newline of its own (`request.cpp` 16, `response.cpp` 23 and 41, `witness.cpp` 16,
`publish.cpp` 15) and is `ended`; a raw text may be `ended` too, may hold newlines
without ending in one (`inner`), or hold none (`bare`).  A value with a newline makes
a typed text of several lines, all of which are complete when the text is written.
So after a typed send the hub reads one blank line, that of `writeRaw`.

`connect()` is ConnectSocket, ConnectOpen and ConnectStore; then, in `handshake()`,
ConnectTimed, ConnectHello, ConnectReply, ConnectUntime and ConnectRefuse; then
ConnectVerify and, when rejected, ConnectClose and ConnectReset.  The bytes of the
hub's answer are read one at a time and are one step here: when a read fails in the
middle (ConnectCut, or `NoLine`), the connection and what was read of it are
dropped together.  `writeRaw` is SendText and SendNewline, with the mutex held in
between; `disconnect()` is DisconnectCheck, DisconnectReset, DisconnectDown.
Clearing the error slot is part of entering a call.  The six send functions differ
in the object they serialize and are one action.  `Binding` says whether the callers
use the C functions or the Go methods, which look at `connected` first.

What a caller is told is what it reads from the slot, not what its call did:
Return is `ClientHasError`, and ReturnError, when there was one, the look at the code,
as in `Client.error` (`client.go` 114-119).  Between the last word of a call and
these two looks any other thread may begin a call, which clears the slot, or fail.
`result[t]` is what the caller was told; `slotOf`, history, is the thread that wrote
the slot last.

Two constants say what surrounds the code.  `Alone` is the promise of the callers not
to overlap connect and disconnect with other calls: nothing in the library
enforces it, and several properties are true only with it.  Sends and listens of
several threads do overlap under it.  `Interrupts` lets signals cut reads and writes:
`writeRaw` and `handshake()` compare the result of `write` with zero only, so a short
write passes for success.

### SendChannel and SporeClientChannel

`SendChannel` knows nothing of writes, mutexes or descriptors.  A call begins; while
it runs, lines of its message reach the hub, on one connection, one behind the
other, and a blank line may follow; then it returns.  A line is where it ends, the
set of calls whose text is in it, and whether the message is complete with it, so a
line with a piece of another message is visible, and so is one that comes after the
return.  The call learns how it went from an answer shared with all calls: when the
last word on it is its own, "no error" means that the whole message was delivered,
and `NotConnected` or `NullArgument` that nothing was.  `SendFailed` promises
neither: when the text ended in a newline and the second write fails, the hub has the
message and the caller is told that it failed.

The mapping cuts `wire` at the newlines of texts and of `writeRaw`, as the hub does,
and gives each thread inside a send the number of its call; `own` is `slotOf` and
`verdict` is `result`.  For an `ended` or `inner` text the write of the text delivers
a line, and that of the newline the blank line, or the rest; for a `bare` one only
the newline does.  The refinement needs `Alone`, for a descriptor that is replaced
between the two writes would split a message over two connections, and no `Interrupts`.

### MessageStream and ListenFraming

Bytes are grouped into units: `<<`, `>>`, a space, a newline, a carriage
return, and any other text.  (The code looks at a line only through
`find("<<")`, `find(">>")`, the first three characters, and the last one.)
`MessageStream` has the input, the number of units already delivered and the
output; it defines which stretch of the stream is a message, and what its text
is.  `ListenFraming` has the local variables of `listen()` and one action per
path through the loop.  Its refinement mapping takes `start` to the length of
the input minus what is in `buf` and `rawLine`.  Whether the parser accepts a
message is left open: both outcomes are explored, since `rawLine` is cleared
on two different paths.

### HandlerMux

The Go maps are partial functions on (address, kind) pairs; the C vectors are
sequences of bridges.  The five kinds are five copies of the same code and one
set of actions.  A dispatch is a range-for that takes its end once; the model
keeps position and end, and reads the vector as it is at each step, so a vector
that changes under the loop is seen.  `Destroy` is two steps, as in
`ClientDestroy`, and `Create` may reuse the address.  One of `Threads` is the
`Finalizer`, the goroutine of the Go runtime that runs `Client.destroy` and nothing
else; it is beside the threads of the program, so a program with one thread has it
too.  It may run as soon as no thread is in a call that will look at the Go client
again (`LetsGo`): `On` and `Off` read `c.h` once and then run on the C client alone.
`KeepsUsing` is the promise that whoever calls them uses the client afterwards.

### HandlerVectors

In `HandlerMux` the vectors hold at most one bridge each.  A C program may register
any number of handlers, so here each vector is its buffer (`slots`), with what
`erase` leaves behind the end, and its `size`; `push_back` on a full one frees the
buffer, which makes a range-for that walks it `stale`.  A handler is an address that
`new` may hand out again, and its `type` field is what `unregisterHandler` switches
on.  The loop has taken the position of its end before the first call, so a handler
that removes itself leaves the loop looking at a slot behind the end.

The program may register and remove handlers of any kind at any time between two
calls of the loop; nothing in the code or its documents restricts it.  The loop does
not survive everything.  Reading a freed buffer, or calling through a handler that was
deleted, is undefined, and ends the model's program.  What is claimed is stated per
message, on what happened while the loop still had handlers to call: `passed` (how
many handlers were removed that the loop had passed, the running one included, counted up
to two), `ahead` (one that it had not come to was removed), and the loop's `stale`.

- `LoopReadsLiveHandlers`: the loop finds a live handler of its kind at every position
  it reads, if it is not stale, none was removed ahead of it and at most one behind it.
  So one handler may remove itself, and any number may be registered up to the capacity.
- `NobodySkipped`: with none removed behind it (whatever was registered, or removed
  ahead), a loop that ends has called every handler that was there all the while.
- `EachHandlerInOrder`: with no removal at all, it has called those that were there when the
  message arrived, in order, and none else.

None of these conditions can be dropped.  TLC's shortest counterexamples without them:
without `passed <= 1`, in eight states, two handlers are registered, the first removes
itself and then its neighbour before the loop goes on, which then calls a deleted one;
without `ahead`, in four, a handler is removed before its turn and the loop calls it;
without `stale`, in four, a handler registers another and the vector moves.  Without
`passed = 0`, `NobodySkipped` fails in ten states (a handler removes itself, the next
one moves into its place and is skipped), and `EachHandlerInOrder` in nine (the last
one is called twice).  These are the ways in which programs that unregister C handlers
from handlers go wrong.  The Go binding has one handler per kind, and meets
none of them with one thread (`BridgeAlive`).

### Lifetimes

`mem` says of each C object whether it lies on the heap, on the stack of
`listen()`, or is gone; `finalizer` holds the objects whose Go value still has its
finalizer; `held` the ones the application has in a variable that it will use again.
`frames[t]` are the calls a thread is in: a handler is a frame above its `listen`,
and calls made by it are above it.  A value can be collected when it is not
`Reachable`: not held, not captured by a registered handler (the maps in
`callbacks.go` are global), and not loaded again by a method in progress.  That
last set is `MethodRefs`, read off the Go methods: `error()` loads `c.h` again after
every call of C, so the client is safe under it; `Serialize` loads the message
between its two calls of C; nothing else does, and there is no
`runtime.KeepAlive`.

What this leaves open, and no property claims: a message of the program that is
used for the last time in `SendRequest`, `WithArg` or a getter may be deleted while
C reads it, and so may the client at the very last look, at `errorWhat`.  The model
has both behaviours; `ClientOutlivesItsCalls` names the places it is about.

Two promises of the callers: whoever calls `On` or `Off` will use the client
afterwards, and a handler leaves nobody using its message when it returns.  `Share`
lets a handler give the message to other goroutines as long as it waits for them.

### Codec, MessageApi and RoundTrip

`MessageApi` is the layer above: a program is a list of calls of setters, which `Apply`
one after the other make the object that `serialize` gets (`Built`); the getters are operators on the object
the handler gets.  The conversions on the way are part of it: `C.CString` ends at
a zero byte, an empty string becomes a null pointer in `spore_c.cpp` and an empty
string again in Go, so `Arg` calls an arg with an empty value absent.  `Codec` has the functions of the code as operators, in the code's order: a
message record to text, text to tokens, tokens to what the parser knows, and
that to the object a handler gets.  The tokenizer is a recursive
function over the text, one `Token` per unit; its state has the same fields as the
loop's local variables.  Text is a
sequence of units, those that mean something to any of the functions and one for
all other text; `<<` and `>>` are one unit each, which is how every one of the
functions looks for them.  `RoundTrip` starts with the bytes `writeRaw` wrote for
one message, built by any of a set of programs, and a second one behind it,
gives them to the instance `Listener` of `ListenFraming`, and resolves the choice
that `ListenFraming` leaves open:
a complete message is delivered or rejected as `Malformed` says.  The reads are
not cut, since `framing` has shown that it does not matter.

The format has no escapes, so not every value can be sent.  `Writable` and
`WritableText` say which ones `SentIsReceived` is about: they are stated on the
value alone, and without any one of their conjuncts TLC finds a value that does
not survive.  `Reserved` names the flags and args that have a meaning of their
own, which `serialize` does not keep apart (an arg `body` of a witness becomes its
body).  For all the others there are `StatusNeverFlips`, by which a response is
never read as an error, and `NextIsIntact`, by which a value that breaks its own
message cannot harm the next one: the one way to do that is to open a block that
is not closed (`NoStrayBlock`).  `StatusNeverFlips` needs more: that the response has
a handle, since its first token is told by it, and that no value ends its own block
(`BlocksHold`), since what follows would be a message of its own.

`RoundTripAssumption` is what the proofs know of the constants: commands, topics,
handles, codes, keys and flags are `Name`s, words without any unit that the code looks
for, and the orders of the map and the set list each of them once; values, bodies and
whats are any text.  `FollowerAssumption` is about the message behind: it is one line
and by itself is received as it was sent.

## 3. The runs

| Run | Instance | Shows |
|---|---|---|
| `client_free` | C binding, 2 threads, 2 descriptors, 2 connections, 3 calls, no promise by callers | `TypeOK`; `WritersInvariant`, the inductive invariant; `NoInterleaving`: nothing but a node id comes between a message and its newline, even when descriptors are mixed up |
| `client_alone` | Go binding, 2 threads, 4 calls, texts with a newline at the end or inside, `Alone` | `WireFraming`, `ConnectedMeansAccepted`, `NoDescriptorLeak`, `AppFileUntouched`, `StreamsNotCrossed`, `SilentHubKeepsListener`, `SendsReportWhatTheyDid`; `SendsAreAtomic`: `SporeClient` implements `SendChannel` |
| `client_seq` | Go binding, 1 thread, 4 calls, interrupts, fairness | `ConnectReturns`, `ListenEndsOnHangup` |
| `double_connect` | C binding, 1 thread | violated: see the findings |
| `framing` | 5 units, inputs of up to 8, reads of 1 or 2 | `TypeOK`, `NoMessageWaits`, and `CutsTheStream`: `ListenFraming` implements `MessageStream` |
| `reopen` | 4 units, inputs of up to 7 | violated: see the findings |
| `mux` | 1 thread and the finalizer, 2 addresses, 3 clients, 2 kinds, 3 handlers, `KeepsUsing` | `TypeOK`, `BridgeAlive`, `NothingLeftBehind`, `BridgeIffHandlers` |
| `mux_threads` | 2 threads and the finalizer, 1 address, 2 clients, 1 kind, 2 handlers, `KeepsUsing`, fairness | `BridgeIffHandlers`, `EachHandlerOnce`, `DispatchReturns` |
| `handler_vectors` | 2 kinds, 3 handlers, any program | `TypeOK`, `LoopReadsLiveHandlers`, `NobodySkipped`, `EachHandlerInOrder`, `RegistryIsExact` |
| `lifetimes` | 2 threads, 1 client, 2 messages, fairness | `TypeOK`, `ClientOutlivesItsCalls`, `ReceivedOutlivesHandler`, `FreedOnceByItsOwner`, `NoHandlersOfTheDead`, `AbandonedIsFreed` |
| `round_trip` | 5 types; an arg of up to 3 of 13 units, pairs of args of up to 2 of 6, texts of up to 2 of 10, up to 4 of 4 units that could change the status (both quotes, a space, the word), up to 3 of 6 units in responses with lines of their own, any field missing; every constructor followed by up to 2 calls | `SentIsReceived`, `PartialIsRejected`, `RawIsTheMessage`, `CallsAreRead`, `StatusNeverFlips`, `NextIsIntact` |
| `boundary_newline` | as above, shorter | violated: see the findings |

Why the bounds are enough.  Two threads are all the pairs of calls that can
overlap, and a handler that calls back makes a third activity on the same
thread.  Two connections are needed for anything about a reconnect; two
descriptor numbers let the application's file take the one the library gave up.
Three or four calls allow connect, listen, a send from a handler, and a
disconnect or reconnect.  `client_free` is the costliest: every interleaving of
three calls, with texts of one kind, since `NoInterleaving` does not look at it, and
without interrupts, which the theorem covers (writes fail there when the hub has hung
up).  `client_alone` has the two kinds of text that put a newline on the wire before
`writeRaw` does, one message whose last line it completes and one whose it does not;
`client_seq` and `double_connect` send what the typed sends do.  Two threads that
send at once are enough for one to clear the slot before the other looks.
Eight units hold a block of three lines with a block reopened on its closing
line and a message after it; reads of one and two units put a boundary
everywhere.  Text other than the four marks only lengthens lines and is left
out of `framing` to afford the eighth unit.  In `mux` three clients on two
addresses force an address to be reused, and a handler of one client can be given to
the other; in `mux_threads` there is one address, so
the second client gets it while other threads may still be at work.

In `handler_vectors` three handlers of one kind make
the buffer grow twice and leave a handler in front of, behind and at the loop's
position; the second kind shows that the loop minds its own kind only.  In `lifetimes` two messages
are one that the program made and one received, or two received by handlers on two
threads; two threads let one share what the other holds.  One
client is enough because nothing relates two of them but their address, and reused
addresses are the business of `mux`.

In `round_trip` each hypothesis of `StatusNeverFlips` has a message for which the
property is false without it (`Conditions`).  Three units
are a mark with something on both sides of it, or a mark, its end, and something
between; two args are needed for one value to affect the next, and a second
message for it to affect the next message.  Four units of the status kind are a
quote that ends a value, a space, a word and a quote.  Two calls behind a
constructor are an arg set twice, or an arg and a flag that a field also uses.

Deadlock is not checked: a program may make no more calls, and the bounded
counters stop every behaviour.

Fairness.  In `SporeClient` each step of a thread inside a call is weakly fair:
the kernel schedules runnable threads, `::connect` and `write` return, the
handshake's read has a timeout, and handlers return.  Calls, the hub and
signals owe nothing (`ConnectCut` and `ListenCut` are not fair).  In `HandlerMux` steps are weakly fair; the lock is
strongly fair, because `sync.Mutex` hands itself to a waiter that starves; and
a handler that keeps making calls returns in the end (strong fairness of
`HandlerReturns`, for the threads of the program: the finalizer runs no handler).  In `Lifetimes` calls that wait for nothing end, and the
collector runs now and then, which a program that goes on allocating brings about;
`listen()` and handlers owe nothing.

## 4. Findings

- **A connect that is rejected may leave the client connected** (`double_connect`).
  `connect()` does not look at `connected` and stores the new descriptor over the old one
  (`client.cpp` 113).  When the hub rejects the second handshake, `connect()` closes
  the new socket and sets `socketFd` to -1 (116-121), and leaves `connected` as it was:
  the trace ends with `HandshakeFailed` told to the caller, a client that says it is
  connected and has no socket, and the first connection's descriptor in the table
  with nothing that refers to it.  `connect_test.cpp` 35-39 says of a connect that fails
  "HandshakeFailed (daemon rejected us)" and expects the client not to be connected;
  its client was never connected before, and there the flag is still false.  (When the
  second connect fails earlier, with `ConnectFailed`, the first connection is
  intact.)  The Go method returns early and is not affected.
- **A block that is closed on a `>>` line keeps the listener in the block**
  (`reopen`).  The opening line is examined for a `>>` after its `<<`
  (`client.cpp` 443-446), a closing line is not (470): `>> b=<<x>>` ends both
  blocks, and the listener waits for another `>>` line, adding the messages
  that follow to this one.

- **A value may lose its first newline** (`boundary_newline`).  `serializeArg`
  puts a newline after `<<`, and `build` trims one from each end of a block
  (`parser.cpp` 321-329).  When two args are blocks, the second `<<` is on the
  line that closes the first, and `listen()` adds that line to the message
  without its newline (`client.cpp` 467-471).  A value that begins with a newline
  of its own then loses it.

What holds only under a promise of the callers or a condition, and why the code needs
it.  Excluding a case is not checking it: `PROJECT.json` lists these under `hazards`
with no property, or with a note that says which part is not covered.

- `Alone`.  With overlapping calls a listener of an old connection can take the
  handshake reply of a new one (`client.cpp` 423), a handshake's verdict can be
  wiped or faked by any other call, because it is the shared error slot (116),
  a send can write to a descriptor that was closed and reused (305, 291), and a
  listener in a blocked read is not woken by `disconnect()` on another thread (193).
- `slotOf = t` in `SendsReportWhatTheyDid`.  **A call that fails may report success, even
  with `Alone`**: another thread begins a call, which clears the slot (`client.cpp` 303 and
  its siblings), after the failure and before the caller looks, and the answer is "no
  error".  Without the condition TLC shows it in five states.  A call that began
  and failed on the other thread makes a good send look failed in the same way.  And
  with one thread, `listen()` returns the error that a handler's send left in the
  slot as its own.
- One thread, in `BridgeAlive`.  With two threads of the program `Off` deletes a bridge
  that another thread's dispatch is about to call.
- `KeepsUsing`.  Without it `BridgeIffHandlers` and `NothingLeftBehind` fail: a goroutine
  whose last use of the client is an `On` may find the finalizer at work beside it; when
  the `On` gets `handlersMu` after `clearClientHandlers`, its handler stays in the maps,
  and the bridge it registers is deleted with the client.  The next client at that
  address starts with a handler that nobody registered on it, and with no bridge, so
  handlers registered later are never called.  (The attempt to prove
  `BridgeIffHandlers` showed this; one client per run had hidden it.)
- A handler that leaves its message to somebody breaks `ReceivedOutlivesHandler`; the
  promise in `HandlerReturns` of `Lifetimes` excludes it, and the property is about the
  finalizers only.
- `HandlerVectors` has its conditions described above.

`StatusNeverFlips` was also too strong, and the instance then in use too small to show
it; the proof did.  Without a handle, the first token of an error is its command, and
a what that closes its quotes and has a `~x` behind them turns the error into a request.
And a value that ends its own block, or a `<<>>` on the line where another value opens
one, leaves the lines of a value to be read as messages: `serializeArg` looks neither for
`>>` in a block (`message.cpp` 49) nor for `<<` in a value on one line (61).  The property has the
conditions now, and the instance a message for each.

## 5. What is proved

Every theorem holds for all values of the constants that the module's own
assumption allows (`ClientAssumption`, `MuxAssumption`, ...): any number of threads,
descriptors, connections, clients, kinds, handlers, messages and calls.  Where a
theorem has a hypothesis of its own, it is one of the promises that the code
leaves to its callers, named below; each is met by a run.

| Module | Hypothesis | Theorems (the property each one states) |
|---|---|---|
| `SporeClientProofs` | none | `TypeCorrect` (`TypeOK`), `WritersCorrect` (`WritersInvariant`), `MessagesNotInterleaved` (`NoInterleaving`) |
| | `Promise`: Go binding, `Alone` | `ConnInvCorrect`; `ConnectedAgrees` (`ConnectedMeansAccepted`), `NoLeaks` (`NoDescriptorLeak`), `AppFileSafe` (`AppFileUntouched`), `StreamsApart` (`StreamsNotCrossed`); without signals `SilentHubKept` (`SilentHubKeepsListener`) |
| | `Calm`: `Promise`, no short writes | `FramingCorrect` (`WireFraming`), `ReportsAreTrue` (`SendsReportWhatTheyDid`), `ImplementsChannel` (`SendsAreAtomic`) |
| `ListenFramingProofs` | none | `FramedCorrect`; `TypeCorrect` (`TypeOK`), `MessagesAreNotKept` (`NoMessageWaits`), `ImplementsStream` (`CutsTheStream`) |
| `HandlerMuxProofs` | none | `TypeCorrect` (`TypeOK`) |
| | `KeepsUsing` | `MuxInvCorrect`; `LayersAgree` (`BridgeIffHandlers`), `AddressesAreClean` (`NothingLeftBehind`), `EachOnce` (`EachHandlerOnce`) |
| | `KeepsUsing`, one thread and the finalizer | `BridgesAlive` (`BridgeAlive`) |
| `HandlerVectorsProofs` | none | `VectorInvCorrect`, `TypeCorrect` (`TypeOK`), `RegistryExact` (`RegistryIsExact`), `ReadsLiveHandlers` (`LoopReadsLiveHandlers`), `EverybodyIsCalled` (`NobodySkipped`), `HandlersInOrder` (`EachHandlerInOrder`) |
| `LifetimesProofs` | none | `LifeInvCorrect`, `TypeCorrect` (`TypeOK`), `ClientsOutliveCalls` (`ClientOutlivesItsCalls`), `ReceivedOutlive` (`ReceivedOutlivesHandler`), `FreedByOwner` (`FreedOnceByItsOwner`), `NoDeadHandlers` (`NoHandlersOfTheDead`) |
| `RoundTripProofs` | none | `RawBytesAreTheMessage` (`RawIsTheMessage`), `NextMessageIsIntact` (`NextIsIntact`) |
| `CodecProofs` | none | `StatusHolds` (`StatusNeverFlips`), `SentMessageIsReceived` (`SentIsReceived`), `CallsReadBack` (`CallsAreRead`) |

**Writes.**  `NoInterleaving` is not inductive.  It says of fragments already
written that only node ids lie between a text and the newline of the same call; to
know that the newline about to be written will find it so, one needs to know that
the thread holds the mutex since it wrote the text (`pc[t] = "sendNl"` exactly when
`writeMu = t`), that nobody else's text or newline has been appended to any file
since, and that no other fragment carries the number of this call.
`WritersInvariant` says that, and is inductive relative to `TypeOK`; the proof of
`NoInterleaving` then looks at the one fragment a step may append.  That the
argument never mentions descriptors is the point: it does not matter which file
`socketFd` refers to.

**The connection.**  `ConnInv` has four parts: a thread inside connect or disconnect
is the only one inside the library (`Exclusive`); the table holds no socket of the
library but the one behind `socketFd` and the one in the local `fd` of a `connect()`,
and connections to come are untouched (`Own`); at each step of connect and disconnect,
`socketFd`, the hub's answer, the unread lines and the timeout are what the step needs
(`Stage`), and a thread at a read or write that assumes a connection has one (`Uses`);
and when nobody connects or disconnects, `connected`, `socketFd` and the answer agree,
and the socket has no timeout (`Settled`).  The two state properties follow from it; the
three action properties are proved step by step under it, for they say which file a step
closes, writes or reads.

**What the hub reads.**  `WireFraming` says how fragments follow each other on a
connection.  To keep it, a write must find the right fragment before it: `Lines` says
that on the client's connection the mutex is held exactly when the last message lacks
its newline.

**What a send tells.**  `Told` says what is known of a call at each step of a send, if it
had the last word on the slot: at the return the slot is empty exactly when both writes
were made, and holds an early error only when none was; and while it writes, what it has
on which file, which holds whoever has the slot.  A step of another thread keeps
that: it touches no fragment of this call, and if it touches the slot it
takes the last word, after which nothing is claimed.  `Reports` is `Told` for all threads.

**The channel.**  Each step of `SporeClient` is one of: a step that changes neither lines,
pending sends, slot nor answers; a `Begin`, whose number is new because `calls` only
grows; a delivery, by the text (`ChannelText`) or by the newline (`ChannelNewline`);
a `Touch` of the slot; a `Return`; or a call that sends nothing.  `LineEnds` and
`LineSources` show, from the frame that `WireFraming` gives, that the line which a
newline completes holds the text of this call and of no other, or nothing; and `Reports`
gives what `Return` promises.

**Framing.**  `listen()` decides about each line when it takes it, from the line, the
flag `multiline` and the text so far; `MessageStream` defines a message by all its
lines at once, found again among the bytes.  `Framed` ties the two together: what is in
`rawLine` and `buf` is the end of the input (`TailOfInput`), and inside a block `rawLine` is whole
lines of which the first opens a block and no other ends it (`Block`), whose joined
pieces are `line` (`BlockSoFar`).  `LineAdded` shows that a line at the end changes no
line before it; from it follow `BlockGrows` and `MessageDone`, what a line does that does not end the
block and one that does.  `LineTests` shows that the searches of the code (`openPos`,
`selfClosed`, `isClose`) find what the stream means by opening and closing.  Then a read
is `Arrive`, the last line of a message is `Frame`, and every other step is a stutter,
for every set of units and every length of input and of reads.

**The multiplexer.**  `Counted` bounds ids and bridges by the registrations under way,
so that the maps and the two counters stay in their types.  `MuxInv` has three parts.
`Agree` is `BridgeIffHandlers` extended to clients of every state; in between, a client
being destroyed may have lost its maps and not yet its vectors.  `Emptied` says that
the thread about to free a client has cleared its maps.  `Placement` says which threads
may be in a call about a client of which state; it is what `KeepsUsing` buys, and is
where the proof first failed.  `EachOnce` follows one dispatch (`Course`): the loop is
in front of the one bridge, in its call or behind it, and the handlers registered since
the start are among those called and those to be called.  `BridgesAlive` adds that the
vector is as long as the loop believes until it has called its bridge (`Tracked`): a
handler may remove that bridge, but the loop does not come back to it; and the finalizer
works on another client (`TrackedBesides`).

**The vectors.**  `VectorInv` says that the vector of a kind holds the handlers of that
type, each once (`Exact`), and that every position the loop will come to holds a pointer,
if only one left there by `erase` (`Reach`).  `Course` has what the three properties of
the loop need.  `Counts` ties the position to the calls made.  `InPlace`: with no removal,
what is called and what is to come are what was there at the start.  `OneBehind`: after one
removal behind the loop, at most one position lies past the end of the vector, and `erase`
left in it the last handler, which is still registered.  `NobodyPassed`: with none removed
behind the loop, everyone who stayed was called or is at a position it will come to.

**Lifetimes.**  `LifeInv` says which calls a thread may be in at once (`Shape`), that
the finalizer of a client that can be reached has not run (`Protected`), that the object
the finalizer goroutine destroys is there and nobody else's (`Dying`), and that every
delivery has a message of its own on the stack (`OwnMessages`).  The theorems are its
consequences; the collector's step is the one that needs most of it.

**Raw bytes.**  `listen()` keeps two copies of a message: `line`, whose lines it joins
itself, and the raw bytes, from which `parseRaw` takes the returns before newlines and the
last newline.  `RawInv` says of every message delivered that the two agree
unless a line that closes a block opens another: there `listen()` drops a newline that
the raw bytes keep.  It holds because `Kept`, what is left of the bytes without those returns, is
`line` at every turn, and grows by whole lines (`KeptLine`).

**The next message.**  `SerializeIs` writes the text of any message as a beginning, the
args in the order of their keys, and an end; only a value with a newline opens a block.
`NextInv` follows the loop through these bytes: what is left in `buf` is, up to the
returns the hub may add, the rest after some arg, before, in or behind a block, or
empty, or what the follower needs (`Stage`), and `multiline` says which
(`Outside`, `Inside`, `Closing`).  In a block the invariant does not care what the value
is: whatever lines it has, and wherever it ends its own block, what is behind it has a
line beginning with `>>`, or the loop is outside a block already.  So the loop arrives at the
follower's line outside a block and with an empty `rawLine`.

**The status.**  `Heads`, a part of `NextInv`, says that under the conditions of
`StatusNeverFlips` whatever is delivered of a response has its beginning, the address and the
word `ok` or `error`, followed by a space if by anything.  The tokenizer's recursion is unfolded once, in
`Runs(s, t, u)`: the text `t` takes the state `s` to `u`; `RunsOne` and `RunsConcat` are
all the rest uses.  `BeginsTokens` reads the two first tokens off the beginning and
`StartsRun` shows that nothing behind them, whatever its quotes, brackets and blocks,
takes them back.  Then `build` has a response with that flag, and `validate` rejects it
if it has the other one too.

**What is received.**  `SentMessageIsReceived` needs what the tokenizer makes of *every*
unit, in each of the four ways a value can be written.  `Reads(P, k, v, T)` says that after the
text `P` the tokenizer has the tokens `T` and is in a token `v` of kind `k`.  From there a
value in quotes or a block goes on unit by unit (`Sits`, `SitsText`), and one without
quotes with a depth that is the number of brackets still open (`Deep`, `BracketRun`),
which `Balanced` brings back to zero.  `Gives(P, F, S)` forgets the order: the tokens
of `P` begin as `F` and the others say the set `S` of flags, handles and args, each arg as
`KeyValue` and `Unblock` read it.  So each part of a message adds one element
(`GivesArg`, `GivesInQuotes`, `GivesFlags`, and `BlockBegins`, `BlockOn`, `BlockEnds` for
one on several lines), the whole says `Said(m)`, and `Understood` shows that `build`,
`validate` and the constructors, whose lookups take the last arg of a key, make
`Expected(m)` of any tokens that say it.  The invariant, `SentInv`, follows the loop as
`NextInv` does, but knows what has been read: in a block, `line` gives what is said up
to its key and the part of the value before `buf` (`InValue`, `AtClose`), the newline
behind `<<` included, which `OneBlockLeads` decides.  `Dry` is where `EatsReturn`
enters: no line that the loop takes ends with a return of the value.  That a message
has only the fields of its type (`Proper`) is an invariant of the setters (`BuiltProper`).

**What the calls said.**  `CallsReadBack` adds the two ends to that.  `Agrees(p, k, m)`
says that after the first `k` calls of the program `p` the message `m` has what the last
of them for each arg and field says, and the flags any of them added; a constructor gives
it for no calls, each setter keeps it (`ApplyAgrees`), so the built message has it
(`BuiltAgrees`).  The getters read the received message, which is the same, and list its
keys and flags without repetition in their order (`InOrderLists`).

What stays with TLC, and why.  Liveness (`ConnectReturns`, `ListenEndsOnHangup`,
`DispatchReturns`, `AbandonedIsFreed`) needs fairness and ENABLED, which the prover
does not have.  There is no induction for recursive definitions in the prover either;
where one is needed (`FlattenSeq`, `Runs`, `Built`) the proofs argue by the least
counterexample (`NoFirst`), definition by definition.  `PartialIsRejected` is about
messages that `build` takes for something else, one way for each thing that can be missing:
its proof would need what each of them is read as, not one statement for all.  The three runs that
expect a violation have nothing to prove.

## 6. What is not modelled

- Socket buffers: a write transfers or fails, it does not block for ever.
- The Windows calls: the same control flow.  `SIGPIPE` on a write to a closed
  socket is taken as an error return.
- A nested `listen()` from a handler.
- Single `<` and `>`, and runs of three or more of them, in the values of
  `RoundTrip`.  Commands, handles, keys and flags there are plain words.
- The text that `serialize` keeps in the object: `get_serialized` returns what the
  last `serialize` or send made, not what later setters changed, and two threads
  that send one message at once race for it.
- Allocation failure, the copies of raw bytes between Go and C, build files.

## 7. Plan

1. Done: connection and sends (`SporeClient`), the proofs about them, framing,
   the multiplexer, the codec and the round trip.
2. Done: lifetimes of Go values (`Lifetimes`), handlers of C programs
   (`HandlerVectors`), builders and getters (`MessageApi`), and the channel that
   `SporeClient` implements (`SendChannel`).
3. Done: the proofs of section 5.
4. Done: raw bytes, the next message, the status of a response, the whole message and
   what the getters say of it, for all texts (`RoundTripProofs`, `CodecProofs`).
5. Next: `PartialIsRejected`, one kind of partial message at a time.
