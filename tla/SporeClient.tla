---------------------------- MODULE SporeClient ----------------------------
(***************************************************************************)
(* The connection of one spore client: spore::Client of                    *)
(* spore_c/source/client.cpp, called by several threads, with the kernel's *)
(* descriptor table and the hub at the other end of the socket.            *)
(*                                                                         *)
(* A step is one access to what threads share: a field of Client, the      *)
(* mutex, or a system call.  errorCode and errorWhat are always written    *)
(* together and are one slot here, named errorCode.  What the hub sends is *)
(* a sequence of lines; how listen() cuts its reads into messages is       *)
(* ListenFraming.                                                          *)
(***************************************************************************)
EXTENDS Integers, Sequences

CONSTANTS
  Threads,     \* threads that call the library
  NoThread,    \* "nobody holds writeMu"
  Fds,         \* descriptor numbers the process may be given
  MaxConns,    \* bound: connections opened in a behaviour
  MaxCalls,    \* bound: API calls in a behaviour
  MaxDown,     \* bound: lines of the hub waiting unread on a connection
  Texts,       \* kinds of text the program sends, see Fragment
  Binding,     \* "c": the C functions; "go": the guarded methods of client.go
  Alone,       \* TRUE: callers keep connect and disconnect apart from all calls
  Interrupts   \* TRUE: a signal may interrupt a read or a write

ASSUME ClientAssumption ==
  /\ NoThread \notin Threads
  /\ Fds \subseteq Nat
  /\ MaxConns \in Nat /\ MaxCalls \in Nat /\ MaxDown \in Nat
  /\ Texts \subseteq {"bare", "inner", "ended"}
  /\ Binding \in {"c", "go"}
  /\ Alone \in BOOLEAN /\ Interrupts \in BOOLEAN

NoFd    == -1               \* kInvalidSocket
Free    == 0                \* an unused entry of the descriptor table
Conns   == 1 .. MaxConns
Foreign == MaxConns + 1     \* a file of the application, not of the library
Unbound == MaxConns + 2     \* a socket that is not connected yet
Files   == Conns \cup {Foreign, Unbound}

ErrorCodes == {"", "ConnectFailed", "HandshakeFailed", "NotConnected",
               "NullArgument", "SendFailed"}

\* What a call tells its caller: no error, or an error with its code; "none"
\* before it has told anything.  (An error without a code, "", is what the
\* caller gets when the slot is cleared between its two looks.)
NoError == "nil"
Results == ErrorCodes \cup {NoError, "none"}

\* What one write puts on the wire: the node id line, or what a short write
\* transferred of it; the text of a message, or a part of it; the newline
\* that writeRaw adds.  The texts of the five types end in a newline of their
\* own ("ended", and may hold others); a raw text may, or may hold newlines and
\* not end in one ("inner"), or hold none ("bare").
Fragment == [kind : {"id", "idPart", "bare", "inner", "ended", "part", "nl"}, call : Nat]

\* A line the hub sends: its answer to the node id, or a message.
DownLine == {"ok", "no", "msg"}

ConnectPcs    == {"connSocket", "connOpen", "connStore", "connTimed", "connHello",
                  "connReply", "connUntime", "connUntimeNo", "connRefuse",
                  "connVerify", "connClose", "connReset"}
DisconnectPcs == {"discCheck", "discReset", "discDown"}
LifecyclePcs  == ConnectPcs \cup DisconnectPcs \cup {"lifeRet", "lifeCode"}
SendPcs       == {"sendCheck", "sendText", "sendNl", "sendRet", "sendCode"}
ListenPcs     == {"listenCheck", "read", "reading", "handle", "listenRet", "listenCode"}
Pcs           == {"idle"} \cup LifecyclePcs \cup SendPcs \cup ListenPcs

VARIABLES
  \* fields of spore::Client
  alive,       \* between spore_client_create and spore_client_destroy
  connected,
  socketFd,
  errorCode,
  writeMu,     \* the thread that holds the mutex
  \* the kernel
  fdTable,     \* what each descriptor number refers to
  wire,        \* bytes written to each file, as fragments
  down,        \* lines of the hub not yet read, for each connection
  nConns,      \* connections opened so far
  timed,       \* connections with a receive timeout
  \* the hub
  open,        \* the hub has this connection open
  reply,       \* its answer to the node id
  \* the calling threads
  pc,
  back,        \* where the thread goes when the call returns
  hold,        \* the file a blocked read() is reading
  newFd,       \* the local fd of connect(), until it is stored in socketFd
  calls,       \* API calls so far
  call,        \* number of the call each thread is in, or 0
  result,      \* what the thread's last call told its caller
  slotOf       \* history: the thread whose call wrote the error slot last

slot    == <<errorCode, slotOf>>
client  == <<alive, connected, socketFd, slot, writeMu>>
kernel  == <<fdTable, wire, down, nConns, timed>>
hub     == <<open, reply>>
local   == <<back, hold, newFd, calls, call, result>>
threads == <<pc, local>>
vars    == <<client, kernel, hub, threads>>

TypeOK ==
  /\ alive \in BOOLEAN
  /\ connected \in BOOLEAN
  /\ socketFd \in Fds \cup {NoFd}
  /\ errorCode \in ErrorCodes
  /\ writeMu \in Threads \cup {NoThread}
  /\ fdTable \in [Fds -> Files \cup {Free}]
  /\ wire \in [Files -> Seq(Fragment)]
  /\ down \in [Conns -> Seq(DownLine)]
  /\ nConns \in 0 .. MaxConns
  /\ timed \subseteq Conns
  /\ open \in [Conns -> BOOLEAN]
  /\ reply \in [Conns -> {"none", "ok", "no"}]
  /\ pc \in [Threads -> Pcs]
  /\ back \in [Threads -> {"idle", "handle"}]
  /\ hold \in [Threads -> Files \cup {Free}]
  /\ newFd \in [Threads -> Fds \cup {NoFd}]
  /\ calls \in 0 .. MaxCalls
  /\ call \in [Threads -> 0 .. MaxCalls]
  /\ result \in [Threads -> Results]
  /\ slotOf \in Threads \cup {NoThread}

Init ==
  /\ alive = TRUE
  /\ connected = FALSE
  /\ socketFd = NoFd
  /\ errorCode = ""
  /\ writeMu = NoThread
  /\ fdTable = [f \in Fds |-> Free]
  /\ wire = [k \in Files |-> <<>>]
  /\ down = [c \in Conns |-> <<>>]
  /\ nConns = 0
  /\ timed = {}
  /\ open = [c \in Conns |-> FALSE]
  /\ reply = [c \in Conns |-> "none"]
  /\ pc = [t \in Threads |-> "idle"]
  /\ back = [t \in Threads |-> "idle"]
  /\ hold = [t \in Threads |-> Free]
  /\ newFd = [t \in Threads |-> NoFd]
  /\ calls = 0
  /\ call = [t \in Threads |-> 0]
  /\ result = [t \in Threads |-> "none"]
  /\ slotOf = NoThread

----------------------------------------------------------------------------
(* Steps shared by the calls *)

Goto(t, l) == pc' = [pc EXCEPT ![t] = l]

\* Client::error
Fail(t, code) ==
  /\ errorCode' = code
  /\ slotOf' = t

\* The file behind socketFd at this moment.
Target == IF socketFd = NoFd THEN Free ELSE fdTable[socketFd]

\* The table after close(fd).
AfterClose(fd) == [f \in Fds |-> IF f = fd THEN Free ELSE fdTable[f]]

Writable(k) == k = Foreign \/ (k \in Conns /\ open[k])

\* One write() to socketFd that transfers something, for send n (0: for none).
Put(n, kind) ==
  /\ Writable(Target)
  /\ wire' = [wire EXCEPT ![Target] = Append(@, [kind |-> kind, call |-> n])]

\* A write() that returns -1.
PutFails == ~Writable(Target) \/ Interrupts

\* A thread may enter the library when it is in none of its calls, or from a
\* handler that listen() runs on it.  Alone is a promise of the callers.
MayEnter(t, lifecycle) ==
  /\ alive
  /\ calls < MaxCalls
  /\ pc[t] \in {"idle", "handle"}
  /\ Alone => \A u \in Threads \ {t} :
                IF lifecycle THEN pc[u] = "idle" ELSE pc[u] \notin LifecyclePcs

\* Mutant of Enter: the slot keeps the error of an earlier call.
EnterUncleared(t, l) ==
  /\ slotOf' = t
  /\ calls' = calls + 1
  /\ call' = [call EXCEPT ![t] = calls + 1]
  /\ result' = [result EXCEPT ![t] = "none"]
  /\ back' = [back EXCEPT ![t] = pc[t]]
  /\ Goto(t, l)
  /\ UNCHANGED <<errorCode, alive, connected, socketFd, writeMu, kernel, hub, hold, newFd>>

\* Every call begins by clearing the error slot.
Enter(t, l) ==
  /\ errorCode' = "" /\ slotOf' = t
  /\ calls' = calls + 1
  /\ call' = [call EXCEPT ![t] = calls + 1]
  /\ result' = [result EXCEPT ![t] = "none"]
  /\ back' = [back EXCEPT ![t] = pc[t]]
  /\ Goto(t, l)
  /\ UNCHANGED <<alive, connected, socketFd, writeMu, kernel, hub, hold, newFd>>

\* The caller has its answer.
Answer(t, r) ==
  /\ result' = [result EXCEPT ![t] = r]
  /\ Goto(t, back[t])
  /\ back' = [back EXCEPT ![t] = "idle"]
  /\ call' = [call EXCEPT ![t] = 0]
  /\ UNCHANGED <<client, kernel, hub, hold, newFd, calls>>

\* ClientHasError, and where the caller looks again when there is one.
SecondLook == [lifeRet |-> "lifeCode", sendRet |-> "sendCode", listenRet |-> "listenCode"]

\* The call is over and the caller looks at the error slot, which is not its
\* own: whoever calls or fails meanwhile writes it too.
Return(t) ==
  /\ pc[t] \in DOMAIN SecondLook
  /\ \/ errorCode = "" /\ Answer(t, NoError)
     \/ /\ errorCode # ""
        /\ Goto(t, SecondLook[pc[t]])
        /\ UNCHANGED <<client, kernel, hub, local>>

\* ClientGetErrorCode and ClientGetErrorWhat, whatever the slot holds by now.
ReturnError(t) ==
  /\ pc[t] \in {"lifeCode", "sendCode", "listenCode"}
  /\ Answer(t, errorCode)

----------------------------------------------------------------------------
(* connect *)

\* Client.Connect of client.go returns at once when already connected; the C
\* function does not look.
CallConnect(t) ==
  /\ MayEnter(t, TRUE)
  /\ Binding = "go" => ~connected
  /\ Enter(t, "connSocket")

\* socket()
ConnectSocket(t) ==
  /\ pc[t] = "connSocket"
  /\ \/ /\ Fail(t, "ConnectFailed")
        /\ Goto(t, "lifeRet")
        /\ UNCHANGED <<fdTable, newFd>>
     \/ \E f \in Fds :
          /\ fdTable[f] = Free
          /\ fdTable' = [fdTable EXCEPT ![f] = Unbound]
          /\ newFd' = [newFd EXCEPT ![t] = f]
          /\ Goto(t, "connOpen")
          /\ UNCHANGED slot
  /\ UNCHANGED <<alive, connected, socketFd, writeMu, wire, down, nConns, timed, hub,
                 back, hold, calls, call, result>>

\* ::connect() on the new socket, which is closed when that fails.
ConnectOpen(t) ==
  /\ pc[t] = "connOpen"
  /\ \/ /\ fdTable' = AfterClose(newFd[t])
        /\ newFd' = [newFd EXCEPT ![t] = NoFd]
        /\ Fail(t, "ConnectFailed")
        /\ Goto(t, "lifeRet")
        /\ UNCHANGED <<nConns, open>>
     \/ /\ nConns < MaxConns
        /\ fdTable[newFd[t]] = Unbound
        /\ fdTable' = [fdTable EXCEPT ![newFd[t]] = nConns + 1]
        /\ nConns' = nConns + 1
        /\ open' = [open EXCEPT ![nConns + 1] = TRUE]
        /\ Goto(t, "connStore")
        /\ UNCHANGED <<slot, newFd>>
  /\ UNCHANGED <<alive, connected, socketFd, writeMu, wire, down, timed, reply,
                 back, hold, calls, call, result>>

ConnectStore(t) ==
  /\ pc[t] = "connStore"
  /\ socketFd' = newFd[t]
  /\ newFd' = [newFd EXCEPT ![t] = NoFd]
  /\ Goto(t, "connTimed")
  /\ UNCHANGED <<alive, connected, slot, writeMu, kernel, hub,
                 back, hold, calls, call, result>>

\* Mutant of ConnectTimed: no timeout is set.
ConnectNotTimed(t) ==
  /\ pc[t] = "connTimed"
  /\ Goto(t, "connHello")
  /\ UNCHANGED <<client, kernel, hub, local>>

\* handshake(): set the receive timeout of the socket.
ConnectTimed(t) ==
  /\ pc[t] = "connTimed"
  /\ timed' = timed \cup ({Target} \cap Conns)
  /\ Goto(t, "connHello")
  /\ UNCHANGED <<client, fdTable, wire, down, nConns, hub, local>>

\* handshake(): send the node id.  This write does not take writeMu, and a
\* short one counts as success.
ConnectHello(t) ==
  /\ pc[t] = "connHello"
  /\ \/ /\ Put(0, "id") \/ (Interrupts /\ Put(0, "idPart"))
        /\ Goto(t, "connReply")
        /\ UNCHANGED slot
     \/ /\ PutFails
        /\ Fail(t, "HandshakeFailed")
        /\ Goto(t, "connVerify")
        /\ UNCHANGED wire
  /\ UNCHANGED <<alive, connected, socketFd, writeMu, fdTable, down, nConns, timed, hub,
                 local>>

\* A read() of the handshake that returns no line: the descriptor is not a
\* connection, the hub hung up, or nothing came before the timeout.
NoLine ==
  \/ Target \notin Conns
  \/ Target \in Conns /\ ~open[Target]
  \/ Target \in timed /\ down[Target] = <<>>

\* Mutant of ConnectReply: any answer is taken for OK.
ConnectReplyAny(t) ==
  /\ pc[t] = "connReply"
  /\ Target \in Conns /\ down[Target] # <<>>
  /\ down' = [down EXCEPT ![Target] = Tail(@)]
  /\ Goto(t, "connUntime")
  /\ UNCHANGED <<client, fdTable, wire, nConns, timed, hub, local>>

\* Mutant of ConnectReply: one read of up to 63 bytes, and the rest is lost.
ConnectReplyGreedy(t) ==
  /\ pc[t] = "connReply"
  /\ Target \in Conns /\ down[Target] # <<>>
  /\ down' = [down EXCEPT ![Target] = <<>>]
  /\ Goto(t, IF Head(down[Target]) = "ok" THEN "connUntime" ELSE "connUntimeNo")
  /\ UNCHANGED <<client, fdTable, wire, nConns, timed, hub, local>>

\* handshake(): read one line.  The bytes are read one by one so that none
\* behind the newline is taken; one step stands for them, because when a read
\* fails in the middle the connection is closed with what was taken from it.
ConnectReply(t) ==
  /\ pc[t] = "connReply"
  /\ \/ /\ Target \in Conns
        /\ down[Target] # <<>>
        /\ down' = [down EXCEPT ![Target] = Tail(@)]
        /\ Goto(t, IF Head(down[Target]) = "ok" THEN "connUntime" ELSE "connUntimeNo")
        /\ UNCHANGED slot
     \/ /\ NoLine
        /\ Fail(t, "HandshakeFailed")
        /\ Goto(t, "connVerify")
        /\ UNCHANGED down
  /\ UNCHANGED <<alive, connected, socketFd, writeMu, fdTable, wire, nConns, timed, hub,
                 local>>

\* A signal may end a read of the handshake.
ConnectCut(t) ==
  /\ pc[t] = "connReply" /\ Interrupts
  /\ Fail(t, "HandshakeFailed")
  /\ Goto(t, "connVerify")
  /\ UNCHANGED <<alive, connected, socketFd, writeMu, kernel, hub, local>>

\* Mutant of ConnectUntime: the socket keeps its timeout.
ConnectStaysTimed(t) ==
  /\ \/ pc[t] = "connUntime" /\ Goto(t, "connVerify")
     \/ pc[t] = "connUntimeNo" /\ Goto(t, "connRefuse")
  /\ UNCHANGED <<client, kernel, hub, local>>

\* handshake(): clear the timeout, whatever the answer was.
ConnectUntime(t) ==
  /\ \/ pc[t] = "connUntime" /\ Goto(t, "connVerify")
     \/ pc[t] = "connUntimeNo" /\ Goto(t, "connRefuse")
  /\ timed' = timed \ {Target}
  /\ UNCHANGED <<client, fdTable, wire, down, nConns, hub, local>>

\* handshake(): the answer was not OK.
ConnectRefuse(t) ==
  /\ pc[t] = "connRefuse"
  /\ Fail(t, "HandshakeFailed")
  /\ Goto(t, "connVerify")
  /\ UNCHANGED <<alive, connected, socketFd, writeMu, kernel, hub, local>>

\* The error slot itself decides whether the handshake succeeded.
ConnectVerify(t) ==
  /\ pc[t] = "connVerify"
  /\ IF errorCode # ""
       THEN Goto(t, "connClose") /\ UNCHANGED connected
       ELSE Goto(t, "lifeRet") /\ connected' = TRUE
  /\ UNCHANGED <<alive, socketFd, slot, writeMu, kernel, hub, local>>

\* Mutant of ConnectClose: the rejected connection is forgotten, not closed.
ConnectNotClosed(t) ==
  /\ pc[t] = "connClose"
  /\ Goto(t, "connReset")
  /\ UNCHANGED <<client, kernel, hub, local>>

ConnectClose(t) ==
  /\ pc[t] = "connClose"
  /\ fdTable' = AfterClose(socketFd)
  /\ Goto(t, "connReset")
  /\ UNCHANGED <<client, wire, down, nConns, timed, hub, local>>

\* Mutant of ConnectReset: socketFd keeps the number of the closed descriptor.
ConnectNotReset(t) ==
  /\ pc[t] = "connReset"
  /\ Goto(t, "lifeRet")
  /\ UNCHANGED <<client, kernel, hub, local>>

ConnectReset(t) ==
  /\ pc[t] = "connReset"
  /\ socketFd' = NoFd
  /\ Goto(t, "lifeRet")
  /\ UNCHANGED <<alive, connected, slot, writeMu, kernel, hub, local>>

Connect(t) ==
  \/ CallConnect(t) \/ ConnectSocket(t) \/ ConnectOpen(t) \/ ConnectStore(t)
  \/ ConnectTimed(t) \/ ConnectHello(t) \/ ConnectReply(t) \/ ConnectCut(t)
  \/ ConnectUntime(t) \/ ConnectRefuse(t) \/ ConnectVerify(t) \/ ConnectClose(t) \/ ConnectReset(t)

----------------------------------------------------------------------------
(* disconnect, and the end of the client *)

CallDisconnect(t) ==
  /\ MayEnter(t, TRUE)
  /\ Binding = "go" => connected
  /\ Enter(t, "discCheck")

DisconnectCheck(t) ==
  /\ pc[t] = "discCheck"
  /\ \/ /\ ~connected /\ socketFd = NoFd
        /\ Goto(t, "lifeRet")
        /\ UNCHANGED fdTable
     \/ /\ socketFd # NoFd
        /\ fdTable' = AfterClose(socketFd)
        /\ Goto(t, "discReset")
     \/ /\ connected /\ socketFd = NoFd
        /\ Goto(t, "discDown")
        /\ UNCHANGED fdTable
  /\ UNCHANGED <<client, wire, down, nConns, timed, hub, local>>

\* Mutant of DisconnectReset: zero, not kInvalidSocket.
DisconnectResetZero(t) ==
  /\ pc[t] = "discReset"
  /\ socketFd' = 0
  /\ Goto(t, "discDown")
  /\ UNCHANGED <<alive, connected, slot, writeMu, kernel, hub, local>>

DisconnectReset(t) ==
  /\ pc[t] = "discReset"
  /\ socketFd' = NoFd
  /\ Goto(t, "discDown")
  /\ UNCHANGED <<alive, connected, slot, writeMu, kernel, hub, local>>

DisconnectDown(t) ==
  /\ pc[t] = "discDown"
  /\ connected' = FALSE
  /\ Goto(t, "lifeRet")
  /\ UNCHANGED <<alive, socketFd, slot, writeMu, kernel, hub, local>>

Disconnect(t) ==
  CallDisconnect(t) \/ DisconnectCheck(t) \/ DisconnectReset(t) \/ DisconnectDown(t)

\* ~Client disconnects.  No caller destroys a client that is in use.
Destroy ==
  /\ alive
  /\ \A t \in Threads : pc[t] = "idle"
  /\ alive' = FALSE
  /\ errorCode' = ""
  /\ fdTable' = IF socketFd = NoFd THEN fdTable ELSE AfterClose(socketFd)
  /\ socketFd' = NoFd
  /\ connected' = FALSE
  /\ UNCHANGED <<slotOf, writeMu, wire, down, nConns, timed, hub, threads>>

----------------------------------------------------------------------------
(* send, sendResponse, sendResponseError, sendWitness, sendPublish, sendRaw *)

CallSend(t) ==
  /\ MayEnter(t, FALSE)
  /\ Enter(t, "sendCheck")

SendCheck(t) ==
  /\ pc[t] = "sendCheck"
  /\ \/ ~connected /\ Fail(t, "NotConnected") /\ Goto(t, "sendRet")
     \/ connected /\ Fail(t, "NullArgument") /\ Goto(t, "sendRet")
     \/ connected /\ Goto(t, "sendText") /\ UNCHANGED slot
  /\ UNCHANGED <<alive, connected, socketFd, writeMu, kernel, hub, local>>

\* Mutant of SendText: the mutex covers one write, not both.
SendTextUnlocked(t) ==
  /\ pc[t] = "sendText"
  /\ writeMu = NoThread
  /\ \/ (\E kind \in Texts : Put(call[t], kind)) /\ Goto(t, "sendNl") /\ UNCHANGED slot
     \/ PutFails /\ Fail(t, "SendFailed") /\ Goto(t, "sendRet") /\ UNCHANGED wire
  /\ UNCHANGED <<alive, connected, socketFd, writeMu, fdTable, down, nConns, timed, hub, local>>

\* writeRaw takes the mutex and writes the message.  It looks only for a
\* negative result, so a short write counts as success.
SendText(t) ==
  /\ pc[t] = "sendText"
  /\ writeMu = NoThread
  /\ \/ /\ (\E kind \in Texts : Put(call[t], kind)) \/ (Interrupts /\ Put(call[t], "part"))
        /\ writeMu' = t
        /\ Goto(t, "sendNl")
        /\ UNCHANGED slot
     \/ /\ PutFails
        /\ Fail(t, "SendFailed")
        /\ Goto(t, "sendRet")
        /\ UNCHANGED <<writeMu, wire>>
  /\ UNCHANGED <<alive, connected, socketFd, fdTable, down, nConns, timed, hub, local>>

\* Mutant of SendNewline: the text is trusted to end in a newline.
SendNewlineSkipped(t) ==
  /\ pc[t] = "sendNl"
  /\ writeMu' = NoThread
  /\ Goto(t, "sendRet")
  /\ UNCHANGED <<alive, connected, socketFd, slot, kernel, hub, local>>

\* Mutant of SendNewline: a failure to write the newline is not reported.
SendNewlineUnchecked(t) ==
  /\ pc[t] = "sendNl"
  /\ writeMu' = NoThread
  /\ Goto(t, "sendRet")
  /\ Put(call[t], "nl") \/ (PutFails /\ UNCHANGED wire)
  /\ UNCHANGED <<alive, connected, socketFd, slot, fdTable, down, nConns, timed, hub, local>>

\* writeRaw writes the newline and lets the mutex go.
SendNewline(t) ==
  /\ pc[t] = "sendNl"
  /\ writeMu' = NoThread
  /\ Goto(t, "sendRet")
  /\ \/ Put(call[t], "nl") /\ UNCHANGED slot
     \/ PutFails /\ Fail(t, "SendFailed") /\ UNCHANGED wire
  /\ UNCHANGED <<alive, connected, socketFd, fdTable, down, nConns, timed, hub, local>>

Send(t) == CallSend(t) \/ SendCheck(t) \/ SendText(t) \/ SendNewline(t)

----------------------------------------------------------------------------
(* listen *)

\* Listen of client.go does not enter the library when not connected.
CallListen(t) ==
  /\ MayEnter(t, FALSE)
  /\ pc[t] = "idle"
  /\ Binding = "go" => connected
  /\ Enter(t, "listenCheck")

ListenCheck(t) ==
  /\ pc[t] = "listenCheck"
  /\ \/ ~connected /\ Fail(t, "NotConnected") /\ Goto(t, "listenRet")
     \/ connected /\ Goto(t, "read") /\ UNCHANGED slot
  /\ UNCHANGED <<alive, connected, socketFd, writeMu, kernel, hub, local>>

\* read() finds the file behind socketFd, or fails and ends the loop.
ListenRead(t) ==
  /\ pc[t] = "read"
  /\ hold' = [hold EXCEPT ![t] = IF Target = Unbound THEN Free ELSE Target]
  /\ Goto(t, IF Target \in {Free, Unbound} THEN "listenRet" ELSE "reading")
  /\ UNCHANGED <<client, kernel, hub, back, newFd, calls, call, result>>

\* read() returns data: some of the lines that wait, which listen() then
\* hands to the handlers.
ListenData(t) ==
  /\ pc[t] = "reading"
  /\ \/ /\ hold[t] \in Conns
        /\ \E n \in 1 .. Len(down[hold[t]]) :
             down' = [down EXCEPT ![hold[t]] = SubSeq(@, n + 1, Len(@))]
     \/ hold[t] = Foreign /\ UNCHANGED down
  /\ hold' = [hold EXCEPT ![t] = Free]
  /\ Goto(t, "handle")
  /\ UNCHANGED <<client, fdTable, wire, nConns, timed, hub, back, newFd, calls, call, result>>

\* read() returns zero or less: the loop ends, and no error is set.
ListenLeaves(t) ==
  /\ pc[t] = "reading"
  /\ hold' = [hold EXCEPT ![t] = Free]
  /\ Goto(t, "listenRet")
  /\ UNCHANGED <<client, kernel, hub, back, newFd, calls, call, result>>

\* Mutant of ListenEof: only a negative result ends the loop, not zero.
ListenEofSpins(t) ==
  /\ pc[t] = "reading"
  /\ hold[t] \in Conns => ~open[hold[t]] /\ down[hold[t]] = <<>>
  /\ Goto(t, "read")
  /\ hold' = [hold EXCEPT ![t] = Free]
  /\ UNCHANGED <<client, kernel, hub, back, newFd, calls, call, result>>

ListenEof(t) ==
  /\ hold[t] \in Conns => ~open[hold[t]] /\ down[hold[t]] = <<>>
  /\ ListenLeaves(t)

\* A signal, a close of the descriptor by another thread, or a receive timeout
\* may end a read that has nothing to return.
ListenCut(t) ==
  /\ \/ Interrupts
     \/ \A f \in Fds : fdTable[f] # hold[t]
     \/ hold[t] \in timed /\ down[hold[t]] = <<>>
  /\ ListenLeaves(t)

\* The handlers have returned.
HandlerDone(t) ==
  /\ pc[t] = "handle"
  /\ Goto(t, "read")
  /\ UNCHANGED <<client, kernel, hub, local>>

Listen(t) ==
  \/ CallListen(t) \/ ListenCheck(t) \/ ListenRead(t) \/ ListenData(t)
  \/ ListenEof(t) \/ ListenCut(t) \/ HandlerDone(t)

----------------------------------------------------------------------------
(* the hub, and the rest of the application's files *)

\* Some descriptor or some blocked read still refers to the connection.
Held(c) == (\E f \in Fds : fdTable[f] = c) \/ (\E t \in Threads : hold[t] = c)

\* The hub answers the first line it reads, whatever is on it.
HubReply(c) ==
  /\ open[c] /\ reply[c] = "none"
  /\ \E i \in 1 .. Len(wire[c]) : wire[c][i].kind \notin {"idPart", "bare"}
  /\ \E r \in {"ok", "no"} :
       /\ reply' = [reply EXCEPT ![c] = r]
       /\ down' = [down EXCEPT ![c] = Append(@, r)]
  /\ UNCHANGED <<client, fdTable, wire, nConns, timed, open, threads>>

HubSend(c) ==
  /\ open[c] /\ reply[c] = "ok" /\ Held(c)
  /\ Len(down[c]) < MaxDown
  /\ down' = [down EXCEPT ![c] = Append(@, "msg")]
  /\ UNCHANGED <<client, fdTable, wire, nConns, timed, hub, threads>>

HubClose(c) ==
  /\ open[c]
  /\ open' = [open EXCEPT ![c] = FALSE]
  /\ UNCHANGED <<client, kernel, reply, threads>>

\* The application opens and closes one file of its own.
ForeignOpen ==
  /\ \A f \in Fds : fdTable[f] # Foreign
  /\ \E f \in Fds : fdTable[f] = Free /\ fdTable' = [fdTable EXCEPT ![f] = Foreign]
  /\ UNCHANGED <<client, wire, down, nConns, timed, hub, threads>>

ForeignClose ==
  /\ \E f \in Fds : fdTable[f] = Foreign /\ fdTable' = [fdTable EXCEPT ![f] = Free]
  /\ UNCHANGED <<client, wire, down, nConns, timed, hub, threads>>

Environment ==
  \/ \E c \in Conns : HubReply(c) \/ HubSend(c) \/ HubClose(c)
  \/ ForeignOpen \/ ForeignClose

----------------------------------------------------------------------------
(* the specification *)

Next ==
  \/ \E t \in Threads : \/ Connect(t) \/ Disconnect(t) \/ Send(t) \/ Listen(t)
                        \/ Return(t) \/ ReturnError(t)
  \/ Destroy
  \/ Environment

Spec == Init /\ [][Next]_vars

\* A thread inside a call keeps running, and handlers return.  No call has to
\* be made; the hub owes nothing; an interrupt never has to come.
Fairness ==
  \A t \in Threads :
    /\ WF_vars(ConnectSocket(t)) /\ WF_vars(ConnectOpen(t)) /\ WF_vars(ConnectStore(t))
    /\ WF_vars(ConnectTimed(t)) /\ WF_vars(ConnectHello(t)) /\ WF_vars(ConnectReply(t))
    /\ WF_vars(ConnectUntime(t)) /\ WF_vars(ConnectRefuse(t)) /\ WF_vars(ConnectVerify(t))
    /\ WF_vars(ConnectClose(t)) /\ WF_vars(ConnectReset(t))
    /\ WF_vars(DisconnectCheck(t)) /\ WF_vars(DisconnectReset(t))
    /\ WF_vars(DisconnectDown(t))
    /\ WF_vars(SendCheck(t)) /\ WF_vars(SendText(t)) /\ WF_vars(SendNewline(t))
    /\ WF_vars(ListenCheck(t)) /\ WF_vars(ListenRead(t)) /\ WF_vars(ListenData(t))
    /\ WF_vars(ListenEof(t)) /\ WF_vars(HandlerDone(t))
    /\ WF_vars(Return(t)) /\ WF_vars(ReturnError(t))

FairSpec == Spec /\ Fairness

----------------------------------------------------------------------------
(* Properties.  Alone is what the callers promise, Interrupts what the     *)
(* environment may do; each property says under which of them it holds.    *)

NoLifecycle == \A t \in Threads : pc[t] \notin LifecyclePcs

IsText(g) == g.kind \in {"bare", "inner", "ended", "part"}
IsId(g)   == g.kind \in {"id", "idPart"}

\* Whatever the callers do, and even when descriptors are mixed up, nothing
\* but a node id comes between a message and the newline writeRaw adds to it,
\* on one file: writeRaw holds writeMu over both writes, and handshake()
\* writes without it.
NoInterleaving ==
  \A k \in Files : \A i, j \in 1 .. Len(wire[k]) :
    /\ i < j
    /\ IsText(wire[k][i])
    /\ wire[k][j].kind = "nl"
    /\ wire[k][i].call = wire[k][j].call
    => \A m \in i + 1 .. j - 1 : IsId(wire[k][m])

\* Why NoInterleaving holds.  The mutex is held exactly between the two writes
\* of a message; calls have numbers of their own, and a call that has not
\* written yet has nothing on any file; and after the text of the call that
\* holds the mutex there are only node ids.
WritersInvariant ==
  /\ \A t \in Threads : pc[t] = "sendNl" <=> writeMu = t
  /\ \A t \in Threads : call[t] <= calls
  /\ \A t \in Threads : pc[t] \in SendPcs => call[t] # 0
  /\ \A t, u \in Threads : t # u /\ call[t] = call[u] => call[t] = 0
  /\ \A k \in Files : \A i \in 1 .. Len(wire[k]) : wire[k][i].call <= calls
  /\ \A t \in Threads : pc[t] \in {"sendCheck", "sendText"} =>
       \A k \in Files : \A i \in 1 .. Len(wire[k]) : wire[k][i].call # call[t]
  /\ \A t \in Threads : pc[t] = "sendNl" =>
       \A k \in Files : \A i \in 1 .. Len(wire[k]) :
         IsText(wire[k][i]) /\ wire[k][i].call = call[t] =>
           \A j \in i + 1 .. Len(wire[k]) : IsId(wire[k][j])

\* When no call overlaps a connect or disconnect and no write is short, what a
\* connection carries is the node id and then whole messages, each followed by
\* the newline of writeRaw; only the last can lack it.  (Where the text ends in
\* a newline of its own, the hub reads a blank line behind the message.)
WireFraming ==
  \A c \in Conns : \A i \in 1 .. Len(wire[c]) :
    IF i = 1 THEN wire[c][i].kind = "id"
    ELSE IF i % 2 = 0 THEN wire[c][i].kind \in Texts
    ELSE wire[c][i].kind = "nl"

\* What the thread's call has put on a file.
Mine(t, k) == {i \in 1 .. Len(wire[k]) : wire[k][i].call = call[t]}

\* The call put a message and then its newline on one file and nothing else.
SentWhole(t) ==
  \E k \in Files :
    /\ \E i, j \in Mine(t, k) : /\ Mine(t, k) = {i, j} /\ i < j
                                /\ wire[k][i].kind \in Texts /\ wire[k][j].kind = "nl"
    /\ \A l \in Files \ {k} : Mine(t, l) = {}

TruthfulReturn ==
  \A t \in Threads :
    /\ pc[t] \in {"sendRet", "sendCode"} /\ pc'[t] \in {"idle", "handle"}
    /\ slotOf = t
    => /\ result'[t] = NoError <=> SentWhole(t)
       /\ result'[t] \in {"NotConnected", "NullArgument"} =>
            \A k \in Files : Mine(t, k) = {}

\* A send tells its caller "no error" exactly when both its writes were made,
\* and the two errors of its checks only when it wrote nothing, although the
\* answer is read from a slot that all calls share: as long as no other thread
\* begins a call or fails between the last word this call wrote to the slot and
\* the caller's look at it.  When one does, a failed send can be told as a
\* success and a good one as failed.
SendsReportWhatTheyDid == [][TruthfulReturn]_vars

\* Outside connect and disconnect the client is connected exactly when it has
\* a socket, and then to a hub that answered OK to the node id.
ConnectedMeansAccepted ==
  NoLifecycle =>
    /\ connected <=> socketFd # NoFd
    /\ connected => Target \in Conns /\ reply[Target] = "ok"

\* The only connection the process keeps a descriptor of is the client's own,
\* or the one that connect() is about to make its own; a socket that was never
\* connected is closed; a destroyed client has none.
NoDescriptorLeak ==
  \A f \in Fds :
    /\ fdTable[f] \in Conns =>
         f = socketFd \/ \E t \in Threads : pc[t] = "connStore" /\ newFd[t] = f
    /\ fdTable[f] = Unbound =>
         \E t \in Threads : pc[t] = "connOpen" /\ newFd[t] = f

\* The library never closes a file of the application, nor writes to one,
\* however descriptor numbers are reused.
AppFileKept ==
  /\ wire'[Foreign] = wire[Foreign]
  /\ ForeignClose \/ \A f \in Fds : fdTable[f] = Foreign => fdTable'[f] = Foreign

AppFileUntouched == [][AppFileKept]_vars

\* connect() takes the hub's answer from the stream and nothing else, listen()
\* takes messages and nothing else: a message that follows the OK at once is
\* left for listen().
LinesTakenByTheirReaders ==
  \A c \in Conns : \A i \in 1 .. Len(down[c]) - Len(down'[c]) :
    IF down[c][i] = "msg"
      THEN \E t \in Threads : pc[t] = "reading" /\ pc'[t] = "handle" /\ hold[t] = c
      ELSE \E t \in Threads : /\ pc[t] = "connReply"
                              /\ pc'[t] \in {"connUntime", "connUntimeNo"}

StreamsNotCrossed == [][LinesTakenByTheirReaders]_vars

\* A listener waits for a hub that is silent as long as it takes: its read ends
\* without data only when the hub has closed the connection.  handshake() sets
\* a timeout on the same socket and has to take it off again.
LeavesOnHangup ==
  \A t \in Threads :
    pc[t] = "reading" /\ pc'[t] = "listenRet" /\ hold[t] \in Conns => ~open[hold[t]]

SilentHubKeepsListener == [][LeavesOnHangup]_vars

\* Connect returns even from a hub that never answers.
ConnectReturns ==
  \A t \in Threads : pc[t] \in ConnectPcs ~> pc[t] \in {"idle", "handle"}

\* A listener whose hub closed the connection drains it and leaves listen(),
\* unless a handler has connected to the hub again.
ListenEndsOnHangup ==
  \A t \in Threads :
    (pc[t] = "reading" /\ \E c \in Conns : hold[t] = c /\ ~open[c])
      ~> \/ pc[t] = "idle"
         \/ pc[t] = "reading" /\ \E c \in Conns : hold[t] = c /\ open[c]

\* connect_test.cpp:35-39 says of a connect that fails, with "HandshakeFailed
\* (daemon rejected us)" for one, that the client is not connected afterwards.
\* There the client was never connected; here it may have been.
FailedConnectIsDisconnected ==
  \A t \in Threads : result[t] = "HandshakeFailed" => ~connected

============================================================================
