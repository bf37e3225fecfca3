------------------------- MODULE SporeClientProofs -------------------------
(***************************************************************************)
(* Proofs about SporeClient, for any number of threads, descriptors,       *)
(* connections and calls: first whatever the callers do, with and without  *)
(* interrupts; then when they keep connect and disconnect apart from all   *)
(* other calls, as they must, for nothing in the library does it for them; *)
(* and last what the hub reads then, when no write is short.               *)
(***************************************************************************)
EXTENDS SporeClientChannel, SequenceTheorems, TLAPS

LEMMA BoundsAreNat == MaxConns \in Nat /\ MaxCalls \in Nat
BY ClientAssumption DEF ClientAssumption

LEMMA PcsEnumerated ==
  Pcs = {"idle", "connSocket", "connOpen", "connStore", "connTimed", "connHello",
         "connReply", "connUntime", "connUntimeNo", "connRefuse", "connVerify",
         "connClose", "connReset", "discCheck", "discReset", "discDown", "lifeRet",
         "lifeCode", "sendCheck", "sendText", "sendNl", "sendRet", "sendCode",
         "listenCheck", "read", "reading", "handle", "listenRet", "listenCode"}
BY DEF Pcs, LifecyclePcs, ConnectPcs, DisconnectPcs, SendPcs, ListenPcs

LEMMA SecondLookType ==
  ASSUME NEW l \in DOMAIN SecondLook
  PROVE  l \in Pcs /\ SecondLook[l] \in Pcs
BY PcsEnumerated DEF SecondLook

LEMMA ConnsAreFiles ==
  /\ Conns \subseteq Files
  /\ Foreign \in Files /\ Unbound \in Files
  /\ \A n \in 0 .. MaxConns : n < MaxConns => n + 1 \in Conns /\ n + 1 \in 0 .. MaxConns
BY BoundsAreNat DEF Files, Conns, Foreign, Unbound

----------------------------------------------------------------------------
(* Types *)

LEMMA TypeInit == Init => TypeOK
<1> SUFFICES ASSUME Init PROVE TypeOK
  OBVIOUS
<1>1. wire = [k \in Files |-> <<>>] /\ down = [c \in Conns |-> <<>>]
  BY DEF Init
<1>2. wire \in [Files -> Seq(Fragment)] /\ down \in [Conns -> Seq(DownLine)]
  BY <1>1
<1>3. calls = 0 /\ nConns = 0 /\ call = [t \in Threads |-> 0]
  BY DEF Init
<1>4. calls \in 0 .. MaxCalls /\ nConns \in 0 .. MaxConns /\ call \in [Threads -> 0 .. MaxCalls]
  BY <1>3, BoundsAreNat
<1>5. pc \in [Threads -> Pcs] /\ back \in [Threads -> {"idle", "handle"}]
  BY PcsEnumerated DEF Init
<1>6. /\ open \in [Conns -> BOOLEAN] /\ reply \in [Conns -> {"none", "ok", "no"}]
      /\ fdTable \in [Fds -> Files \cup {Free}] /\ hold \in [Threads -> Files \cup {Free}]
      /\ newFd \in [Threads -> Fds \cup {NoFd}] /\ timed \subseteq Conns
      /\ result \in [Threads -> Results] /\ errorCode \in ErrorCodes
  BY DEF Init, ErrorCodes, Results
<1> QED
  BY <1>2, <1>4, <1>5, <1>6 DEF Init, TypeOK

\* The steps that the calls share.

LEMMA GotoType ==
  ASSUME NEW t \in Threads, NEW l \in Pcs, TypeOK, Goto(t, l)
  PROVE  pc' \in [Threads -> Pcs]
BY DEF TypeOK, Goto

LEMMA FailType ==
  ASSUME NEW t \in Threads, NEW code \in ErrorCodes, TypeOK, Fail(t, code)
  PROVE  errorCode' \in ErrorCodes /\ slotOf' \in Threads \cup {NoThread}
BY DEF TypeOK, Fail

Kinds == {"id", "idPart", "bare", "inner", "ended", "part", "nl"}

LEMMA PutType ==
  ASSUME NEW n \in 0 .. MaxCalls, NEW kind \in Kinds, TypeOK, Put(n, kind)
  PROVE  wire' \in [Files -> Seq(Fragment)]
<1>1. Target \in Files
  BY DEF Put, Writable, Files
<1>2. [kind |-> kind, call |-> n] \in Fragment
  BY BoundsAreNat DEF Fragment, Kinds
<1>3. Append(wire[Target], [kind |-> kind, call |-> n]) \in Seq(Fragment)
  BY <1>1, <1>2 DEF TypeOK
<1> QED
  BY <1>1, <1>3 DEF Put, TypeOK

LEMMA TextsType == Texts \subseteq {"bare", "inner", "ended"}
BY ClientAssumption DEF ClientAssumption

LEMMA AfterCloseType ==
  ASSUME TypeOK, NEW fd
  PROVE  AfterClose(fd) \in [Fds -> Files \cup {Free}]
BY DEF TypeOK, AfterClose

LEMMA EnterType ==
  ASSUME NEW t \in Threads, NEW l \in Pcs, NEW lifecycle, TypeOK,
         MayEnter(t, lifecycle), Enter(t, l)
  PROVE  TypeOK'
<1>1. pc' \in [Threads -> Pcs]
  BY GotoType DEF Enter
<1>2. calls \in 0 .. MaxCalls /\ call \in [Threads -> 0 .. MaxCalls] /\ calls < MaxCalls
  BY DEF TypeOK, MayEnter
<1>3. calls' = calls + 1 /\ call' = [call EXCEPT ![t] = calls + 1]
  BY DEF Enter
<1>4. calls' \in 0 .. MaxCalls /\ call' \in [Threads -> 0 .. MaxCalls]
  BY <1>2, <1>3, BoundsAreNat
<1>5. back' \in [Threads -> {"idle", "handle"}]
  BY DEF Enter, MayEnter, TypeOK
<1>6. /\ errorCode' \in ErrorCodes /\ slotOf' \in Threads \cup {NoThread}
      /\ result' \in [Threads -> Results]
  BY DEF Enter, ErrorCodes, Results, TypeOK
<1> QED
  BY <1>1, <1>4, <1>5, <1>6 DEF Enter, TypeOK, kernel, hub

LEMMA ConnectType ==
  ASSUME NEW t \in Threads, TypeOK, Connect(t)
  PROVE  TypeOK'
<1> USE PcsEnumerated, GotoType DEF slot, client, kernel, hub, local, threads
<1>1. CASE CallConnect(t)
  BY <1>1, EnterType DEF CallConnect
<1>2. CASE ConnectSocket(t)
  <2>1. /\ errorCode' \in ErrorCodes /\ slotOf' \in Threads \cup {NoThread}
        /\ pc' \in [Threads -> Pcs]
    BY <1>2, FailType DEF ConnectSocket, ErrorCodes, TypeOK
  <2>2. \/ UNCHANGED <<fdTable, newFd>>
        \/ \E f \in Fds : /\ newFd' = [newFd EXCEPT ![t] = f]
                          /\ fdTable' = [fdTable EXCEPT ![f] = Unbound]
    BY <1>2 DEF ConnectSocket
  <2>3. fdTable' \in [Fds -> Files \cup {Free}] /\ newFd' \in [Threads -> Fds \cup {NoFd}]
    <3>1. fdTable \in [Fds -> Files \cup {Free}] /\ newFd \in [Threads -> Fds \cup {NoFd}]
      BY DEF TypeOK
    <3>2. Unbound \in Files
      BY ConnsAreFiles
    <3>3. CASE UNCHANGED <<fdTable, newFd>>
      BY <3>1, <3>3
    <3>4. ASSUME NEW f \in Fds, newFd' = [newFd EXCEPT ![t] = f],
                 fdTable' = [fdTable EXCEPT ![f] = Unbound]
          PROVE  fdTable' \in [Fds -> Files \cup {Free}] /\ newFd' \in [Threads -> Fds \cup {NoFd}]
      BY <3>1, <3>2, <3>4
    <3> QED
      BY <2>2, <3>3, <3>4
  <2> QED
    BY <1>2, <2>1, <2>3 DEF ConnectSocket, TypeOK
<1>8. CASE ConnectOpen(t)
  <2>1. /\ errorCode' \in ErrorCodes /\ slotOf' \in Threads \cup {NoThread}
        /\ pc' \in [Threads -> Pcs]
    BY <1>8, FailType DEF ConnectOpen, ErrorCodes, TypeOK
  <2>2. \/ /\ fdTable' = AfterClose(newFd[t])
           /\ UNCHANGED <<nConns, open>>
        \/ /\ nConns < MaxConns
           /\ nConns' = nConns + 1
           /\ open' = [open EXCEPT ![nConns + 1] = TRUE]
           /\ fdTable' = [fdTable EXCEPT ![newFd[t]] = nConns + 1]
    BY <1>8 DEF ConnectOpen
  <2>3. /\ nConns \in 0 .. MaxConns /\ open \in [Conns -> BOOLEAN]
        /\ fdTable \in [Fds -> Files \cup {Free}]
    BY DEF TypeOK
  <2>4. /\ nConns' \in 0 .. MaxConns /\ open' \in [Conns -> BOOLEAN]
        /\ fdTable' \in [Fds -> Files \cup {Free}]
    BY <2>2, <2>3, AfterCloseType, ConnsAreFiles
  <2>5. newFd' \in [Threads -> Fds \cup {NoFd}]
    BY <1>8 DEF ConnectOpen, TypeOK
  <2> QED
    BY <1>8, <2>1, <2>4, <2>5 DEF ConnectOpen, TypeOK
<1>9. CASE ConnectStore(t)
  BY <1>9 DEF ConnectStore, TypeOK
<1>10. CASE ConnectTimed(t)
  BY <1>10 DEF ConnectTimed, TypeOK
<1>11. CASE ConnectUntime(t)
  BY <1>11 DEF ConnectUntime, TypeOK
<1>12. CASE ConnectRefuse(t)
  BY <1>12, FailType DEF ConnectRefuse, TypeOK, ErrorCodes
<1>13. CASE ConnectCut(t)
  BY <1>13, FailType DEF ConnectCut, TypeOK, ErrorCodes
<1>3. CASE ConnectHello(t)
  <2>1. errorCode' \in ErrorCodes /\ slotOf' \in Threads \cup {NoThread}
    BY <1>3, FailType DEF ConnectHello, ErrorCodes, TypeOK
  <2>2. wire' \in [Files -> Seq(Fragment)]
    <3>1. 0 \in 0 .. MaxCalls
      BY BoundsAreNat
    <3>2. UNCHANGED wire \/ Put(0, "id") \/ Put(0, "idPart")
      BY <1>3 DEF ConnectHello
    <3> QED
      BY <3>1, <3>2, PutType DEF TypeOK, Kinds
  <2>3. pc' \in [Threads -> Pcs]
    BY <1>3 DEF ConnectHello
  <2> QED
    BY <1>3, <2>1, <2>2, <2>3 DEF ConnectHello, TypeOK
<1>4. CASE ConnectReply(t)
  <2>1. errorCode' \in ErrorCodes /\ slotOf' \in Threads \cup {NoThread}
    BY <1>4, FailType DEF ConnectReply, ErrorCodes, TypeOK
  <2>2. pc' \in [Threads -> Pcs]
    BY <1>4 DEF ConnectReply
  <2>3. \/ UNCHANGED down
        \/ /\ Target \in Conns /\ down[Target] # <<>>
           /\ down' = [down EXCEPT ![Target] = Tail(@)]
    BY <1>4 DEF ConnectReply
  <2>4. down \in [Conns -> Seq(DownLine)]
    BY DEF TypeOK
  <2>5. down' \in [Conns -> Seq(DownLine)]
    <3>1. CASE UNCHANGED down
      BY <2>4, <3>1
    <3>2. CASE /\ Target \in Conns /\ down[Target] # <<>>
               /\ down' = [down EXCEPT ![Target] = Tail(@)]
      <4>1. down[Target] \in Seq(DownLine)
        BY <2>4, <3>2
      <4>2. Tail(down[Target]) \in Seq(DownLine)
        BY <3>2, <4>1, HeadTailProperties
      <4> QED
        BY <2>4, <3>2, <4>2
    <3> QED
      BY <2>3, <3>1, <3>2
  <2> QED
    BY <1>4, <2>1, <2>2, <2>5 DEF ConnectReply, TypeOK
<1>5. CASE ConnectVerify(t)
  BY <1>5 DEF ConnectVerify, TypeOK
<1>6. CASE ConnectClose(t)
  BY <1>6, AfterCloseType DEF ConnectClose, TypeOK
<1>7. CASE ConnectReset(t)
  BY <1>7 DEF ConnectReset, TypeOK
<1> QED
  BY <1>1, <1>2, <1>3, <1>4, <1>5, <1>6, <1>7, <1>8, <1>9, <1>10, <1>11, <1>12, <1>13
  DEF Connect

LEMMA DisconnectType ==
  ASSUME NEW t \in Threads, TypeOK, Disconnect(t)
  PROVE  TypeOK'
<1> USE PcsEnumerated, GotoType DEF slot, client, kernel, hub, local, threads
<1>1. CASE CallDisconnect(t)
  BY <1>1, EnterType DEF CallDisconnect
<1>2. CASE DisconnectCheck(t)
  <2>1. fdTable' \in [Fds -> Files \cup {Free}]
    BY <1>2, AfterCloseType DEF DisconnectCheck, TypeOK
  <2>2. pc' \in [Threads -> Pcs]
    BY <1>2 DEF DisconnectCheck
  <2> QED
    BY <1>2, <2>1, <2>2 DEF DisconnectCheck, TypeOK
<1>3. CASE DisconnectReset(t)
  BY <1>3 DEF DisconnectReset, TypeOK
<1>4. CASE DisconnectDown(t)
  BY <1>4 DEF DisconnectDown, TypeOK
<1> QED
  BY <1>1, <1>2, <1>3, <1>4 DEF Disconnect

LEMMA SendType ==
  ASSUME NEW t \in Threads, TypeOK, Send(t)
  PROVE  TypeOK'
<1> USE PcsEnumerated, GotoType DEF slot, client, kernel, hub, local, threads
<1>1. CASE CallSend(t)
  BY <1>1, EnterType DEF CallSend
<1>2. CASE SendCheck(t)
  <2>1. errorCode' \in ErrorCodes /\ slotOf' \in Threads \cup {NoThread}
    BY <1>2, FailType DEF SendCheck, ErrorCodes, TypeOK
  <2>2. pc' \in [Threads -> Pcs]
    BY <1>2 DEF SendCheck
  <2> QED
    BY <1>2, <2>1, <2>2 DEF SendCheck, TypeOK
<1>3. CASE SendText(t)
  <2>1. errorCode' \in ErrorCodes /\ slotOf' \in Threads \cup {NoThread}
    BY <1>3, FailType DEF SendText, ErrorCodes, TypeOK
  <2>2. pc' \in [Threads -> Pcs] /\ wire' \in [Files -> Seq(Fragment)]
    BY <1>3, PutType, TextsType DEF SendText, TypeOK, Kinds
  <2> QED
    BY <1>3, <2>1, <2>2 DEF SendText, TypeOK
<1>4. CASE SendNewline(t)
  <2>1. errorCode' \in ErrorCodes /\ slotOf' \in Threads \cup {NoThread}
    BY <1>4, FailType DEF SendNewline, ErrorCodes, TypeOK
  <2>2. pc' \in [Threads -> Pcs] /\ wire' \in [Files -> Seq(Fragment)]
    BY <1>4, PutType DEF SendNewline, TypeOK, Kinds
  <2> QED
    BY <1>4, <2>1, <2>2 DEF SendNewline, TypeOK
<1> QED
  BY <1>1, <1>2, <1>3, <1>4 DEF Send

LEMMA ListenType ==
  ASSUME NEW t \in Threads, TypeOK, Listen(t)
  PROVE  TypeOK'
<1> USE PcsEnumerated, GotoType DEF slot, client, kernel, hub, local, threads
<1>1. CASE CallListen(t)
  BY <1>1, EnterType DEF CallListen
<1>2. CASE ListenCheck(t)
  <2>1. errorCode' \in ErrorCodes /\ slotOf' \in Threads \cup {NoThread}
    BY <1>2, FailType DEF ListenCheck, ErrorCodes, TypeOK
  <2>2. pc' \in [Threads -> Pcs]
    BY <1>2 DEF ListenCheck
  <2> QED
    BY <1>2, <2>1, <2>2 DEF ListenCheck, TypeOK
<1>3. CASE ListenRead(t)
  <2>1. Target \in Files \cup {Free} /\ Free \in Files \cup {Free}
    BY DEF Target, TypeOK
  <2>2. hold' \in [Threads -> Files \cup {Free}] /\ pc' \in [Threads -> Pcs]
    BY <1>3, <2>1 DEF ListenRead, TypeOK
  <2> QED
    BY <1>3, <2>2 DEF ListenRead, TypeOK
<1>4. CASE ListenData(t)
  <2>1. \/ UNCHANGED down
        \/ /\ hold[t] \in Conns
           /\ \E n \in 1 .. Len(down[hold[t]]) :
                down' = [down EXCEPT ![hold[t]] = SubSeq(@, n + 1, Len(@))]
    BY <1>4 DEF ListenData
  <2>2. down \in [Conns -> Seq(DownLine)]
    BY DEF TypeOK
  <2>3. down' \in [Conns -> Seq(DownLine)]
    <3>1. CASE UNCHANGED down
      BY <2>2, <3>1
    <3>2. ASSUME hold[t] \in Conns, NEW n \in 1 .. Len(down[hold[t]]),
                 down' = [down EXCEPT ![hold[t]] = SubSeq(@, n + 1, Len(@))]
          PROVE  down' \in [Conns -> Seq(DownLine)]
      <4>1. down[hold[t]] \in Seq(DownLine) /\ Len(down[hold[t]]) \in Nat
        BY <2>2, <3>2
      <4>2. SubSeq(down[hold[t]], n + 1, Len(down[hold[t]])) \in Seq(DownLine)
        BY <4>1
      <4> QED
        BY <2>2, <3>2, <4>2
    <3> QED
      BY <2>1, <3>1, <3>2
  <2>4. hold' \in [Threads -> Files \cup {Free}] /\ pc' \in [Threads -> Pcs]
    BY <1>4 DEF ListenData, TypeOK
  <2> QED
    BY <1>4, <2>3, <2>4 DEF ListenData, TypeOK
<1>5. CASE ListenLeaves(t)
  BY <1>5 DEF ListenLeaves, TypeOK
<1>6. CASE HandlerDone(t)
  BY <1>6 DEF HandlerDone, TypeOK
<1> QED
  BY <1>1, <1>2, <1>3, <1>4, <1>5, <1>6 DEF Listen, ListenEof, ListenCut

LEMMA EnvironmentType ==
  ASSUME TypeOK, Environment
  PROVE  TypeOK'
<1> USE ConnsAreFiles DEF slot, client, kernel, hub, local, threads
<1>1. ASSUME NEW c \in Conns, HubReply(c) PROVE TypeOK'
  <2>1. PICK r \in {"ok", "no"} : /\ reply' = [reply EXCEPT ![c] = r]
                                  /\ down' = [down EXCEPT ![c] = Append(@, r)]
    BY <1>1 DEF HubReply
  <2>2. down[c] \in Seq(DownLine) /\ r \in DownLine
    BY DEF TypeOK, DownLine
  <2>3. Append(down[c], r) \in Seq(DownLine)
    BY <2>2
  <2>4. /\ reply' \in [Conns -> {"none", "ok", "no"}]
        /\ down' \in [Conns -> Seq(DownLine)]
    BY <2>1, <2>3 DEF TypeOK
  <2> QED
    BY <1>1, <2>4 DEF HubReply, TypeOK
<1>2. ASSUME NEW c \in Conns, HubSend(c) PROVE TypeOK'
  <2>1. down[c] \in Seq(DownLine) /\ "msg" \in DownLine
    BY DEF TypeOK, DownLine
  <2>2. Append(down[c], "msg") \in Seq(DownLine)
    BY <2>1
  <2>3. down' \in [Conns -> Seq(DownLine)]
    BY <1>2, <2>2 DEF HubSend, TypeOK
  <2> QED
    BY <1>2, <2>3 DEF HubSend, TypeOK
<1>3. ASSUME NEW c \in Conns, HubClose(c) PROVE TypeOK'
  BY <1>3 DEF HubClose, TypeOK
<1>4. CASE ForeignOpen
  BY <1>4 DEF ForeignOpen, TypeOK
<1>5. CASE ForeignClose
  BY <1>5 DEF ForeignClose, TypeOK
<1> QED
  BY <1>1, <1>2, <1>3, <1>4, <1>5 DEF Environment

LEMMA TypeStep == TypeOK /\ [Next]_vars => TypeOK'
<1> SUFFICES ASSUME TypeOK, [Next]_vars PROVE TypeOK'
  OBVIOUS
<1>1. ASSUME NEW t \in Threads, Return(t) \/ ReturnError(t) PROVE TypeOK'
  <2>1. ASSUME NEW r \in Results, Answer(t, r) PROVE TypeOK'
    BY <2>1, PcsEnumerated, BoundsAreNat
    DEF Answer, Goto, TypeOK, slot, client, kernel, hub
  <2>2. NoError \in Results /\ errorCode \in Results
    BY DEF TypeOK, Results
  <2>3. ASSUME pc[t] \in DOMAIN SecondLook, Goto(t, SecondLook[pc[t]]),
               UNCHANGED <<client, kernel, hub, local>>
        PROVE  TypeOK'
    BY <2>3, SecondLookType, GotoType DEF slot, client, kernel, hub, local, TypeOK
  <2> QED
    BY <1>1, <2>1, <2>2, <2>3 DEF Return, ReturnError
<1>2. CASE Destroy
  BY <1>2, AfterCloseType DEF Destroy, TypeOK, ErrorCodes, hub, threads, local
<1>3. CASE UNCHANGED vars
  BY <1>3 DEF vars, slot, client, kernel, hub, local, threads, TypeOK
<1> QED
  BY <1>1, <1>2, <1>3, ConnectType, DisconnectType, SendType, ListenType, EnvironmentType
  DEF Next

\* Every state of the client, the kernel, the hub and the threads is of its
\* type, whatever the callers and the hub do.
THEOREM TypeCorrect == Spec => []TypeOK
BY TypeInit, TypeStep, PTL DEF Spec

----------------------------------------------------------------------------
(* The writers *)

\* The fragment a write for send n adds.
Added(n, kind) == [kind |-> kind, call |-> n]

\* What one write does to the files: a fragment at the end of one of them.
LEMMA PutAppends ==
  ASSUME NEW n \in 0 .. MaxCalls, NEW kind \in Kinds, TypeOK, Put(n, kind)
  PROVE  \A k \in Files :
           \/ wire'[k] = wire[k]
           \/ /\ Len(wire[k]) \in Nat /\ Len(wire'[k]) = Len(wire[k]) + 1
              /\ \A i \in 1 .. Len(wire[k]) : wire'[k][i] = wire[k][i]
              /\ wire'[k][Len(wire[k]) + 1] = Added(n, kind)
<1> DEFINE g == Added(n, kind)
<1>1. Target \in Files /\ wire' = [wire EXCEPT ![Target] = Append(@, g)]
  BY DEF Put, Writable, Files, Added
<1>2. SUFFICES ASSUME NEW k \in Files, k = Target
               PROVE  /\ Len(wire[k]) \in Nat /\ Len(wire'[k]) = Len(wire[k]) + 1
                      /\ \A i \in 1 .. Len(wire[k]) : wire'[k][i] = wire[k][i]
                      /\ wire'[k][Len(wire[k]) + 1] = g
  BY <1>1 DEF TypeOK
<1>3. wire[k] \in Seq(Fragment) /\ wire'[k] = Append(wire[k], g)
  BY <1>1, <1>2 DEF TypeOK
<1>4. g \in Fragment
  BY BoundsAreNat DEF Kinds, Fragment, Added
<1> HIDE DEF g
<1> QED
  BY <1>3, <1>4

\* The same, seen from a fragment: it was there before, or it is the new one
\* and the last.
LEMMA PutElements ==
  ASSUME NEW n \in 0 .. MaxCalls, NEW kind \in Kinds, TypeOK, Put(n, kind)
  PROVE  \A k \in Files : \A i \in 1 .. Len(wire'[k]) :
           \/ i \in 1 .. Len(wire[k]) /\ wire'[k][i] = wire[k][i]
           \/ /\ i = Len(wire'[k]) /\ i = Len(wire[k]) + 1
              /\ wire'[k][i] = Added(n, kind)
<1> SUFFICES ASSUME NEW k \in Files, NEW i \in 1 .. Len(wire'[k])
             PROVE  \/ i \in 1 .. Len(wire[k]) /\ wire'[k][i] = wire[k][i]
                    \/ /\ i = Len(wire'[k]) /\ i = Len(wire[k]) + 1
                       /\ wire'[k][i] = Added(n, kind)
  OBVIOUS
<1>1. \/ wire'[k] = wire[k]
      \/ /\ Len(wire[k]) \in Nat /\ Len(wire'[k]) = Len(wire[k]) + 1
         /\ \A m \in 1 .. Len(wire[k]) : wire'[k][m] = wire[k][m]
         /\ wire'[k][Len(wire[k]) + 1] = Added(n, kind)
  BY PutAppends
<1> QED
  BY <1>1

LEMMA FragmentFacts ==
  ASSUME TypeOK
  PROVE  \A k \in Files :
           /\ Len(wire[k]) \in Nat
           /\ \A i \in 1 .. Len(wire[k]) : wire[k][i].call \in Nat
<1> SUFFICES ASSUME NEW k \in Files
             PROVE  /\ Len(wire[k]) \in Nat
                    /\ \A i \in 1 .. Len(wire[k]) : wire[k][i].call \in Nat
  OBVIOUS
<1>1. wire[k] \in Seq(Fragment)
  BY DEF TypeOK
<1>2. \A i \in 1 .. Len(wire[k]) : wire[k][i] \in Fragment
  BY <1>1
<1> QED
  BY <1>1, <1>2 DEF Fragment

\* A step that writes nothing, begins no call, and leaves every thread as far
\* in writeRaw as it was or takes it out of a send.
Quiet ==
  /\ UNCHANGED <<wire, calls, writeMu>>
  /\ \A t \in Threads :
       /\ pc'[t] = "sendNl" <=> pc[t] = "sendNl"
       /\ pc'[t] \in {"sendCheck", "sendText"} => pc[t] \in {"sendCheck", "sendText"}
       /\ pc'[t] \in SendPcs => pc[t] \in SendPcs /\ call'[t] = call[t]
       /\ call'[t] \in {call[t], 0}

LEMMA QuietKeeps ==
  ASSUME TypeOK, WritersInvariant, Quiet
  PROVE  WritersInvariant'
<1>1. calls \in Nat
  BY BoundsAreNat DEF TypeOK
<1>2. (\A t \in Threads : pc[t] = "sendNl" <=> writeMu = t)'
  BY DEF WritersInvariant, Quiet
<1>3. (\A t \in Threads : call[t] <= calls)'
  BY <1>1 DEF WritersInvariant, Quiet
<1>4. (\A t \in Threads : pc[t] \in SendPcs => call[t] # 0)'
  BY DEF WritersInvariant, Quiet
<1>5. (\A t, u \in Threads : t # u /\ call[t] = call[u] => call[t] = 0)'
  BY DEF WritersInvariant, Quiet
<1>6. (\A k \in Files : \A i \in 1 .. Len(wire[k]) : wire[k][i].call <= calls)'
  BY DEF WritersInvariant, Quiet
<1>7. (\A t \in Threads : pc[t] \in {"sendCheck", "sendText"} =>
         \A k \in Files : \A i \in 1 .. Len(wire[k]) : wire[k][i].call # call[t])'
  BY DEF WritersInvariant, Quiet, SendPcs
<1>8. (\A t \in Threads : pc[t] = "sendNl" =>
         \A k \in Files : \A i \in 1 .. Len(wire[k]) :
           IsText(wire[k][i]) /\ wire[k][i].call = call[t] =>
             \A j \in i + 1 .. Len(wire[k]) : IsId(wire[k][j]))'
  BY DEF WritersInvariant, Quiet, SendPcs, IsText, IsId
<1> QED
  BY <1>2, <1>3, <1>4, <1>5, <1>6, <1>7, <1>8 DEF WritersInvariant

LEMMA EnterKeeps ==
  ASSUME NEW t \in Threads, NEW l \in Pcs \ {"sendText", "sendNl"}, NEW lifecycle,
         TypeOK, WritersInvariant, MayEnter(t, lifecycle), Enter(t, l)
  PROVE  WritersInvariant'
<1>1. /\ calls' = calls + 1 /\ call' = [call EXCEPT ![t] = calls + 1]
      /\ pc' = [pc EXCEPT ![t] = l] /\ pc[t] \in {"idle", "handle"}
      /\ UNCHANGED <<wire, writeMu>>
  BY DEF Enter, MayEnter, Goto, kernel
<1>2. /\ calls \in Nat /\ call \in [Threads -> Nat] /\ pc \in [Threads -> Pcs]
      /\ wire \in [Files -> Seq(Fragment)]
  BY BoundsAreNat DEF TypeOK
<1>3. \A k \in Files : \A i \in 1 .. Len(wire[k]) : wire[k][i].call \in Nat
  BY FragmentFacts
<1>4. \A u \in Threads : pc'[u] = "sendNl" <=> pc[u] = "sendNl"
  BY <1>1, <1>2
<1>5. \A u \in Threads : pc'[u] = "sendNl" => u # t /\ call'[u] = call[u]
  BY <1>1, <1>2
<1>6. (\A u \in Threads : pc[u] = "sendNl" <=> writeMu = u)'
  BY <1>1, <1>4 DEF WritersInvariant
<1>7. (\A u \in Threads : call[u] <= calls)'
  BY <1>1, <1>2 DEF WritersInvariant
<1>8. (\A u \in Threads : pc[u] \in SendPcs => call[u] # 0)'
  BY <1>1, <1>2 DEF WritersInvariant
<1>9. (\A u, v \in Threads : u # v /\ call[u] = call[v] => call[u] = 0)'
  BY <1>1, <1>2 DEF WritersInvariant
<1>10. (\A k \in Files : \A i \in 1 .. Len(wire[k]) : wire[k][i].call <= calls)'
  BY <1>1, <1>2, <1>3 DEF WritersInvariant
<1>11. (\A u \in Threads : pc[u] \in {"sendCheck", "sendText"} =>
          \A k \in Files : \A i \in 1 .. Len(wire[k]) : wire[k][i].call # call[u])'
  BY <1>1, <1>2, <1>3 DEF WritersInvariant
<1>12. (\A u \in Threads : pc[u] = "sendNl" =>
          \A k \in Files : \A i \in 1 .. Len(wire[k]) :
            IsText(wire[k][i]) /\ wire[k][i].call = call[u] =>
              \A j \in i + 1 .. Len(wire[k]) : IsId(wire[k][j]))'
  BY <1>1, <1>4, <1>5 DEF WritersInvariant, IsText, IsId
<1> QED
  BY <1>6, <1>7, <1>8, <1>9, <1>10, <1>11, <1>12 DEF WritersInvariant

\* The node id: the only write outside the mutex.
LEMMA HelloKeeps ==
  ASSUME NEW t \in Threads, TypeOK, WritersInvariant, ConnectHello(t)
  PROVE  WritersInvariant'
<1>1. CASE wire' = wire
  <2>1. Quiet
    BY <1>1 DEF ConnectHello, Goto, Quiet, TypeOK, local, SendPcs
  <2> QED
    BY <2>1, QuietKeeps
<1>2. ASSUME NEW kind \in {"id", "idPart"}, Put(0, kind) PROVE WritersInvariant'
  <2>1. /\ UNCHANGED <<calls, call, writeMu>>
        /\ pc' = [pc EXCEPT ![t] = "connReply"] \/ pc' = [pc EXCEPT ![t] = "connVerify"]
        /\ pc[t] = "connHello"
    BY <1>2 DEF ConnectHello, Goto, local
  <2>2. /\ calls \in Nat /\ call \in [Threads -> Nat] /\ pc \in [Threads -> Pcs]
        /\ wire \in [Files -> Seq(Fragment)]
    BY BoundsAreNat DEF TypeOK
  <2>3. \A u \in Threads : pc'[u] \in SendPcs => u # t /\ pc'[u] = pc[u]
    BY <2>1, <2>2 DEF SendPcs
  <2>4. \A u \in Threads : pc'[u] = "sendNl" <=> pc[u] = "sendNl"
    BY <2>1, <2>2
  <2> DEFINE g == Added(0, kind)
  <2>5. /\ ~IsText(g) /\ IsId(g) /\ g.call = 0
    BY DEF IsText, IsId, Added
  <2>6. \A k \in Files : \A i \in 1 .. Len(wire'[k]) :
          \/ i \in 1 .. Len(wire[k]) /\ wire'[k][i] = wire[k][i]
          \/ wire'[k][i] = g
    BY <1>2, PutElements, BoundsAreNat DEF Kinds
  <2> HIDE DEF g
  <2>7. (\A u \in Threads : pc[u] = "sendNl" <=> writeMu = u)'
    BY <2>1, <2>4 DEF WritersInvariant
  <2>8. (\A u \in Threads : call[u] <= calls)'
    BY <2>1 DEF WritersInvariant
  <2>9. (\A u \in Threads : pc[u] \in SendPcs => call[u] # 0)'
    BY <2>1, <2>3 DEF WritersInvariant
  <2>10. (\A u, v \in Threads : u # v /\ call[u] = call[v] => call[u] = 0)'
    BY <2>1 DEF WritersInvariant
  <2>11. (\A k \in Files : \A i \in 1 .. Len(wire[k]) : wire[k][i].call <= calls)'
    BY <2>1, <2>2, <2>5, <2>6 DEF WritersInvariant
  <2>12. (\A u \in Threads : pc[u] \in {"sendCheck", "sendText"} =>
           \A k \in Files : \A i \in 1 .. Len(wire[k]) : wire[k][i].call # call[u])'
    BY <2>1, <2>3, <2>5, <2>6 DEF WritersInvariant, SendPcs
  <2>13. (\A u \in Threads : pc[u] = "sendNl" =>
           \A k \in Files : \A i \in 1 .. Len(wire[k]) :
             IsText(wire[k][i]) /\ wire[k][i].call = call[u] =>
               \A j \in i + 1 .. Len(wire[k]) : IsId(wire[k][j]))'
    <3> SUFFICES ASSUME NEW u \in Threads, pc'[u] = "sendNl",
                        NEW k \in Files, NEW i \in 1 .. Len(wire'[k]),
                        IsText(wire'[k][i]), wire'[k][i].call = call'[u],
                        NEW j \in i + 1 .. Len(wire'[k])
                 PROVE  IsId(wire'[k][j])
      BY DEF IsText, IsId
    <3>1. i \in 1 .. Len(wire[k]) /\ wire'[k][i] = wire[k][i]
      BY <2>5, <2>6
    <3>2. CASE wire'[k][j] = g
      BY <2>5, <3>2
    <3>3. CASE j \in 1 .. Len(wire[k]) /\ wire'[k][j] = wire[k][j]
      <4>1. Len(wire[k]) \in Nat
        BY <2>2
      <4>2. j \in i + 1 .. Len(wire[k])
        BY <3>3
      <4> QED
        BY <2>1, <2>4, <3>1, <3>3, <4>2 DEF WritersInvariant
    <3>4. j \in 1 .. Len(wire'[k])
      BY <3>1
    <3> QED
      BY <2>6, <3>2, <3>3, <3>4
  <2> QED
    BY <2>7, <2>8, <2>9, <2>10, <2>11, <2>12, <2>13 DEF WritersInvariant
<1> QED
  BY <1>1, <1>2 DEF ConnectHello

\* The text: the call has nothing on any file yet, and takes the mutex.
LEMMA TextKeeps ==
  ASSUME NEW t \in Threads, TypeOK, WritersInvariant, SendText(t)
  PROVE  WritersInvariant'
<1>1. CASE wire' = wire /\ writeMu' = writeMu
  <2>1. pc' = [pc EXCEPT ![t] = "sendRet"] /\ UNCHANGED <<calls, call>> /\ pc[t] = "sendText"
    <3>1. writeMu' # t
      BY <1>1, ClientAssumption DEF SendText, ClientAssumption
    <3> QED
      BY <3>1 DEF SendText, Goto, local
  <2>2. Quiet
    BY <1>1, <2>1 DEF Quiet, TypeOK, SendPcs
  <2> QED
    BY <2>2, QuietKeeps
<1>2. ASSUME NEW kind \in Texts \cup {"part"}, Put(call[t], kind), writeMu' = t, Goto(t, "sendNl")
      PROVE  WritersInvariant'
  <2>1. /\ UNCHANGED <<calls, call>>
        /\ pc' = [pc EXCEPT ![t] = "sendNl"]
        /\ pc[t] = "sendText" /\ writeMu = NoThread /\ writeMu' = t
    BY <1>2 DEF SendText, Goto, local
  <2>2. /\ calls \in Nat /\ call \in [Threads -> Nat] /\ pc \in [Threads -> Pcs]
        /\ NoThread \notin Threads
    BY BoundsAreNat, ClientAssumption DEF TypeOK, ClientAssumption
  <2>3. \A u \in Threads : pc[u] # "sendNl"
    BY <2>1, <2>2 DEF WritersInvariant
  <2>4. \A u \in Threads : pc'[u] = "sendNl" <=> u = t
    BY <2>1, <2>2, <2>3
  <2>5. \A u \in Threads : u # t => call[u] # call[t]
    BY <2>1, <2>2 DEF WritersInvariant, SendPcs
  <2> DEFINE g == Added(call[t], kind)
  <2>0. kind \in Kinds /\ call[t] \in 0 .. MaxCalls
    BY TextsType DEF Kinds, TypeOK
  <2>6. \A k \in Files : \A i \in 1 .. Len(wire'[k]) :
          \/ i \in 1 .. Len(wire[k]) /\ wire'[k][i] = wire[k][i]
          \/ i = Len(wire'[k]) /\ wire'[k][i] = g
    BY <1>2, <2>0, PutElements
  <2>7. g.call = call[t]
    BY DEF Added
  <2>8. \A k \in Files : Len(wire'[k]) \in Nat
    BY <1>2, <2>0, PutAppends, FragmentFacts
  <2> HIDE DEF g
  <2>9. (\A u \in Threads : pc[u] = "sendNl" <=> writeMu = u)'
    BY <2>1, <2>4
  <2>10. (\A u \in Threads : call[u] <= calls)'
    BY <2>1 DEF WritersInvariant
  <2>11. (\A u \in Threads : pc[u] \in SendPcs => call[u] # 0)'
    BY <2>1, <2>2 DEF WritersInvariant, SendPcs
  <2>12. (\A u, v \in Threads : u # v /\ call[u] = call[v] => call[u] = 0)'
    BY <2>1 DEF WritersInvariant
  <2>13. (\A k \in Files : \A i \in 1 .. Len(wire[k]) : wire[k][i].call <= calls)'
    BY <2>1, <2>6, <2>7 DEF WritersInvariant
  <2>14. (\A u \in Threads : pc[u] \in {"sendCheck", "sendText"} =>
           \A k \in Files : \A i \in 1 .. Len(wire[k]) : wire[k][i].call # call[u])'
    <3> SUFFICES ASSUME NEW u \in Threads, pc'[u] \in {"sendCheck", "sendText"},
                        NEW k \in Files, NEW i \in 1 .. Len(wire'[k])
                 PROVE  wire'[k][i].call # call'[u]
      OBVIOUS
    <3>1. u # t /\ pc'[u] = pc[u] /\ call'[u] = call[u]
      BY <2>1, <2>2
    <3> QED
      BY <3>1, <2>5, <2>6, <2>7 DEF WritersInvariant
  <2>15. (\A u \in Threads : pc[u] = "sendNl" =>
           \A k \in Files : \A i \in 1 .. Len(wire[k]) :
             IsText(wire[k][i]) /\ wire[k][i].call = call[u] =>
               \A j \in i + 1 .. Len(wire[k]) : IsId(wire[k][j]))'
    <3> SUFFICES ASSUME NEW k \in Files, NEW i \in 1 .. Len(wire'[k]),
                        wire'[k][i].call = call[t],
                        NEW j \in i + 1 .. Len(wire'[k])
                 PROVE  FALSE
      BY <2>1, <2>4 DEF IsText, IsId
    <3>1. i = Len(wire'[k])
      <4>1. \A m \in 1 .. Len(wire[k]) : wire[k][m].call # call[t]
        BY <2>1 DEF WritersInvariant
      <4> QED
        BY <2>6, <4>1
    <3> QED
      BY <3>1, <2>8
  <2> QED
    BY <2>9, <2>10, <2>11, <2>12, <2>13, <2>14, <2>15 DEF WritersInvariant
<1> QED
  BY <1>1, <1>2 DEF SendText

\* The newline: the call that wrote it lets the mutex go.
LEMMA NewlineKeeps ==
  ASSUME NEW t \in Threads, TypeOK, WritersInvariant, SendNewline(t)
  PROVE  WritersInvariant'
<1>1. /\ UNCHANGED <<calls, call>>
      /\ pc' = [pc EXCEPT ![t] = "sendRet"]
      /\ pc[t] = "sendNl" /\ writeMu' = NoThread
  BY DEF SendNewline, Goto, local
<1>2. /\ calls \in Nat /\ call \in [Threads -> Nat] /\ pc \in [Threads -> Pcs]
      /\ NoThread \notin Threads
  BY BoundsAreNat, ClientAssumption DEF TypeOK, ClientAssumption
<1>3. \A u \in Threads : pc[u] = "sendNl" => u = t
  BY <1>1 DEF WritersInvariant
<1>4. \A u \in Threads :
        /\ pc'[u] # "sendNl"
        /\ pc'[u] \in {"sendCheck", "sendText"} => u # t /\ pc'[u] = pc[u]
        /\ pc'[u] \in SendPcs => pc[u] \in SendPcs
  BY <1>1, <1>2, <1>3 DEF SendPcs
<1>5. \A u \in Threads : u # t => call[u] # call[t]
  BY <1>1, <1>2 DEF WritersInvariant, SendPcs
<1>6. \A k \in Files : \A i \in 1 .. Len(wire'[k]) :
        \/ i \in 1 .. Len(wire[k]) /\ wire'[k][i] = wire[k][i]
        \/ wire'[k][i].call = call[t]
  <2>1. CASE wire' = wire
    BY <2>1
  <2>2. CASE Put(call[t], "nl")
    <3> DEFINE g == Added(call[t], "nl")
    <3>0. call[t] \in 0 .. MaxCalls /\ "nl" \in Kinds
      BY DEF TypeOK, Kinds
    <3>1. \A k \in Files : \A i \in 1 .. Len(wire'[k]) :
            \/ i \in 1 .. Len(wire[k]) /\ wire'[k][i] = wire[k][i]
            \/ wire'[k][i] = g
      BY <2>2, <3>0, PutElements
    <3>2. g.call = call[t]
      BY DEF Added
    <3> HIDE DEF g
    <3> QED
      BY <3>1, <3>2
  <2> QED
    BY <2>1, <2>2 DEF SendNewline
<1>7. (\A u \in Threads : pc[u] = "sendNl" <=> writeMu = u)'
  BY <1>1, <1>2, <1>4
<1>8. (\A u \in Threads : call[u] <= calls)'
  BY <1>1 DEF WritersInvariant
<1>9. (\A u \in Threads : pc[u] \in SendPcs => call[u] # 0)'
  BY <1>1, <1>4 DEF WritersInvariant
<1>10. (\A u, v \in Threads : u # v /\ call[u] = call[v] => call[u] = 0)'
  BY <1>1 DEF WritersInvariant
<1>11. (\A k \in Files : \A i \in 1 .. Len(wire[k]) : wire[k][i].call <= calls)'
  BY <1>1, <1>6 DEF WritersInvariant
<1>12. (\A u \in Threads : pc[u] \in {"sendCheck", "sendText"} =>
         \A k \in Files : \A i \in 1 .. Len(wire[k]) : wire[k][i].call # call[u])'
  BY <1>1, <1>4, <1>5, <1>6 DEF WritersInvariant, SendPcs
<1>13. (\A u \in Threads : pc[u] = "sendNl" =>
         \A k \in Files : \A i \in 1 .. Len(wire[k]) :
           IsText(wire[k][i]) /\ wire[k][i].call = call[u] =>
             \A j \in i + 1 .. Len(wire[k]) : IsId(wire[k][j]))'
  BY <1>4
<1> QED
  BY <1>7, <1>8, <1>9, <1>10, <1>11, <1>12, <1>13 DEF WritersInvariant

\* Every other step is quiet.
LEMMA OthersAreQuiet ==
  ASSUME NEW t \in Threads, TypeOK,
         \/ ConnectSocket(t) \/ ConnectOpen(t) \/ ConnectStore(t) \/ ConnectTimed(t)
         \/ ConnectReply(t) \/ ConnectCut(t) \/ ConnectUntime(t) \/ ConnectRefuse(t)
         \/ ConnectVerify(t) \/ ConnectClose(t) \/ ConnectReset(t)
         \/ DisconnectCheck(t) \/ DisconnectReset(t) \/ DisconnectDown(t)
         \/ SendCheck(t)
         \/ ListenCheck(t) \/ ListenRead(t) \/ ListenData(t)
         \/ ListenLeaves(t) \/ HandlerDone(t) \/ Return(t) \/ ReturnError(t)
  PROVE  Quiet
<1> USE DEF slot, client, kernel, hub, local, threads
<1>1. /\ UNCHANGED <<wire, calls, call, writeMu>>
      /\ \E l \in Pcs \ SendPcs : pc' = [pc EXCEPT ![t] = l]
      /\ pc[t] # "sendNl"
      => Quiet
  BY DEF Quiet, TypeOK, SendPcs
<1>2. back[t] \in {"idle", "handle"} /\ pc \in [Threads -> Pcs] /\ call \in [Threads -> 0 .. MaxCalls]
  BY DEF TypeOK
<1>3. CASE ConnectSocket(t) \/ ConnectOpen(t) \/ ConnectStore(t) \/ ConnectTimed(t)
           \/ ConnectReply(t) \/ ConnectCut(t)
  BY <1>1, <1>3, PcsEnumerated DEF ConnectSocket, ConnectOpen, ConnectStore, ConnectTimed,
     ConnectReply, ConnectCut, Goto, SendPcs
<1>4. CASE ConnectUntime(t) \/ ConnectRefuse(t) \/ ConnectVerify(t)
             \/ ConnectClose(t) \/ ConnectReset(t)
  BY <1>1, <1>4, PcsEnumerated DEF ConnectUntime, ConnectRefuse, ConnectVerify, ConnectClose,
     ConnectReset, Goto, SendPcs
<1>5. CASE DisconnectCheck(t) \/ DisconnectReset(t) \/ DisconnectDown(t)
  BY <1>1, <1>5, PcsEnumerated DEF DisconnectCheck, DisconnectReset, DisconnectDown, Goto,
     SendPcs
<1>6. CASE SendCheck(t)
  BY <1>2, <1>6 DEF SendCheck, Goto, Quiet, SendPcs
<1>7. CASE ListenCheck(t) \/ ListenRead(t) \/ ListenData(t) \/ ListenLeaves(t) \/ HandlerDone(t)
  BY <1>1, <1>7, PcsEnumerated DEF ListenCheck, ListenRead, ListenData, ListenLeaves,
     HandlerDone, Goto, SendPcs
<1>8. ASSUME NEW r, Answer(t, r), pc[t] # "sendNl" PROVE Quiet
  BY <1>2, <1>8 DEF Answer, Goto, Quiet, SendPcs
<1>9. CASE Return(t) \/ ReturnError(t)
  <2>1. ASSUME pc[t] \in DOMAIN SecondLook, Goto(t, SecondLook[pc[t]]),
               UNCHANGED <<client, kernel, hub, local>>
        PROVE  Quiet
    BY <1>2, <2>1 DEF SecondLook, Goto, Quiet, SendPcs
  <2>2. pc[t] # "sendNl"
    BY <1>9 DEF Return, ReturnError, SecondLook
  <2> QED
    BY <1>8, <1>9, <2>1, <2>2 DEF Return, ReturnError
<1> QED
  BY <1>3, <1>4, <1>5, <1>6, <1>7, <1>9

LEMMA WritersInit == Init => WritersInvariant
<1> SUFFICES ASSUME Init PROVE WritersInvariant
  OBVIOUS
<1>1. /\ pc = [t \in Threads |-> "idle"] /\ call = [t \in Threads |-> 0] /\ calls = 0
      /\ wire = [k \in Files |-> <<>>] /\ writeMu = NoThread
  BY DEF Init
<1>2. NoThread \notin Threads
  BY ClientAssumption DEF ClientAssumption
<1> QED
  BY <1>1, <1>2 DEF WritersInvariant, SendPcs

LEMMA WritersStep == TypeOK /\ WritersInvariant /\ [Next]_vars => WritersInvariant'
<1> SUFFICES ASSUME TypeOK, WritersInvariant, [Next]_vars PROVE WritersInvariant'
  OBVIOUS
<1>1. ASSUME NEW t \in Threads,
             CallConnect(t) \/ CallDisconnect(t) \/ CallSend(t) \/ CallListen(t)
      PROVE  WritersInvariant'
  BY <1>1, EnterKeeps, PcsEnumerated DEF CallConnect, CallDisconnect, CallSend, CallListen
<1>2. ASSUME NEW t \in Threads, ConnectHello(t) \/ SendText(t) \/ SendNewline(t)
      PROVE  WritersInvariant'
  BY <1>2, HelloKeeps, TextKeeps, NewlineKeeps
<1>3. ASSUME NEW t \in Threads,
             \/ Connect(t) \/ Disconnect(t) \/ Send(t) \/ Listen(t)
             \/ Return(t) \/ ReturnError(t)
      PROVE  WritersInvariant'
  BY <1>1, <1>2, <1>3, OthersAreQuiet, QuietKeeps
  DEF Connect, Disconnect, Send, Listen, ListenEof, ListenCut
<1>4. CASE Destroy \/ Environment \/ UNCHANGED vars
  <2>1. UNCHANGED <<wire, calls, call, writeMu, pc>>
    BY <1>4 DEF Destroy, Environment, HubReply, HubSend, HubClose, ForeignOpen, ForeignClose,
       vars, slot, client, kernel, hub, local, threads
  <2>2. Quiet
    BY <2>1 DEF Quiet
  <2> QED
    BY <2>2, QuietKeeps
<1> QED
  BY <1>3, <1>4 DEF Next

\* The mutex is held exactly between the two writes of a message, and after a
\* text whose newline is still to come there are only node ids.
THEOREM WritersCorrect == Spec => []WritersInvariant
<1>1. Init => TypeOK /\ WritersInvariant
  BY TypeInit, WritersInit
<1>2. TypeOK /\ WritersInvariant /\ [Next]_vars => (TypeOK /\ WritersInvariant)'
  BY TypeStep, WritersStep
<1> QED
  BY <1>1, <1>2, PTL DEF Spec

----------------------------------------------------------------------------
(* No interleaving *)

LEMMA InterleavingStep ==
  TypeOK /\ WritersInvariant /\ NoInterleaving /\ [Next]_vars => NoInterleaving'
<1> SUFFICES ASSUME TypeOK, WritersInvariant, NoInterleaving, [Next]_vars
             PROVE  NoInterleaving'
  OBVIOUS
<1>1. CASE wire' = wire
  BY <1>1 DEF NoInterleaving, IsText, IsId
<1>2. ASSUME NEW t \in Threads, NEW n \in 0 .. MaxCalls, NEW kind \in Kinds, Put(n, kind),
             kind = "nl" => pc[t] = "sendNl" /\ n = call[t]
      PROVE  NoInterleaving'
  <2> SUFFICES ASSUME NEW k \in Files, NEW i \in 1 .. Len(wire'[k]),
                      NEW j \in 1 .. Len(wire'[k]),
                      i < j, IsText(wire'[k][i]), wire'[k][j].kind = "nl",
                      wire'[k][i].call = wire'[k][j].call,
                      NEW m \in i + 1 .. j - 1
               PROVE  IsId(wire'[k][m])
    BY DEF NoInterleaving, IsText, IsId
  <2> DEFINE g == Added(n, kind)
  <2>1. Len(wire[k]) \in Nat /\ Len(wire'[k]) \in Nat
    BY <1>2, FragmentFacts, PutAppends
  <2>2. \A e \in 1 .. Len(wire'[k]) :
          \/ e \in 1 .. Len(wire[k]) /\ wire'[k][e] = wire[k][e]
          \/ e = Len(wire'[k]) /\ e = Len(wire[k]) + 1 /\ wire'[k][e] = g
    BY <1>2, PutElements
  <2>3. g.kind = kind /\ g.call = n
    BY DEF Added
  <2> HIDE DEF g
  <2>4. /\ i \in 1 .. Len(wire[k]) /\ wire'[k][i] = wire[k][i]
        /\ m \in 1 .. Len(wire[k]) /\ wire'[k][m] = wire[k][m]
    BY <2>1, <2>2
  <2>5. CASE j \in 1 .. Len(wire[k]) /\ wire'[k][j] = wire[k][j]
    BY <2>4, <2>5 DEF NoInterleaving
  <2>6. CASE j = Len(wire[k]) + 1 /\ wire'[k][j] = g
    <3>1. pc[t] = "sendNl" /\ wire[k][i].call = call[t] /\ IsText(wire[k][i])
      BY <1>2, <2>3, <2>4, <2>6 DEF IsText
    <3>2. m \in i + 1 .. Len(wire[k])
      BY <2>1, <2>4
    <3> QED
      BY <2>4, <3>1, <3>2 DEF WritersInvariant
  <2> QED
    BY <2>2, <2>5, <2>6
<1>3. ASSUME NEW t \in Threads,
             \/ Connect(t) \/ Disconnect(t) \/ Send(t) \/ Listen(t)
             \/ Return(t) \/ ReturnError(t)
      PROVE  NoInterleaving'
  <2>1. CASE CallConnect(t) \/ CallDisconnect(t) \/ CallSend(t) \/ CallListen(t)
    <3>1. wire' = wire
      BY <2>1 DEF CallConnect, CallDisconnect, CallSend, CallListen, Enter, kernel
    <3> QED
      BY <1>1, <3>1
  <2>2. CASE ConnectHello(t)
    BY <1>1, <1>2, <2>2, BoundsAreNat DEF ConnectHello, Kinds
  <2>3. CASE SendText(t)
    <3>1. call[t] \in 0 .. MaxCalls /\ Texts \cup {"part"} \subseteq Kinds \ {"nl"}
      BY TextsType DEF TypeOK, Kinds
    <3>2. wire' = wire \/ \E kind \in Texts \cup {"part"} : Put(call[t], kind)
      BY <2>3 DEF SendText
    <3> QED
      BY <1>1, <1>2, <3>1, <3>2
  <2>4. CASE SendNewline(t)
    BY <1>1, <1>2, <2>4 DEF SendNewline, Kinds, TypeOK
  <2>5. ASSUME Quiet PROVE NoInterleaving'
    BY <1>1, <2>5 DEF Quiet
  <2> QED
    BY <1>3, <2>1, <2>2, <2>3, <2>4, <2>5, OthersAreQuiet
    DEF Connect, Disconnect, Send, Listen, ListenEof, ListenCut
<1>4. CASE Destroy \/ Environment \/ UNCHANGED vars
  <2>1. wire' = wire
    BY <1>4 DEF Destroy, Environment, HubReply, HubSend, HubClose, ForeignOpen, ForeignClose,
       vars, slot, client, kernel, hub, local, threads
  <2> QED
    BY <1>1, <2>1
<1> QED
  BY <1>3, <1>4 DEF Next

\* No message of one thread comes between the text and the newline of another
\* thread's message on one file, for any number of threads and descriptors,
\* however sends race with connects, disconnects and closes.
THEOREM MessagesNotInterleaved == Spec => []NoInterleaving
<1>1. Init => TypeOK /\ WritersInvariant /\ NoInterleaving
  <2>1. Init => wire = [k \in Files |-> <<>>]
    BY DEF Init
  <2>2. wire = [k \in Files |-> <<>>] => NoInterleaving
    BY DEF NoInterleaving
  <2> QED
    BY <2>1, <2>2, TypeInit, WritersInit
<1>2. TypeOK /\ WritersInvariant /\ NoInterleaving /\ [Next]_vars
        => (TypeOK /\ WritersInvariant /\ NoInterleaving)'
  BY TypeStep, WritersStep, InterleavingStep
<1> QED
  BY <1>1, <1>2, PTL DEF Spec


----------------------------------------------------------------------------
(* Callers that keep connect and disconnect apart *)

\* The promise of the callers, and the guards of client.go on Connect and
\* Disconnect.
Promise == Alone /\ Binding = "go"

LEMMA FileFacts ==
  /\ NoFd \notin Fds
  /\ Free \notin Conns /\ Foreign \notin Conns /\ Unbound \notin Conns
  /\ Foreign # Free /\ Unbound # Free /\ Unbound # Foreign
  /\ Files = Conns \cup {Foreign, Unbound}
BY ClientAssumption, BoundsAreNat
DEF ClientAssumption, NoFd, Free, Foreign, Unbound, Conns, Files

\* The calls of connect and disconnect while they run.
Working == ConnectPcs \cup DisconnectPcs

LEMMA PcFacts ==
  /\ "idle" \notin LifecyclePcs /\ "handle" \notin LifecyclePcs
  /\ SendPcs \cap LifecyclePcs = {} /\ ListenPcs \cap LifecyclePcs = {}
  /\ LifecyclePcs = Working \cup {"lifeRet", "lifeCode"}
  /\ "lifeRet" \notin Working /\ "lifeCode" \notin Working
  /\ ConnectPcs \cap DisconnectPcs = {}
  /\ LifecyclePcs \subseteq Pcs
BY DEF Working, Pcs, LifecyclePcs, ConnectPcs, DisconnectPcs, SendPcs, ListenPcs

----------------------------------------------------------------------------
(* The connection: its inductive invariant *)

\* A thread in connect or disconnect is the only one in the library.
Exclusive ==
  \A t, u \in Threads : t # u /\ pc[t] \in LifecyclePcs => pc[u] = "idle"

\* socketFd refers to a connection of the client; or to an entry that was
\* closed and may be a file of the application by now.
Holds == Target \in Conns
Lost  == socketFd # NoFd /\ Target \notin Conns

\* A connection before the node id is written; after it and before the answer
\* is read; and after an OK was read.
Fresh(c) == wire[c] = <<>> /\ down[c] = <<>> /\ reply[c] = "none"

Greeted(c) ==
  /\ Len(wire[c]) = 1
  /\ reply[c] = "none" => down[c] = <<>>
  /\ reply[c] # "none" =>
       /\ down[c] # <<>> /\ down[c][1] = reply[c]
       /\ \A i \in 2 .. Len(down[c]) : down[c][i] = "msg"

Accepted(c) ==
  /\ reply[c] = "ok"
  /\ \A i \in 1 .. Len(down[c]) : down[c][i] = "msg"

\* A client that is connected has an accepted connection without a timeout, and
\* one that is not has no socket.
Rest ==
  /\ connected <=> socketFd # NoFd
  /\ connected => Holds /\ Accepted(Target) /\ Target \notin timed

\* The library's entries of the table are behind socketFd or a local fd, and
\* what is still to be opened is untouched.
Own ==
  /\ \A f \in Fds : \/ fdTable[f] \in {Free, Foreign}
                    \/ f = socketFd
                    \/ \E t \in Threads : newFd[t] = f
  /\ Target # Unbound
  /\ \A f \in Fds : fdTable[f] \in Conns => fdTable[f] <= nConns
  /\ \A c \in Conns : c > nConns => Fresh(c)

\* The file behind the local fd of a connect.
NewFile(t) == fdTable[newFd[t]]

\* How far a connect or disconnect has come.
Stage(t) ==
  /\ pc[t] \in ConnectPcs => ~connected
  /\ pc[t] \in DisconnectPcs => connected
  /\ newFd[t] # NoFd <=> pc[t] \in {"connOpen", "connStore"}
  /\ pc[t] \in {"connSocket", "connOpen", "connStore", "discDown"} => socketFd = NoFd
  /\ pc[t] = "connOpen" => NewFile(t) = Unbound
  /\ pc[t] = "connStore" => NewFile(t) \in Conns /\ Fresh(NewFile(t))
  /\ pc[t] \in {"connTimed", "connHello", "connReply", "connUntime", "connUntimeNo",
                "connRefuse", "connVerify", "connClose", "discCheck"} => Holds
  /\ pc[t] \in {"connReset", "discReset"} => Lost
  /\ pc[t] \in {"connSocket", "connOpen", "connStore", "connTimed", "connHello",
                "connReply", "connUntime", "connUntimeNo", "connRefuse"} => errorCode = ""
  /\ pc[t] \in {"connTimed", "connHello"} => Fresh(Target)
  /\ pc[t] = "connReply" => Greeted(Target)
  /\ pc[t] \in {"connUntime", "connVerify"} /\ errorCode = "" =>
       Accepted(Target) /\ Len(wire[Target]) = 1
  /\ pc[t] = "connVerify" /\ errorCode = "" => Target \notin timed

\* A thread that writes or waits for data does so on a connected client.
Uses(t) ==
  /\ pc[t] \in {"sendText", "sendNl"} => connected
  /\ pc[t] = "reading" => connected /\ hold[t] = Target

\* Between connects and disconnects.
Settled == (\A t \in Threads : pc[t] \notin Working) => Rest

ConnInv ==
  /\ Exclusive
  /\ Own
  /\ \A t \in Threads : Stage(t) /\ Uses(t)
  /\ Settled

LEMMA ConnInit == Init => ConnInv
<1> SUFFICES ASSUME Init PROVE ConnInv
  OBVIOUS
<1>1. \A t \in Threads : pc[t] = "idle" /\ newFd[t] = NoFd
  BY DEF Init
<1>2. Exclusive /\ \A t \in Threads : Stage(t) /\ Uses(t)
  BY <1>1 DEF Exclusive, Stage, Uses, LifecyclePcs, ConnectPcs, DisconnectPcs
<1>3. Own
  BY FileFacts DEF Init, Own, Fresh, Target
<1>4. Settled
  BY DEF Init, Settled, Rest
<1> QED
  BY <1>2, <1>3, <1>4 DEF ConnInv

\* While one thread connects or disconnects no other has a local fd.
LEMMA OthersHaveNoFd ==
  ASSUME NEW t \in Threads, ConnInv, pc[t] \in LifecyclePcs
  PROVE  \A u \in Threads : u # t => pc[u] = "idle" /\ newFd[u] = NoFd
<1> SUFFICES ASSUME NEW u \in Threads, u # t PROVE pc[u] = "idle" /\ newFd[u] = NoFd
  OBVIOUS
<1>1. pc[u] = "idle"
  BY DEF ConnInv, Exclusive
<1>2. Stage(u)
  BY DEF ConnInv
<1> QED
  BY <1>1, <1>2 DEF Stage

\* A step of a thread that connects or disconnects disturbs no other thread.
LEMMA LifecycleFrame ==
  ASSUME NEW t \in Threads, NEW l \in LifecyclePcs \cup {"idle", "handle"}, TypeOK, ConnInv,
         pc[t] \in LifecyclePcs, Goto(t, l),
         \A u \in Threads : u # t => newFd'[u] = newFd[u],
         Own', pc'[t] = l => Stage(t)', l \notin Working => Rest'
  PROVE  ConnInv'
<1>1. pc' = [pc EXCEPT ![t] = l] /\ pc \in [Threads -> Pcs]
  BY DEF Goto, TypeOK
<1>2. pc'[t] = l /\ \A u \in Threads : u # t => pc'[u] = "idle" /\ newFd'[u] = NoFd
  BY <1>1, OthersHaveNoFd
<1>3. \A u \in Threads : u # t => (Stage(u) /\ Uses(u))'
  BY <1>2 DEF Stage, Uses, ConnectPcs, DisconnectPcs
<1>4. Exclusive'
  BY <1>2, PcFacts DEF Exclusive
<1>5. Uses(t)'
  BY <1>2 DEF Uses, LifecyclePcs, ConnectPcs, DisconnectPcs
<1>6. Settled'
  BY <1>2 DEF Settled
<1> QED
  BY <1>2, <1>3, <1>4, <1>5, <1>6 DEF ConnInv

\* What keeps Own when the table and the descriptors stay.
LEMMA OwnStays ==
  ASSUME TypeOK, Own, UNCHANGED <<fdTable, socketFd, newFd, nConns>>,
         \A c \in Conns : c > nConns => Fresh(c)'
  PROVE  Own' /\ Target' = Target
BY DEF Own, Target

----------------------------------------------------------------------------
(* The calls begin *)

LEMMA ConnEnter ==
  ASSUME NEW t \in Threads, Promise, TypeOK, ConnInv,
         CallConnect(t) \/ CallDisconnect(t) \/ CallSend(t) \/ CallListen(t)
  PROVE  ConnInv'
<1>1. /\ UNCHANGED <<connected, socketFd, fdTable, wire, down, nConns, timed, reply, hold, newFd>>
      /\ errorCode' = "" /\ pc[t] \in {"idle", "handle"}
  BY DEF CallConnect, CallDisconnect, CallSend, CallListen, MayEnter, Enter, kernel, hub
<1>2. Target' = Target /\ (Holds' <=> Holds) /\ (Rest <=> Rest')
      /\ \A c : (Fresh(c)' <=> Fresh(c)) /\ (Accepted(c)' <=> Accepted(c))
  BY <1>1 DEF Target, Holds, Fresh, Accepted, Rest
<1>3. Own'
  BY <1>1, <1>2, OwnStays DEF ConnInv, Own
<1>4. pc \in [Threads -> Pcs] /\ pc[t] \notin LifecyclePcs /\ newFd[t] = NoFd
  BY <1>1, PcFacts DEF TypeOK, ConnInv, Stage
<1>5. ASSUME NEW l \in {"connSocket", "discCheck"}, pc' = [pc EXCEPT ![t] = l],
             \A u \in Threads \ {t} : pc[u] = "idle",
             l = "connSocket" <=> ~connected
      PROVE  ConnInv'
  <2>1. \A u \in Threads : pc[u] \notin Working
    BY <1>4, <1>5, PcFacts
  <2>2. Rest
    BY <2>1 DEF ConnInv, Settled
  <2>3. pc'[t] = l /\ \A u \in Threads : u # t => pc'[u] = "idle" /\ pc[u] = "idle"
    BY <1>4, <1>5
  <2>4. Exclusive'
    BY <2>3, PcFacts DEF Exclusive
  <2>5. \A u \in Threads : u # t => (Stage(u) /\ Uses(u))'
    <3> SUFFICES ASSUME NEW u \in Threads, u # t PROVE (Stage(u) /\ Uses(u))'
      OBVIOUS
    <3>1. newFd[u] = NoFd
      BY <2>3 DEF ConnInv, Stage
    <3> QED
      BY <1>1, <2>3, <3>1 DEF Stage, Uses, ConnectPcs, DisconnectPcs
  <2>6. Stage(t)' /\ Uses(t)'
    BY <1>1, <1>2, <1>4, <1>5, <2>2, <2>3 DEF Stage, Uses, ConnectPcs, DisconnectPcs, Rest
  <2>7. Settled'
    BY <2>3 DEF Settled, Working, ConnectPcs, DisconnectPcs
  <2> QED
    BY <1>3, <2>3, <2>4, <2>5, <2>6, <2>7 DEF ConnInv
<1>6. ASSUME NEW l \in {"sendCheck", "listenCheck"}, pc' = [pc EXCEPT ![t] = l],
             \A u \in Threads \ {t} : pc[u] \notin LifecyclePcs
      PROVE  ConnInv'
  <2>1. \A u \in Threads : pc[u] \notin LifecyclePcs /\ pc'[u] \notin LifecyclePcs
    BY <1>4, <1>6 DEF LifecyclePcs, ConnectPcs, DisconnectPcs
  <2>2. Exclusive'
    BY <2>1 DEF Exclusive
  <2>3. \A u \in Threads : Stage(u)' /\ Uses(u)'
    <3> SUFFICES ASSUME NEW u \in Threads PROVE Stage(u)' /\ Uses(u)'
      OBVIOUS
    <3>1. newFd'[u] = NoFd
      BY <1>1, <2>1 DEF ConnInv, Stage, LifecyclePcs, ConnectPcs
    <3>2. Stage(u)'
      BY <2>1, <3>1 DEF Stage, LifecyclePcs, ConnectPcs, DisconnectPcs
    <3>3. Uses(u)'
      BY <1>1, <1>2, <1>4, <1>6 DEF ConnInv, Uses
    <3> QED
      BY <3>2, <3>3
  <2>4. Settled'
    BY <1>2, <2>1, PcFacts DEF ConnInv, Settled
  <2> QED
    BY <1>3, <2>2, <2>3, <2>4 DEF ConnInv
<1>7. CASE CallConnect(t) \/ CallDisconnect(t)
  <2>1. \A u \in Threads \ {t} : pc[u] = "idle"
    BY <1>7 DEF CallConnect, CallDisconnect, MayEnter, Promise
  <2>2. \/ pc' = [pc EXCEPT ![t] = "connSocket"] /\ ~connected
        \/ pc' = [pc EXCEPT ![t] = "discCheck"] /\ connected
    BY <1>7 DEF CallConnect, CallDisconnect, Enter, Goto, Promise
  <2> QED
    BY <1>5, <2>1, <2>2
<1>8. CASE CallSend(t) \/ CallListen(t)
  BY <1>6, <1>8 DEF CallSend, CallListen, MayEnter, Enter, Goto, Promise
<1> QED
  BY <1>7, <1>8

----------------------------------------------------------------------------
(* connect *)

LEMMA ConnSocketKeeps ==
  ASSUME NEW t \in Threads, TypeOK, ConnInv, ConnectSocket(t)
  PROVE  ConnInv'
<1>1. /\ pc[t] = "connSocket" /\ pc[t] \in LifecyclePcs
      /\ UNCHANGED <<connected, socketFd, wire, down, nConns, timed, reply>>
  BY DEF ConnectSocket, hub, LifecyclePcs, ConnectPcs
<1>2. ~connected /\ socketFd = NoFd /\ errorCode = "" /\ newFd[t] = NoFd
  BY <1>1 DEF ConnInv, Stage, ConnectPcs
<1>3. Own
  BY DEF ConnInv
<1>4. CASE Goto(t, "lifeRet") /\ UNCHANGED <<fdTable, newFd>>
  <2>1. Own'
    BY <1>1, <1>3, <1>4, OwnStays DEF Own, Fresh
  <2>2. pc'[t] = "lifeRet" => Stage(t)'
    BY <1>2, <1>4 DEF Stage, ConnectPcs, DisconnectPcs
  <2>3. Rest'
    BY <1>1, <1>2 DEF Rest
  <2> QED
    BY <1>1, <1>4, <2>1, <2>2, <2>3, LifecycleFrame DEF LifecyclePcs
<1>5. ASSUME NEW f \in Fds, fdTable[f] = Free, fdTable' = [fdTable EXCEPT ![f] = Unbound],
             newFd' = [newFd EXCEPT ![t] = f], Goto(t, "connOpen"), UNCHANGED slot
      PROVE  ConnInv'
  <2>1. /\ newFd'[t] = f /\ f # NoFd /\ fdTable'[f] = Unbound
        /\ \A u \in Threads : u # t => newFd'[u] = newFd[u]
        /\ \A g \in Fds : g # f => fdTable'[g] = fdTable[g]
    BY <1>5, FileFacts DEF TypeOK
  <2>2. Own'
    <3>1. \A g \in Fds : \/ fdTable'[g] \in {Free, Foreign} \/ g = socketFd'
                         \/ \E u \in Threads : newFd'[u] = g
      <4> SUFFICES ASSUME NEW g \in Fds, g # f, fdTable'[g] \notin {Free, Foreign}
                   PROVE  \E u \in Threads : newFd'[u] = g
        BY <2>1
      <4>1. PICK u \in Threads : newFd[u] = g
        BY <1>2, <1>3, <2>1, FileFacts DEF Own
      <4>2. u # t
        BY <1>2, <4>1, FileFacts
      <4> QED
        BY <2>1, <4>1, <4>2
    <3>2. Target' # Unbound
      BY <1>1, <1>2, FileFacts DEF Target
    <3>3. \A g \in Fds : fdTable'[g] \in Conns => fdTable'[g] <= nConns'
      BY <1>1, <1>3, <2>1, FileFacts DEF Own
    <3>4. \A c \in Conns : c > nConns' => Fresh(c)'
      BY <1>1, <1>3 DEF Own, Fresh
    <3> QED
      BY <3>1, <3>2, <3>3, <3>4 DEF Own
  <2>3. pc'[t] = "connOpen" => Stage(t)'
    BY <1>1, <1>2, <1>5, <2>1 DEF Stage, NewFile, ConnectPcs, DisconnectPcs, slot
  <2> QED
    BY <1>1, <1>5, <2>1, <2>2, <2>3, LifecycleFrame DEF LifecyclePcs, ConnectPcs, Working
<1> QED
  BY <1>4, <1>5 DEF ConnectSocket

LEMMA ConnOpenKeeps ==
  ASSUME NEW t \in Threads, TypeOK, ConnInv, ConnectOpen(t)
  PROVE  ConnInv'
<1> DEFINE f == newFd[t]
<1>1. /\ pc[t] = "connOpen" /\ pc[t] \in LifecyclePcs
      /\ UNCHANGED <<connected, socketFd, wire, down, timed, reply>>
  BY DEF ConnectOpen, LifecyclePcs, ConnectPcs
<1>2. /\ ~connected /\ socketFd = NoFd /\ errorCode = ""
      /\ f \in Fds /\ fdTable[f] = Unbound
  BY <1>1, FileFacts DEF ConnInv, Stage, ConnectPcs, NewFile, TypeOK
<1>3. Own
  BY DEF ConnInv
<1>4. \A g \in Fds : g # f => fdTable[g] \in {Free, Foreign}
  <2>1. \A u \in Threads : u # t => newFd[u] = NoFd
    BY <1>1, OthersHaveNoFd
  <2> QED
    BY <1>2, <1>3, <2>1, FileFacts DEF Own
<1>5. CASE /\ fdTable' = AfterClose(f) /\ newFd' = [newFd EXCEPT ![t] = NoFd]
           /\ Goto(t, "lifeRet") /\ UNCHANGED <<nConns, open>>
  <2>1. newFd'[t] = NoFd /\ \A u \in Threads : u # t => newFd'[u] = newFd[u]
    BY <1>5 DEF TypeOK
  <2>2. \A g \in Fds : fdTable'[g] \in {Free, Foreign}
    BY <1>4, <1>5 DEF AfterClose
  <2>3. Own'
    BY <1>1, <1>2, <1>3, <1>5, <2>2, FileFacts DEF Own, Target, Fresh
  <2>4. pc'[t] = "lifeRet" => Stage(t)'
    BY <2>1 DEF Stage, ConnectPcs, DisconnectPcs
  <2>5. Rest'
    BY <1>1, <1>2 DEF Rest
  <2> QED
    BY <1>1, <1>5, <2>1, <2>3, <2>4, <2>5, LifecycleFrame DEF LifecyclePcs
<1>6. CASE /\ nConns < MaxConns /\ fdTable' = [fdTable EXCEPT ![f] = nConns + 1]
           /\ nConns' = nConns + 1 /\ Goto(t, "connStore") /\ UNCHANGED <<slot, newFd>>
  <2>1. nConns \in 0 .. MaxConns /\ nConns + 1 \in Conns /\ nConns + 1 > nConns
    BY <1>6, ConnsAreFiles, BoundsAreNat DEF TypeOK
  <2>2. fdTable'[f] = nConns + 1 /\ \A g \in Fds : g # f => fdTable'[g] = fdTable[g]
    BY <1>2, <1>6 DEF TypeOK
  <2>3. Fresh(nConns + 1)
    BY <1>3, <2>1 DEF Own
  <2>4. Own'
    <3>1. Target' # Unbound
      BY <1>1, <1>2, FileFacts DEF Target
    <3>2. \A g \in Fds : fdTable'[g] \in Conns => fdTable'[g] <= nConns'
      BY <1>4, <1>6, <2>1, <2>2, FileFacts, BoundsAreNat
    <3>3. \A c \in Conns : c > nConns' => c > nConns
      BY <1>6, <2>1, BoundsAreNat DEF Conns
    <3>4. \A c \in Conns : c > nConns' => Fresh(c)'
      BY <1>1, <1>3, <3>3 DEF Own, Fresh
    <3>5. \A g \in Fds : \/ fdTable'[g] \in {Free, Foreign} \/ g = socketFd'
                         \/ \E u \in Threads : newFd'[u] = g
      BY <1>4, <1>6, <2>2
    <3> QED
      BY <3>1, <3>2, <3>4, <3>5 DEF Own
  <2>5. NewFile(t)' \in Conns /\ Fresh(NewFile(t))'
    BY <1>1, <1>6, <2>1, <2>2, <2>3 DEF NewFile, Fresh
  <2>6. pc'[t] = "connStore" => Stage(t)'
    BY <1>1, <1>2, <1>6, <2>5, FileFacts DEF Stage, ConnectPcs, DisconnectPcs, slot
  <2> QED
    BY <1>1, <1>6, <2>4, <2>6, LifecycleFrame DEF LifecyclePcs, ConnectPcs, Working
<1> QED
  BY <1>5, <1>6 DEF ConnectOpen

LEMMA ConnStoreKeeps ==
  ASSUME NEW t \in Threads, TypeOK, ConnInv, ConnectStore(t)
  PROVE  ConnInv'
<1> DEFINE f == newFd[t]
<1>1. /\ pc[t] = "connStore" /\ pc[t] \in LifecyclePcs /\ Goto(t, "connTimed")
      /\ UNCHANGED <<connected, fdTable, wire, down, nConns, timed, reply, errorCode>>
      /\ socketFd' = f /\ newFd' = [newFd EXCEPT ![t] = NoFd]
  BY DEF ConnectStore, LifecyclePcs, ConnectPcs, kernel, hub, slot
<1>2. /\ ~connected /\ socketFd = NoFd /\ errorCode = ""
      /\ f \in Fds /\ fdTable[f] \in Conns /\ Fresh(fdTable[f])
  BY <1>1, FileFacts DEF ConnInv, Stage, ConnectPcs, NewFile, TypeOK
<1>3. Own
  BY DEF ConnInv
<1>4. newFd'[t] = NoFd /\ \A u \in Threads : u # t => newFd'[u] = newFd[u]
  BY <1>1 DEF TypeOK
<1>5. Target' = fdTable[f] /\ Holds' /\ Fresh(Target)'
  BY <1>1, <1>2, FileFacts DEF Target, Holds, Fresh
<1>6. Own'
  <2>1. \A g \in Fds : \/ fdTable'[g] \in {Free, Foreign} \/ g = socketFd'
                       \/ \E u \in Threads : newFd'[u] = g
    BY <1>1, <1>2, <1>3, <1>4, FileFacts DEF Own
  <2>2. Target' # Unbound
    BY <1>2, <1>5, FileFacts
  <2> QED
    BY <1>1, <1>3, <2>1, <2>2 DEF Own, Fresh
<1>7. pc'[t] = "connTimed" => Stage(t)'
  BY <1>1, <1>2, <1>4, <1>5 DEF Stage, ConnectPcs, DisconnectPcs
<1> QED
  BY <1>1, <1>4, <1>6, <1>7, LifecycleFrame DEF LifecyclePcs, ConnectPcs, Working

LEMMA HoldsFacts ==
  ASSUME TypeOK, Own, Holds
  PROVE  /\ socketFd \in Fds /\ socketFd # NoFd
         /\ Target = fdTable[socketFd] /\ Target \in Conns /\ Target <= nConns
BY FileFacts DEF Holds, Own, Target, TypeOK

\* A connection that is behind socketFd is not one that is still to be opened.
LEMMA TargetIsOpened ==
  ASSUME TypeOK, Own, Holds, NEW c \in Conns, c > nConns
  PROVE  c # Target
<1>1. Target \in Conns /\ Target <= nConns
  BY HoldsFacts
<1> QED
  BY <1>1, BoundsAreNat DEF TypeOK, Conns

LEMMA TailFacts ==
  ASSUME NEW S, NEW s \in Seq(S), s # <<>>
  PROVE  /\ Len(s) \in Nat \ {0} /\ Len(Tail(s)) = Len(s) - 1
         /\ Head(s) = s[1]
         /\ \A i \in 1 .. Len(s) - 1 : Tail(s)[i] = s[i + 1]
BY EmptySeq, HeadTailProperties

\* The steps of handshake that set the timeout, and the one that only reports.
LEMMA ConnTimedKeeps ==
  ASSUME NEW t \in Threads, TypeOK, ConnInv,
         ConnectTimed(t) \/ ConnectUntime(t) \/ ConnectRefuse(t)
  PROVE  ConnInv'
<1>1. /\ pc[t] \in {"connTimed", "connUntime", "connUntimeNo", "connRefuse"}
      /\ pc[t] \in LifecyclePcs
      /\ UNCHANGED <<connected, socketFd, fdTable, newFd, wire, down, nConns, reply>>
  BY DEF ConnectTimed, ConnectUntime, ConnectRefuse, LifecyclePcs, ConnectPcs,
     slot, client, kernel, hub, local
<1>2. ~connected /\ Holds /\ errorCode = "" /\ newFd[t] = NoFd
  BY <1>1 DEF ConnInv, Stage, ConnectPcs
<1>3. Own
  BY DEF ConnInv
<1>4. Own' /\ Target' = Target
  <2>1. \A c \in Conns : c > nConns => Fresh(c)'
    BY <1>1, <1>3 DEF Own, Fresh
  <2> QED
    BY <1>1, <1>3, <2>1, OwnStays
<1>5. /\ Holds' /\ (Fresh(Target) => Fresh(Target)')
      /\ Accepted(Target) => Accepted(Target)'
  BY <1>1, <1>2, <1>4 DEF Holds, Fresh, Accepted
<1>6. CASE ConnectTimed(t)
  <2>1. Goto(t, "connHello") /\ Fresh(Target) /\ errorCode' = errorCode
    BY <1>6 DEF ConnectTimed, ConnInv, Stage, client, slot
  <2>2. pc'[t] = "connHello" => Stage(t)'
    BY <1>1, <1>2, <1>4, <1>5, <2>1 DEF Stage, ConnectPcs, DisconnectPcs
  <2> QED
    BY <1>1, <1>4, <2>1, <2>2, LifecycleFrame DEF LifecyclePcs, ConnectPcs, Working
<1>7. CASE ConnectUntime(t)
  <2>1. /\ errorCode' = errorCode /\ Target \notin timed'
        /\ \/ pc[t] = "connUntime" /\ Goto(t, "connVerify")
           \/ pc[t] = "connUntimeNo" /\ Goto(t, "connRefuse")
    BY <1>7 DEF ConnectUntime, client, slot
  <2>2. pc[t] = "connUntime" => Accepted(Target) /\ Len(wire[Target]) = 1
    BY <1>2 DEF ConnInv, Stage
  <2>3. \A l \in {"connVerify", "connRefuse"} :
          pc'[t] = l /\ (l = "connVerify" => pc[t] = "connUntime") => Stage(t)'
    BY <1>1, <1>2, <1>4, <1>5, <2>1, <2>2 DEF Stage, ConnectPcs, DisconnectPcs
  <2> QED
    BY <1>1, <1>4, <2>1, <2>3, LifecycleFrame DEF LifecyclePcs, ConnectPcs, Working
<1>8. CASE ConnectRefuse(t)
  <2>1. Goto(t, "connVerify") /\ errorCode' = "HandshakeFailed"
    BY <1>8 DEF ConnectRefuse, Fail
  <2>2. pc'[t] = "connVerify" => Stage(t)'
    BY <1>1, <1>2, <1>4, <1>5, <2>1 DEF Stage, ConnectPcs, DisconnectPcs
  <2> QED
    BY <1>1, <1>4, <2>1, <2>2, LifecycleFrame DEF LifecyclePcs, ConnectPcs, Working
<1> QED
  BY <1>6, <1>7, <1>8

LEMMA ConnHelloKeeps ==
  ASSUME NEW t \in Threads, TypeOK, ConnInv, ConnectHello(t)
  PROVE  ConnInv'
<1>1. /\ pc[t] = "connHello" /\ pc[t] \in LifecyclePcs
      /\ UNCHANGED <<connected, socketFd, fdTable, down, nConns, timed, reply, newFd>>
  BY DEF ConnectHello, LifecyclePcs, ConnectPcs, hub, local
<1>2. ~connected /\ Holds /\ errorCode = "" /\ Fresh(Target) /\ newFd[t] = NoFd
  BY <1>1 DEF ConnInv, Stage, ConnectPcs
<1>3. Own
  BY DEF ConnInv
<1>4. PICK l \in {"connReply", "connVerify"} :
        /\ Goto(t, l)
        /\ \/ /\ l = "connReply" /\ errorCode' = errorCode
              /\ Put(0, "id") \/ Put(0, "idPart")
           \/ l = "connVerify" /\ errorCode' = "HandshakeFailed" /\ wire' = wire
  BY DEF ConnectHello, Fail, slot
<1>5. Own' /\ Target' = Target
  <2>1. \A c \in Conns : c # Target => wire'[c] = wire[c]
    BY <1>4, FileFacts DEF Put, TypeOK
  <2>2. \A c \in Conns : c > nConns => Fresh(c)'
    BY <1>1, <1>2, <1>3, <2>1, TargetIsOpened DEF Own, Fresh
  <2> QED
    BY <1>1, <1>3, <2>2, OwnStays
<1>6. Holds'
  BY <1>2, <1>5 DEF Holds
<1>7. l = "connReply" => Greeted(Target)'
  <2> SUFFICES ASSUME l = "connReply" PROVE Greeted(Target)'
    OBVIOUS
  <2>1. wire[Target] = <<>> /\ Target \in Files
    BY <1>2, FileFacts DEF Fresh, Holds
  <2>2. Len(wire'[Target]) = 1
    BY <1>4, <2>1 DEF Put, TypeOK
  <2> QED
    BY <1>1, <1>2, <1>5, <2>2 DEF Fresh, Greeted
<1>8. pc'[t] = l => Stage(t)'
  BY <1>1, <1>2, <1>4, <1>6, <1>7 DEF Stage, ConnectPcs, DisconnectPcs
<1> QED
  BY <1>1, <1>4, <1>5, <1>8, LifecycleFrame DEF LifecyclePcs, ConnectPcs, Working

LEMMA ConnReplyKeeps ==
  ASSUME NEW t \in Threads, TypeOK, ConnInv, ConnectReply(t) \/ ConnectCut(t)
  PROVE  ConnInv'
<1>1. /\ pc[t] = "connReply" /\ pc[t] \in LifecyclePcs
      /\ UNCHANGED <<connected, socketFd, fdTable, wire, nConns, timed, reply, newFd>>
  BY DEF ConnectReply, ConnectCut, LifecyclePcs, ConnectPcs, hub, kernel, local
<1>2. ~connected /\ Holds /\ errorCode = "" /\ Greeted(Target) /\ newFd[t] = NoFd
  BY <1>1 DEF ConnInv, Stage, ConnectPcs
<1>3. Own
  BY DEF ConnInv
<1>4. \/ /\ down[Target] # <<>> /\ down' = [down EXCEPT ![Target] = Tail(@)]
         /\ errorCode' = errorCode
         /\ \/ Head(down[Target]) = "ok" /\ Goto(t, "connUntime")
            \/ Goto(t, "connUntimeNo")
      \/ errorCode' = "HandshakeFailed" /\ down' = down /\ Goto(t, "connVerify")
  BY DEF ConnectReply, ConnectCut, Fail, slot, kernel
<1>5. Own' /\ Target' = Target
  <2>1. \A c \in Conns : c # Target => down'[c] = down[c]
    BY <1>4 DEF TypeOK
  <2>2. \A c \in Conns : c > nConns => Fresh(c)'
    BY <1>1, <1>2, <1>3, <2>1, TargetIsOpened DEF Own, Fresh
  <2> QED
    BY <1>1, <1>3, <2>2, OwnStays
<1>6. Holds'
  BY <1>2, <1>5 DEF Holds
<1>7. ASSUME down[Target] # <<>>, down' = [down EXCEPT ![Target] = Tail(@)],
             Head(down[Target]) = "ok"
      PROVE  Accepted(Target)' /\ Len(wire[Target])' = 1
  <2>1. Target \in Conns /\ down[Target] \in Seq(DownLine)
    BY <1>2 DEF Holds, TypeOK
  <2>2. /\ reply[Target] = "ok" /\ \A i \in 2 .. Len(down[Target]) : down[Target][i] = "msg"
        /\ Len(wire[Target]) = 1
    BY <1>2, <1>7, <2>1, TailFacts DEF Greeted
  <2>3. down'[Target] = Tail(down[Target])
    BY <1>7, <2>1 DEF TypeOK
  <2>4. \A i \in 1 .. Len(down'[Target]) : down'[Target][i] = "msg"
    <3>1. /\ Len(down[Target]) \in Nat \ {0} /\ Len(down'[Target]) = Len(down[Target]) - 1
          /\ \A i \in 1 .. Len(down[Target]) - 1 : down'[Target][i] = down[Target][i + 1]
      BY <1>7, <2>1, <2>3, TailFacts
    <3>2. PICK n \in Nat : n = Len(down[Target])
      BY <3>1
    <3> SUFFICES ASSUME NEW i \in 1 .. n - 1 PROVE down[Target][i + 1] = "msg"
      BY <3>1, <3>2
    <3>3. i + 1 \in 2 .. n
      BY <3>2
    <3> QED
      BY <2>2, <3>2, <3>3
  <2> QED
    BY <1>1, <1>5, <2>2, <2>4 DEF Accepted
<1>8. CASE errorCode' = "HandshakeFailed" /\ Goto(t, "connVerify")
  <2>1. pc'[t] = "connVerify" => Stage(t)'
    BY <1>1, <1>2, <1>6, <1>8 DEF Stage, ConnectPcs, DisconnectPcs
  <2> QED
    BY <1>1, <1>5, <1>8, <2>1, LifecycleFrame DEF LifecyclePcs, ConnectPcs, Working
<1>9. CASE /\ down[Target] # <<>> /\ down' = [down EXCEPT ![Target] = Tail(@)]
           /\ Head(down[Target]) = "ok" /\ Goto(t, "connUntime") /\ errorCode' = errorCode
  <2>1. pc'[t] = "connUntime" => Stage(t)'
    BY <1>1, <1>2, <1>6, <1>7, <1>9 DEF Stage, ConnectPcs, DisconnectPcs
  <2> QED
    BY <1>1, <1>5, <1>9, <2>1, LifecycleFrame DEF LifecyclePcs, ConnectPcs, Working
<1>10. CASE Goto(t, "connUntimeNo") /\ errorCode' = errorCode
  <2>1. pc'[t] = "connUntimeNo" => Stage(t)'
    BY <1>1, <1>2, <1>6, <1>10 DEF Stage, ConnectPcs, DisconnectPcs
  <2> QED
    BY <1>1, <1>5, <1>10, <2>1, LifecycleFrame DEF LifecyclePcs, ConnectPcs, Working
<1> QED
  BY <1>4, <1>8, <1>9, <1>10

LEMMA ConnVerifyKeeps ==
  ASSUME NEW t \in Threads, TypeOK, ConnInv, ConnectVerify(t)
  PROVE  ConnInv'
<1>1. /\ pc[t] = "connVerify" /\ pc[t] \in LifecyclePcs
      /\ UNCHANGED <<socketFd, fdTable, wire, down, nConns, timed, reply, newFd, errorCode>>
  BY DEF ConnectVerify, LifecyclePcs, ConnectPcs, slot, kernel, hub, local
<1>2. /\ ~connected /\ Holds /\ socketFd # NoFd /\ newFd[t] = NoFd
      /\ errorCode = "" => Accepted(Target) /\ Target \notin timed
  BY <1>1, FileFacts DEF ConnInv, Stage, ConnectPcs, Holds, Target
<1>3. Own
  BY DEF ConnInv
<1>4. \/ Goto(t, "connClose") /\ ~connected'
      \/ Goto(t, "lifeRet") /\ errorCode = "" /\ connected'
  BY <1>2 DEF ConnectVerify
<1>5. Own' /\ Target' = Target
  BY <1>1, <1>3, OwnStays DEF Own, Fresh
<1>6. Holds' /\ (Accepted(Target) => Accepted(Target)')
  BY <1>1, <1>2, <1>5 DEF Holds, Accepted
<1>7. CASE Goto(t, "connClose") /\ ~connected'
  <2>1. pc'[t] = "connClose" => Stage(t)'
    BY <1>1, <1>2, <1>6, <1>7 DEF Stage, ConnectPcs, DisconnectPcs
  <2> QED
    BY <1>1, <1>5, <1>7, <2>1, LifecycleFrame DEF LifecyclePcs, ConnectPcs, Working
<1>8. CASE Goto(t, "lifeRet") /\ errorCode = "" /\ connected'
  <2>1. pc'[t] = "lifeRet" => Stage(t)'
    BY <1>1, <1>2 DEF Stage, ConnectPcs, DisconnectPcs
  <2>2. Rest'
    BY <1>1, <1>2, <1>5, <1>6, <1>8 DEF Rest
  <2> QED
    BY <1>1, <1>5, <1>8, <2>1, <2>2, LifecycleFrame DEF LifecyclePcs
<1> QED
  BY <1>4, <1>7, <1>8

\* close(socketFd) leaves nothing of the library in the table, and the files of
\* the application.
LEMMA CloseEmpties ==
  ASSUME TypeOK, Own, Holds, \A t \in Threads : newFd[t] = NoFd
  PROVE  /\ \A f \in Fds : AfterClose(socketFd)[f] \in {Free, Foreign}
         /\ socketFd \in Fds /\ AfterClose(socketFd)[socketFd] = Free
         /\ \A f \in Fds : fdTable[f] = Foreign => AfterClose(socketFd)[f] = Foreign
<1>1. socketFd \in Fds /\ fdTable[socketFd] \in Conns
  BY HoldsFacts
<1> QED
  BY <1>1, FileFacts DEF Own, AfterClose

\* close() in connect and in disconnect.
LEMMA ConnCloses ==
  ASSUME NEW t \in Threads, TypeOK, ConnInv,
         pc[t] \in {"connClose", "discCheck"}, fdTable' = AfterClose(socketFd),
         UNCHANGED <<connected, socketFd, wire, down, nConns, reply, newFd, errorCode>>,
         \/ pc[t] = "connClose" /\ Goto(t, "connReset")
         \/ pc[t] = "discCheck" /\ Goto(t, "discReset")
  PROVE  ConnInv'
<1>1. pc[t] \in LifecyclePcs
  BY DEF LifecyclePcs, ConnectPcs, DisconnectPcs
<1>2. Own /\ Holds /\ newFd[t] = NoFd
  BY DEF ConnInv, Stage
<1>3. /\ pc[t] = "connClose" => ~connected
      /\ pc[t] = "discCheck" => connected
  BY DEF ConnInv, Stage, ConnectPcs, DisconnectPcs
<1>4. /\ \A f \in Fds : fdTable'[f] \in {Free, Foreign}
      /\ socketFd \in Fds /\ fdTable'[socketFd] = Free
  BY <1>1, <1>2, OthersHaveNoFd, CloseEmpties
<1>5. Own' /\ Lost'
  <2>1. Target' = Free /\ socketFd # NoFd
    BY <1>4, FileFacts DEF Target
  <2> QED
    BY <1>2, <1>4, <2>1, FileFacts DEF Own, Fresh, Lost
<1>6. pc'[t] \in {"connReset", "discReset"} /\ (pc'[t] = "connReset" <=> pc[t] = "connClose")
        => Stage(t)'
  BY <1>2, <1>3, <1>5 DEF Stage, ConnectPcs, DisconnectPcs
<1> QED
  BY <1>1, <1>5, <1>6, LifecycleFrame DEF LifecyclePcs, ConnectPcs, DisconnectPcs, Working

LEMMA ConnCloseKeeps ==
  ASSUME NEW t \in Threads, TypeOK, ConnInv, ConnectClose(t)
  PROVE  ConnInv'
BY ConnCloses DEF ConnectClose, slot, client, hub, local

\* socketFd is reset in connect and in disconnect.
LEMMA ConnForgets ==
  ASSUME NEW t \in Threads, TypeOK, ConnInv,
         pc[t] \in {"connReset", "discReset"}, socketFd' = NoFd,
         UNCHANGED <<connected, fdTable, wire, down, nConns, reply, newFd, errorCode>>,
         \/ pc[t] = "connReset" /\ Goto(t, "lifeRet")
         \/ pc[t] = "discReset" /\ Goto(t, "discDown")
  PROVE  ConnInv'
<1>1. pc[t] \in LifecyclePcs
  BY DEF LifecyclePcs, ConnectPcs, DisconnectPcs
<1>2. Own /\ Lost /\ newFd[t] = NoFd
  BY DEF ConnInv, Stage
<1>3. /\ pc[t] = "connReset" => ~connected
      /\ pc[t] = "discReset" => connected
  BY DEF ConnInv, Stage, ConnectPcs, DisconnectPcs
<1>4. Own'
  <2>1. Target' = Free
    BY DEF Target
  <2>2. fdTable[socketFd] \in {Free, Foreign}
    BY <1>2, FileFacts DEF Lost, Own, Target, TypeOK
  <2> QED
    BY <1>2, <2>1, <2>2, FileFacts DEF Own, Fresh
<1>5. CASE pc[t] = "connReset" /\ Goto(t, "lifeRet")
  <2>1. pc'[t] = "lifeRet" => Stage(t)'
    BY <1>2 DEF Stage, ConnectPcs, DisconnectPcs
  <2>2. Rest'
    BY <1>3, <1>5 DEF Rest
  <2> QED
    BY <1>1, <1>4, <1>5, <2>1, <2>2, LifecycleFrame DEF LifecyclePcs
<1>6. CASE pc[t] = "discReset" /\ Goto(t, "discDown")
  <2>1. pc'[t] = "discDown" => Stage(t)'
    BY <1>2, <1>3, <1>6 DEF Stage, ConnectPcs, DisconnectPcs
  <2> QED
    BY <1>1, <1>4, <1>6, <2>1, LifecycleFrame DEF LifecyclePcs, DisconnectPcs, Working
<1> QED
  BY <1>5, <1>6

LEMMA ConnResetKeeps ==
  ASSUME NEW t \in Threads, TypeOK, ConnInv, ConnectReset(t)
  PROVE  ConnInv'
BY ConnForgets DEF ConnectReset, slot, kernel, hub, local

----------------------------------------------------------------------------
(* disconnect, and the end of the client *)

LEMMA ConnDisconnectKeeps ==
  ASSUME NEW t \in Threads, TypeOK, ConnInv,
         DisconnectCheck(t) \/ DisconnectReset(t) \/ DisconnectDown(t)
  PROVE  ConnInv'
<1>1. CASE DisconnectCheck(t)
  <2>1. pc[t] = "discCheck" /\ connected /\ socketFd # NoFd
    BY <1>1, HoldsFacts DEF DisconnectCheck, ConnInv, Stage, DisconnectPcs
  <2>2. /\ Goto(t, "discReset") /\ fdTable' = AfterClose(socketFd)
        /\ UNCHANGED <<connected, socketFd, wire, down, nConns, reply, newFd, errorCode>>
    BY <1>1, <2>1 DEF DisconnectCheck, client, slot, hub, local
  <2> QED
    BY <2>1, <2>2, ConnCloses
<1>2. CASE DisconnectReset(t)
  BY <1>2, ConnForgets DEF DisconnectReset, slot, kernel, hub, local
<1>3. CASE DisconnectDown(t)
  <2>1. /\ pc[t] = "discDown" /\ Goto(t, "lifeRet") /\ ~connected' /\ pc[t] \in LifecyclePcs
        /\ UNCHANGED <<socketFd, fdTable, wire, down, nConns, timed, reply, newFd, errorCode>>
    BY <1>3 DEF DisconnectDown, slot, kernel, hub, local, LifecyclePcs, DisconnectPcs
  <2>2. Own /\ socketFd = NoFd /\ newFd[t] = NoFd
    BY <2>1 DEF ConnInv, Stage
  <2>3. Own'
    BY <2>1, <2>2, OwnStays DEF Own, Fresh
  <2>4. pc'[t] = "lifeRet" => Stage(t)'
    BY <2>1, <2>2 DEF Stage, ConnectPcs, DisconnectPcs
  <2>5. Rest'
    BY <2>1, <2>2 DEF Rest
  <2> QED
    BY <2>1, <2>3, <2>4, <2>5, LifecycleFrame DEF LifecyclePcs
<1> QED
  BY <1>1, <1>2, <1>3

LEMMA ConnDestroyKeeps ==
  ASSUME TypeOK, ConnInv, Destroy
  PROVE  ConnInv'
<1>1. /\ \A t \in Threads : pc[t] = "idle" /\ pc'[t] = "idle"
      /\ ~connected' /\ socketFd' = NoFd
      /\ UNCHANGED <<wire, down, nConns, timed, reply, newFd>>
      /\ fdTable' = IF socketFd = NoFd THEN fdTable ELSE AfterClose(socketFd)
  BY DEF Destroy, hub, threads, local
<1>2. \A t \in Threads : newFd[t] = NoFd
  BY <1>1 DEF ConnInv, Stage
<1>3. (\A t \in Threads : Stage(t) /\ Uses(t))' /\ Exclusive'
  BY <1>1, <1>2, PcFacts DEF Exclusive, Stage, Uses, ConnectPcs, DisconnectPcs
<1>4. Own /\ (socketFd # NoFd => Holds)
  BY <1>1 DEF ConnInv, Settled, Rest, Working, ConnectPcs, DisconnectPcs
<1>5. \A f \in Fds : fdTable'[f] \in {Free, Foreign}
  <2>1. CASE socketFd = NoFd
    BY <1>1, <1>2, <1>4, <2>1, FileFacts DEF Own
  <2>2. CASE socketFd # NoFd
    BY <1>1, <1>2, <1>4, <2>2, CloseEmpties
  <2> QED
    BY <2>1, <2>2
<1>6. Own'
  BY <1>1, <1>4, <1>5, FileFacts DEF Own, Fresh, Target
<1>7. Settled'
  BY <1>1 DEF Settled, Rest
<1> QED
  BY <1>3, <1>6, <1>7 DEF ConnInv

----------------------------------------------------------------------------
(* send, listen, and the end of a call *)

\* A thread in another call is not in connect or disconnect, so nobody is.
LEMMA NobodyConnects ==
  ASSUME NEW t \in Threads, ConnInv, pc[t] # "idle", pc[t] \notin LifecyclePcs
  PROVE  /\ \A u \in Threads : pc[u] \notin LifecyclePcs /\ newFd[u] = NoFd
         /\ Rest
<1>1. \A u \in Threads : pc[u] \notin LifecyclePcs
  BY DEF ConnInv, Exclusive
<1>2. \A u \in Threads : newFd[u] = NoFd
  BY <1>1 DEF ConnInv, Stage, LifecyclePcs, ConnectPcs
<1>3. Rest
  BY <1>1, PcFacts DEF ConnInv, Settled
<1> QED
  BY <1>1, <1>2, <1>3

\* Its step leaves the socket and the hub's answer alone.
LEMMA OtherFrame ==
  ASSUME NEW t \in Threads, NEW l \in Pcs \ LifecyclePcs, TypeOK, ConnInv,
         pc[t] # "idle", pc[t] \notin LifecyclePcs, Goto(t, l),
         UNCHANGED <<connected, socketFd, fdTable, nConns, timed, newFd>>,
         \A u \in Threads : u # t => hold'[u] = hold[u],
         \A c \in Conns : c > nConns => Fresh(c)',
         Rest => (Accepted(Target) => Accepted(Target)'),
         pc'[t] = l => Uses(t)'
  PROVE  ConnInv'
<1>1. Rest /\ \A u \in Threads : pc[u] \notin LifecyclePcs /\ newFd[u] = NoFd
  BY NobodyConnects
<1>2. pc'[t] = l /\ \A u \in Threads : u # t => pc'[u] = pc[u]
  BY DEF Goto, TypeOK
<1>3. \A u \in Threads : pc'[u] \notin LifecyclePcs
  BY <1>1, <1>2
<1>4. Exclusive' /\ \A u \in Threads : Stage(u)'
  BY <1>1, <1>3 DEF Exclusive, Stage, LifecyclePcs, ConnectPcs, DisconnectPcs
<1>5. Own' /\ Target' = Target /\ (Holds' <=> Holds)
  BY OwnStays DEF Holds, ConnInv
<1>6. \A u \in Threads : Uses(u)'
  BY <1>2, <1>5 DEF ConnInv, Uses
<1>7. Rest'
  BY <1>1, <1>5 DEF Rest
<1> QED
  BY <1>4, <1>5, <1>6, <1>7 DEF ConnInv, Settled

\* The client is connected while a thread of it sends or waits for data.
LEMMA UsersConnected ==
  ASSUME NEW t \in Threads, TypeOK, ConnInv, pc[t] \in {"sendText", "sendNl", "reading"}
  PROVE  /\ connected /\ Holds /\ Accepted(Target) /\ Target \notin timed
         /\ Target \in Conns /\ Target = fdTable[socketFd] /\ socketFd \in Fds
         /\ \A c \in Conns : c > nConns => c # Target
<1>1. pc[t] \notin LifecyclePcs /\ pc[t] # "idle"
  BY DEF LifecyclePcs, ConnectPcs, DisconnectPcs
<1>2. Rest /\ connected
  BY <1>1, NobodyConnects DEF ConnInv, Uses
<1>3. Own /\ Holds
  BY <1>2 DEF ConnInv, Rest
<1> QED
  BY <1>2, <1>3, HoldsFacts, TargetIsOpened DEF Rest

LEMMA ConnSendKeeps ==
  ASSUME NEW t \in Threads, TypeOK, ConnInv,
         SendCheck(t) \/ SendText(t) \/ SendNewline(t)
  PROVE  ConnInv'
<1>1. /\ pc[t] # "idle" /\ pc[t] \notin LifecyclePcs
      /\ UNCHANGED <<connected, socketFd, fdTable, nConns, timed, reply, hold, down, newFd>>
  BY DEF SendCheck, SendText, SendNewline, kernel, hub, local, LifecyclePcs, ConnectPcs,
     DisconnectPcs
<1>2. PICK l \in {"sendRet", "sendText", "sendNl"} : Goto(t, l) /\ (l # "sendRet" => connected)
  BY UsersConnected DEF SendCheck, SendText, SendNewline
<1>3. l \in Pcs \ LifecyclePcs
  BY DEF Pcs, SendPcs, LifecyclePcs, ConnectPcs, DisconnectPcs
<1>4. pc'[t] = l => Uses(t)'
  BY <1>1, <1>2 DEF Uses
<1>5. Accepted(Target) => Accepted(Target)'
  BY <1>1 DEF Accepted, Target
<1>6. \A c \in Conns : c > nConns => Fresh(c)'
  <2>1. Own
    BY DEF ConnInv
  <2>2. CASE wire' = wire
    BY <1>1, <2>1, <2>2 DEF Own, Fresh
  <2>3. CASE wire' # wire
    <3>1. pc[t] \in {"sendText", "sendNl"}
          /\ \A c \in Conns : c # Target => wire'[c] = wire[c]
      BY <2>3, FileFacts DEF SendCheck, SendText, SendNewline, Put, TypeOK, kernel
    <3> QED
      BY <1>1, <2>1, <3>1, UsersConnected DEF Own, Fresh
  <2> QED
    BY <2>2, <2>3
<1> QED
  BY <1>1, <1>2, <1>3, <1>4, <1>5, <1>6, OtherFrame

LEMMA ConnListenKeeps ==
  ASSUME NEW t \in Threads, TypeOK, ConnInv,
         \/ ListenCheck(t) \/ ListenRead(t) \/ ListenData(t) \/ ListenLeaves(t)
         \/ HandlerDone(t)
  PROVE  ConnInv'
<1>1. /\ pc[t] # "idle" /\ pc[t] \notin LifecyclePcs
      /\ UNCHANGED <<connected, socketFd, fdTable, nConns, timed, reply, wire, newFd>>
      /\ \A u \in Threads : u # t => hold'[u] = hold[u]
  BY DEF ListenCheck, ListenRead, ListenData, ListenLeaves, HandlerDone, client,
     kernel, hub, local, LifecyclePcs, ConnectPcs, DisconnectPcs, TypeOK
<1>2. PICK l \in {"listenRet", "read", "reading", "handle"} : Goto(t, l)
  BY DEF ListenCheck, ListenRead, ListenData, ListenLeaves, HandlerDone
<1>3. l \in Pcs \ LifecyclePcs
  BY DEF Pcs, ListenPcs, LifecyclePcs, ConnectPcs, DisconnectPcs
<1>4. pc'[t] = l
  BY <1>2 DEF Goto, TypeOK
<1>5. Uses(t)'
  <2>1. CASE ListenRead(t)
    <3>1. pc'[t] = "reading" =>
            Target \notin {Free, Unbound} /\ hold'[t] = Target /\ Target' = Target
      BY <1>1, <2>1 DEF ListenRead, Goto, TypeOK, Target
    <3>2. Rest
      BY <1>1, NobodyConnects
    <3>3. Target # Free => connected
      BY <3>2 DEF Rest, Target
    <3>4. pc'[t] \in {"reading", "listenRet"}
      BY <2>1 DEF ListenRead, Goto, TypeOK
    <3> QED
      BY <1>1, <3>1, <3>3, <3>4 DEF Uses
  <2>2. CASE ~ListenRead(t)
    <3>1. pc'[t] \in {"listenRet", "read", "handle"}
      BY <2>2 DEF ListenCheck, ListenData, ListenLeaves, HandlerDone, Goto, TypeOK
    <3> QED
      BY <3>1 DEF Uses
  <2> QED
    BY <2>1, <2>2
<1>6. CASE ~ListenData(t)
  <2>1. down' = down
    BY <1>6 DEF ListenCheck, ListenRead, ListenLeaves, HandlerDone, kernel
  <2>2. (\A c \in Conns : c > nConns => Fresh(c)') /\ (Accepted(Target) => Accepted(Target)')
    BY <1>1, <2>1 DEF ConnInv, Own, Fresh, Accepted, Target
  <2> QED
    BY <1>1, <1>2, <1>3, <1>5, <2>2, OtherFrame
<1>7. CASE ListenData(t)
  <2>1. Target \in Conns /\ Accepted(Target) /\ hold[t] = Target
    BY <1>7, UsersConnected DEF ListenData, ConnInv, Uses
  <2>2. PICK n \in 1 .. Len(down[Target]) :
          down' = [down EXCEPT ![Target] = SubSeq(@, n + 1, Len(@))]
    BY <1>7, <2>1, FileFacts DEF ListenData
  <2>3. down[Target] \in Seq(DownLine)
    BY <2>1 DEF TypeOK
  <2>4. PICK m \in Nat : m = Len(down[Target])
    BY <2>3
  <2>5. /\ down'[Target] = SubSeq(down[Target], n + 1, m)
        /\ \A c \in Conns : c # Target => down'[c] = down[c]
    BY <2>1, <2>2, <2>4 DEF TypeOK
  <2>6. n \in 1 .. m
    BY <2>2, <2>4
  <2>7. /\ Len(down'[Target]) = m - n
        /\ \A i \in 1 .. m - n : down'[Target][i] = down[Target][i + n] /\ i + n \in 1 .. m
    BY <2>3, <2>4, <2>5, <2>6
  <2>8. Accepted(Target)'
    BY <1>1, <2>1, <2>4, <2>7 DEF Accepted, Target
  <2>9. \A c \in Conns : c > nConns => Fresh(c)'
    <3>1. \A c \in Conns : c > nConns => c # Target
      BY <1>7, UsersConnected DEF ListenData
    <3> QED
      BY <1>1, <2>5, <3>1 DEF ConnInv, Own, Fresh
  <2> QED
    BY <1>1, <1>2, <1>3, <1>5, <2>8, <2>9, OtherFrame
<1> QED
  BY <1>6, <1>7

\* The caller looks at the error slot.
LEMMA ConnReturnKeeps ==
  ASSUME NEW t \in Threads, TypeOK, ConnInv, Return(t) \/ ReturnError(t)
  PROVE  ConnInv'
<1>1. UNCHANGED <<connected, socketFd, fdTable, wire, down, nConns, timed, reply, hold, newFd,
                  errorCode>>
  BY DEF Return, ReturnError, Answer, client, slot, kernel, hub, local
<1>2. PICK l \in {"lifeCode", "sendCode", "listenCode", "idle", "handle"} :
        Goto(t, l) /\ (pc[t] \in LifecyclePcs => l \in {"lifeCode", "idle", "handle"})
                   /\ (pc[t] \notin LifecyclePcs => l # "lifeCode")
                   /\ pc[t] \notin Working
                   /\ pc[t] # "idle"
  <2>1. back[t] \in {"idle", "handle"}
    BY DEF TypeOK
  <2>2. CASE ReturnError(t) \/ Goto(t, back[t])
    BY <2>1, <2>2 DEF Return, ReturnError, Answer, SecondLook, Working, LifecyclePcs, ConnectPcs, DisconnectPcs
  <2>3. CASE Return(t) /\ ~Goto(t, back[t])
    <3>1. pc[t] \in {"lifeRet", "sendRet", "listenRet"} /\ Goto(t, SecondLook[pc[t]])
      BY <2>3 DEF Return, Answer, SecondLook
    <3> QED
      BY <3>1 DEF SecondLook, Working, LifecyclePcs, ConnectPcs, DisconnectPcs
  <2> QED
    BY <2>2, <2>3
<1>3. Own' /\ Target' = Target /\ (Rest <=> Rest')
  <2>1. Own'  /\ Target' = Target
    BY <1>1, OwnStays DEF ConnInv, Own, Fresh
  <2> QED
    BY <1>1, <2>1 DEF Rest, Holds, Accepted
<1>4. CASE pc[t] \in LifecyclePcs
  <2>1. \A u \in Threads : pc[u] \notin Working
    BY <1>2, <1>4, OthersHaveNoFd DEF Working, ConnectPcs, DisconnectPcs
  <2>2. Rest'
    BY <1>3, <2>1 DEF ConnInv, Settled
  <2>3. newFd[t] = NoFd
    BY <2>1 DEF ConnInv, Stage, Working, ConnectPcs
  <2>4. pc'[t] = l => Stage(t)'
    BY <1>1, <1>2, <1>4, <2>3 DEF Stage, ConnectPcs, DisconnectPcs
  <2> QED
    BY <1>1, <1>2, <1>3, <1>4, <2>2, <2>4, LifecycleFrame DEF LifecyclePcs
<1>5. CASE pc[t] \notin LifecyclePcs
  <2>1. l \in Pcs \ LifecyclePcs
    BY <1>2, <1>5 DEF Pcs, LifecyclePcs, ConnectPcs, DisconnectPcs, SendPcs, ListenPcs
  <2>2. pc'[t] = l => Uses(t)'
    BY <1>2 DEF Uses
  <2> QED
    BY <1>1, <1>2, <1>3, <1>5, <2>1, <2>2, OtherFrame DEF ConnInv, Own, Fresh, Accepted
<1> QED
  BY <1>4, <1>5

----------------------------------------------------------------------------
(* The hub and the application *)

\* What the environment must leave standing.
LEMMA EnvironmentFrame ==
  ASSUME TypeOK, ConnInv,
         UNCHANGED <<connected, socketFd, errorCode, nConns, timed, wire, pc, hold, newFd>>,
         \A f \in Fds : \/ fdTable'[f] = fdTable[f]
                        \/ fdTable[f] \in {Free, Foreign} /\ fdTable'[f] \in {Free, Foreign},
         \A c \in Conns : /\ Fresh(c) => Fresh(c)'
                          /\ Greeted(c) => Greeted(c)'
                          /\ Accepted(c) => Accepted(c)'
  PROVE  ConnInv'
<1>1. \/ Target' = Target
      \/ Target \in {Free, Foreign} /\ Target' \in {Free, Foreign}
  BY DEF Target, TypeOK
<1>2. /\ Holds' <=> Holds
      /\ Holds => Target' = Target /\ Target \in Conns
      /\ Lost => Lost'
  BY <1>1, FileFacts DEF Holds, Lost
<1>3. Exclusive'
  BY DEF ConnInv, Exclusive
<1>4. Own'
  BY <1>1, FileFacts DEF ConnInv, Own
<1>5. ASSUME NEW t \in Threads PROVE Stage(t)' /\ Uses(t)'
  <2>1. Stage(t) /\ Uses(t)
    BY DEF ConnInv
  <2>2. /\ pc[t] \in {"connTimed", "connHello"} => Fresh(Target)'
        /\ pc[t] = "connReply" => Greeted(Target)'
    <3>1. pc[t] \in {"connTimed", "connHello", "connReply"} => Holds
      BY <2>1 DEF Stage
    <3>2. /\ Holds /\ Fresh(Target) => Fresh(Target)'
          /\ Holds /\ Greeted(Target) => Greeted(Target)'
      BY <1>2 DEF Fresh, Greeted
    <3> QED
      BY <2>1, <3>1, <3>2 DEF Stage
  <2>3. ASSUME pc[t] \in {"connUntime", "connVerify"}, errorCode = ""
        PROVE  Accepted(Target)' /\ Len(wire[Target])' = 1
    <3>1. Holds /\ Accepted(Target) /\ Len(wire[Target]) = 1
      BY <2>1, <2>3 DEF Stage
    <3> QED
      BY <1>2, <3>1 DEF Accepted
  <2>4. pc[t] = "connVerify" /\ errorCode = "" => Target' \notin timed'
    BY <1>2, <2>1 DEF Stage
  <2>5. /\ pc[t] = "connOpen" => NewFile(t)' = Unbound
        /\ pc[t] = "connStore" => NewFile(t)' \in Conns /\ Fresh(NewFile(t))'
    <3>1. pc[t] \in {"connOpen", "connStore"} => newFd[t] \in Fds
      BY <2>1 DEF Stage, TypeOK
    <3>2. pc[t] = "connOpen" => fdTable[newFd[t]] = Unbound /\ fdTable'[newFd[t]] = Unbound
      BY <2>1, <3>1, FileFacts DEF Stage, NewFile
    <3>3. pc[t] = "connStore" =>
            fdTable[newFd[t]] \in Conns /\ fdTable'[newFd[t]] = fdTable[newFd[t]]
      BY <2>1, <3>1, FileFacts DEF Stage, NewFile
    <3>4. pc[t] = "connStore" => Fresh(NewFile(t))'
      BY <2>1, <3>3 DEF Stage, NewFile, Fresh
    <3> QED
      BY <3>2, <3>3, <3>4 DEF NewFile
  <2>6. Stage(t)'
    BY <1>2, <2>1, <2>2, <2>3, <2>4, <2>5 DEF Stage
  <2>7. pc[t] = "reading" => Holds
    BY UsersConnected
  <2>8. Uses(t)'
    BY <1>2, <2>1, <2>7 DEF Uses
  <2> QED
    BY <2>6, <2>8
<1>6. Rest => Rest'
  BY <1>2 DEF Rest, Accepted
<1>7. Settled'
  BY <1>6 DEF ConnInv, Settled
<1> QED
  BY <1>3, <1>4, <1>5, <1>7 DEF ConnInv

LEMMA ConnEnvironmentKeeps ==
  ASSUME TypeOK, ConnInv, Environment
  PROVE  ConnInv'
<1>1. UNCHANGED <<connected, socketFd, errorCode, nConns, timed, wire, pc, hold, newFd>>
  BY DEF Environment, HubReply, HubSend, HubClose, ForeignOpen, ForeignClose,
     client, slot, kernel, hub, threads, local
<1>2. ASSUME UNCHANGED <<down, reply>>,
             \/ fdTable' = fdTable
             \/ \E f \in Fds : /\ fdTable[f] \in {Free, Foreign}
                               /\ \E k \in {Free, Foreign} : fdTable' = [fdTable EXCEPT ![f] = k]
      PROVE  ConnInv'
  <2>1. \A f \in Fds : \/ fdTable'[f] = fdTable[f]
                       \/ fdTable[f] \in {Free, Foreign} /\ fdTable'[f] \in {Free, Foreign}
    BY <1>2 DEF TypeOK
  <2>2. \A c \in Conns : /\ Fresh(c) => Fresh(c)'
                         /\ Greeted(c) => Greeted(c)'
                         /\ Accepted(c) => Accepted(c)'
    BY <1>1, <1>2 DEF Fresh, Greeted, Accepted
  <2> QED
    BY <1>1, <2>1, <2>2, EnvironmentFrame
<1>3. ASSUME NEW c \in Conns, HubReply(c) PROVE ConnInv'
  <2>1. /\ fdTable' = fdTable /\ reply[c] = "none" /\ UNCHANGED <<socketFd, wire>>
    BY <1>3 DEF HubReply, client, kernel
  <2>2. PICK r \in {"ok", "no"} : /\ reply' = [reply EXCEPT ![c] = r]
                                  /\ down' = [down EXCEPT ![c] = Append(@, r)]
    BY <1>3 DEF HubReply
  <2>3. \A d \in Conns : d # c => reply'[d] = reply[d] /\ down'[d] = down[d]
    BY <2>2 DEF TypeOK
  <2>4. reply'[c] = r /\ down'[c] = Append(down[c], r)
    BY <2>2 DEF TypeOK
  <2>5. ~Fresh(c) /\ ~Accepted(c)
    <3>1. \E i \in 1 .. Len(wire[c]) : TRUE
      BY <1>3 DEF HubReply
    <3>2. wire[c] # <<>>
      BY <3>1
    <3> QED
      BY <2>1, <3>2 DEF Fresh, Accepted
  <2>6. Greeted(c) => Greeted(c)'
    <3> SUFFICES ASSUME Greeted(c) PROVE Greeted(c)'
      OBVIOUS
    <3>1. down[c] = <<>> /\ Len(wire'[c]) = 1
      BY <2>1 DEF Greeted
    <3>2. down'[c] = <<r>>
      BY <2>4, <3>1
    <3>3. down'[c] # <<>> /\ down'[c][1] = r /\ Len(down'[c]) = 1
      BY <3>2
    <3>4. \A i \in 2 .. Len(down'[c]) : down'[c][i] = "msg"
      BY <3>3
    <3>5. reply'[c] = r /\ r # "none"
      BY <2>4
    <3> QED
      BY <3>1, <3>3, <3>4, <3>5 DEF Greeted
  <2>7. \A d \in Conns : d # c => /\ Fresh(d) => Fresh(d)'
                                  /\ Greeted(d) => Greeted(d)'
                                  /\ Accepted(d) => Accepted(d)'
    BY <2>1, <2>3 DEF Fresh, Greeted, Accepted
  <2> QED
    BY <1>1, <2>1, <2>5, <2>6, <2>7, EnvironmentFrame
<1>4. ASSUME NEW c \in Conns, HubSend(c) PROVE ConnInv'
  <2>1. /\ fdTable' = fdTable /\ reply' = reply /\ reply[c] = "ok"
        /\ UNCHANGED <<socketFd, wire>>
        /\ down' = [down EXCEPT ![c] = Append(@, "msg")]
    BY <1>4 DEF HubSend, client, kernel, hub
  <2>2. \A d \in Conns : d # c => down'[d] = down[d]
    BY <2>1 DEF TypeOK
  <2>3. down'[c] = Append(down[c], "msg") /\ down[c] \in Seq(DownLine)
    BY <2>1 DEF TypeOK
  <2>4. PICK n \in Nat : n = Len(down[c])
    BY <2>3
  <2>5. /\ Len(down'[c]) = n + 1 /\ down'[c][n + 1] = "msg"
        /\ \A i \in 1 .. n : down'[c][i] = down[c][i]
    BY <2>3, <2>4
  <2>6. ~Fresh(c)
    BY <2>1 DEF Fresh
  <2>7. Accepted(c) => Accepted(c)'
    BY <2>1, <2>4, <2>5 DEF Accepted
  <2>8. Greeted(c) => Greeted(c)'
    <3> SUFFICES ASSUME Greeted(c) PROVE Greeted(c)'
      OBVIOUS
    <3>1. /\ down[c] # <<>> /\ down[c][1] = "ok" /\ Len(wire'[c]) = 1
          /\ \A i \in 2 .. n : down[c][i] = "msg"
      BY <2>1, <2>4 DEF Greeted
    <3>2. n # 0
      BY <2>3, <2>4, <3>1
    <3>3. down'[c] # <<>> /\ down'[c][1] = "ok"
      BY <2>3, <2>5, <3>1, <3>2
    <3>4. \A i \in 2 .. Len(down'[c]) : down'[c][i] = "msg"
      BY <2>4, <2>5, <3>1
    <3> QED
      BY <2>1, <3>1, <3>3, <3>4 DEF Greeted
  <2>9. \A d \in Conns : d # c => /\ Fresh(d) => Fresh(d)'
                                  /\ Greeted(d) => Greeted(d)'
                                  /\ Accepted(d) => Accepted(d)'
    BY <2>1, <2>2 DEF Fresh, Greeted, Accepted
  <2> QED
    BY <1>1, <2>1, <2>6, <2>7, <2>8, <2>9, EnvironmentFrame
<1>5. ASSUME NEW c \in Conns, HubClose(c) PROVE ConnInv'
  BY <1>2, <1>5 DEF HubClose, kernel
<1>6. CASE ForeignOpen
  BY <1>2, <1>6 DEF ForeignOpen, hub
<1>7. CASE ForeignClose
  BY <1>2, <1>7 DEF ForeignClose, hub
<1> QED
  BY <1>3, <1>4, <1>5, <1>6, <1>7 DEF Environment

LEMMA ConnStep ==
  ASSUME Promise, TypeOK, ConnInv, [Next]_vars
  PROVE  ConnInv'
<1>1. CASE UNCHANGED vars
  <2>1. UNCHANGED <<connected, socketFd, errorCode, nConns, timed, wire, pc, hold, newFd,
                    fdTable, down, reply>>
    BY <1>1 DEF vars, client, slot, kernel, hub, threads, local
  <2>2. \A c : (Fresh(c) => Fresh(c)') /\ (Greeted(c) => Greeted(c)')
               /\ (Accepted(c) => Accepted(c)')
    BY <2>1 DEF Fresh, Greeted, Accepted
  <2> QED
    BY <2>1, <2>2, EnvironmentFrame
<1>2. ASSUME NEW t \in Threads, Connect(t) PROVE ConnInv'
  BY <1>2, ConnEnter, ConnSocketKeeps, ConnOpenKeeps, ConnStoreKeeps, ConnTimedKeeps,
     ConnHelloKeeps, ConnReplyKeeps, ConnVerifyKeeps, ConnCloseKeeps, ConnResetKeeps
  DEF Connect
<1>3. ASSUME NEW t \in Threads,
             Disconnect(t) \/ Send(t) \/ Listen(t) \/ Return(t) \/ ReturnError(t)
      PROVE  ConnInv'
  BY <1>3, ConnEnter, ConnDisconnectKeeps, ConnSendKeeps, ConnListenKeeps, ConnReturnKeeps
  DEF Disconnect, Send, Listen, ListenEof, ListenCut
<1> QED
  BY <1>1, <1>2, <1>3, ConnDestroyKeeps, ConnEnvironmentKeeps DEF Next

----------------------------------------------------------------------------
(* What follows for the connection *)

\* A thread that connects or disconnects is alone in the library; the table
\* holds no connection but the client's own; and each step of connect and
\* disconnect finds socketFd, the hub's answer and the lines as it needs them.
THEOREM ConnInvCorrect ==
  ASSUME Promise
  PROVE  Spec => [](TypeOK /\ ConnInv)
<1>1. Init => TypeOK /\ ConnInv
  BY TypeInit, ConnInit
<1>2. TypeOK /\ ConnInv /\ [Next]_vars => (TypeOK /\ ConnInv)'
  BY TypeStep, ConnStep
<1> QED
  BY <1>1, <1>2, PTL DEF Spec

\* Between connects and disconnects, connected, socketFd and the hub's answer
\* to the node id agree.
THEOREM ConnectedAgrees ==
  ASSUME Promise
  PROVE  Spec => []ConnectedMeansAccepted
<1>1. TypeOK /\ ConnInv => ConnectedMeansAccepted
  BY PcFacts DEF ConnInv, Settled, Rest, NoLifecycle, ConnectedMeansAccepted, Holds, Accepted
<1> QED
  BY <1>1, ConnInvCorrect, PTL

\* However connects fail and are repeated, no descriptor of a connection is
\* left open behind the client's back.
THEOREM NoLeaks ==
  ASSUME Promise
  PROVE  Spec => []NoDescriptorLeak
<1>1. TypeOK /\ ConnInv => NoDescriptorLeak
  <2> SUFFICES ASSUME TypeOK, ConnInv, NEW f \in Fds
               PROVE  /\ fdTable[f] \in Conns =>
                           f = socketFd \/ \E t \in Threads : pc[t] = "connStore" /\ newFd[t] = f
                      /\ fdTable[f] = Unbound =>
                           \E t \in Threads : pc[t] = "connOpen" /\ newFd[t] = f
    BY DEF NoDescriptorLeak
  <2>1. Own
    BY DEF ConnInv
  <2>2. f = socketFd => fdTable[f] # Unbound
    BY <2>1, FileFacts DEF Own, Target
  <2>3. ASSUME NEW t \in Threads, newFd[t] = f
        PROVE  \/ pc[t] = "connStore" /\ fdTable[f] \in Conns
               \/ pc[t] = "connOpen" /\ fdTable[f] = Unbound
    <3>1. Stage(t) /\ newFd[t] # NoFd
      BY <2>3, FileFacts DEF ConnInv
    <3> QED
      BY <2>3, <3>1 DEF Stage, NewFile
  <2> QED
    BY <2>1, <2>2, <2>3, FileFacts DEF Own
<1> QED
  BY <1>1, ConnInvCorrect, PTL

\* A write goes to a connection of the client.
LEMMA WritesGoHome ==
  ASSUME NEW t \in Threads, TypeOK, ConnInv,
         pc[t] \in {"connHello", "sendText", "sendNl"}
  PROVE  Target \in Conns
BY UsersConnected DEF ConnInv, Stage, Holds

LEMMA AppFileStep ==
  ASSUME TypeOK, ConnInv, [Next]_vars
  PROVE  [AppFileKept]_vars
<1>1. Foreign \notin Conns /\ Own
  BY FileFacts DEF ConnInv
<1>2. ASSUME UNCHANGED <<fdTable, wire>> PROVE AppFileKept
  BY <1>2 DEF AppFileKept
<1>3. ASSUME NEW t \in Threads, ConnectHello(t) \/ SendText(t) \/ SendNewline(t)
      PROVE  AppFileKept
  <2>1. Target \in Conns /\ fdTable' = fdTable
    BY <1>3, WritesGoHome DEF ConnectHello, SendText, SendNewline
  <2>2. wire' = wire \/ \E g : wire' = [wire EXCEPT ![Target] = Append(@, g)]
    BY <1>3 DEF ConnectHello, SendText, SendNewline, Put
  <2>3. wire'[Foreign] = wire[Foreign]
    BY <1>1, <2>1, <2>2, FileFacts DEF TypeOK
  <2> QED
    BY <2>1, <2>3 DEF AppFileKept
<1>4. ASSUME NEW t \in Threads, ConnectSocket(t) PROVE AppFileKept
  BY <1>4, FileFacts DEF ConnectSocket, AppFileKept, TypeOK
<1>5. ASSUME NEW t \in Threads, ConnectOpen(t) PROVE AppFileKept
  <2>1. pc[t] = "connOpen" /\ fdTable[newFd[t]] = Unbound /\ wire' = wire
    BY <1>5 DEF ConnectOpen, ConnInv, Stage, NewFile
  <2>2. \A f \in Fds : f # newFd[t] => fdTable'[f] = fdTable[f]
    BY <1>5 DEF ConnectOpen, AfterClose, TypeOK
  <2> QED
    BY <2>1, <2>2, FileFacts DEF AppFileKept
<1>6. ASSUME wire' = wire, Holds, fdTable' = AfterClose(socketFd) PROVE AppFileKept
  <2>1. \A f \in Fds : fdTable[f] = Foreign => fdTable'[f] = Foreign
    BY <1>1, <1>6, HoldsFacts DEF AfterClose
  <2> QED
    BY <1>6, <2>1 DEF AppFileKept
<1>7. ASSUME NEW t \in Threads, ConnectClose(t) \/ DisconnectCheck(t) PROVE AppFileKept
  <2>1. Holds
    BY <1>7 DEF ConnectClose, DisconnectCheck, ConnInv, Stage
  <2>2. wire' = wire /\ (fdTable' = AfterClose(socketFd) \/ fdTable' = fdTable)
    BY <1>7 DEF ConnectClose, DisconnectCheck
  <2> QED
    BY <1>2, <1>6, <2>1, <2>2
<1>8. CASE Destroy
  <2>1. \A t \in Threads : pc[t] \notin Working
    BY <1>8, PcFacts DEF Destroy
  <2>2. socketFd # NoFd => Holds
    BY <2>1 DEF ConnInv, Settled, Rest
  <2> QED
    BY <1>2, <1>6, <1>8, <2>2 DEF Destroy
<1>9. CASE Environment
  <2>1. wire' = wire
    BY <1>9 DEF Environment, HubReply, HubSend, HubClose, ForeignOpen, ForeignClose, kernel
  <2>2. CASE ForeignOpen
    BY <2>1, <2>2, FileFacts DEF ForeignOpen, AppFileKept, TypeOK
  <2>3. CASE ForeignClose
    BY <2>1, <2>3 DEF AppFileKept
  <2>4. CASE ~ForeignOpen /\ ~ForeignClose
    BY <1>2, <1>9, <2>1, <2>4 DEF Environment, HubReply, HubSend, HubClose, kernel
  <2> QED
    BY <2>2, <2>3, <2>4
<1>10. ASSUME NEW t \in Threads, Connect(t) PROVE AppFileKept
  <2>1. CASE \/ CallConnect(t) \/ ConnectStore(t) \/ ConnectTimed(t) \/ ConnectReply(t)
             \/ ConnectCut(t)
    BY <1>2, <2>1 DEF CallConnect, Enter, ConnectStore, ConnectTimed, ConnectReply, ConnectCut,
       kernel
  <2>2. CASE ConnectUntime(t) \/ ConnectRefuse(t) \/ ConnectVerify(t) \/ ConnectReset(t)
    BY <1>2, <2>2 DEF ConnectUntime, ConnectRefuse, ConnectVerify, ConnectReset, kernel
  <2> QED
    BY <1>3, <1>4, <1>5, <1>7, <1>10, <2>1, <2>2 DEF Connect
<1>11. ASSUME NEW t \in Threads,
              Disconnect(t) \/ Send(t) \/ Listen(t) \/ Return(t) \/ ReturnError(t)
       PROVE  AppFileKept
  <2>1. CASE CallDisconnect(t) \/ CallSend(t) \/ CallListen(t)
    BY <1>2, <2>1 DEF CallDisconnect, CallSend, CallListen, Enter, kernel
  <2>2. CASE DisconnectReset(t) \/ DisconnectDown(t) \/ SendCheck(t)
    BY <1>2, <2>2 DEF DisconnectReset, DisconnectDown, SendCheck, kernel
  <2>3. CASE \/ ListenCheck(t) \/ ListenRead(t) \/ ListenData(t) \/ ListenLeaves(t)
             \/ HandlerDone(t) \/ Return(t) \/ ReturnError(t)
    BY <1>2, <2>3 DEF ListenCheck, ListenRead, ListenData, ListenLeaves, HandlerDone,
       Return, ReturnError, Answer, kernel
  <2> QED
    BY <1>3, <1>7, <1>11, <2>1, <2>2, <2>3
    DEF Disconnect, Send, Listen, ListenEof, ListenCut
<1> QED
  BY <1>8, <1>9, <1>10, <1>11 DEF Next

\* The library neither closes nor writes a file of the application, though the
\* kernel gives the application the numbers the library has closed.
THEOREM AppFileSafe ==
  ASSUME Promise
  PROVE  Spec => AppFileUntouched
<1>1. TypeOK /\ ConnInv /\ [Next]_vars => [AppFileKept]_vars
  BY AppFileStep
<1> QED
  BY <1>1, ConnInvCorrect, PTL DEF Spec, AppFileUntouched

\* Only a connection whose lines have changed has lost some of them.
LEMMA OthersLoseNothing ==
  ASSUME NEW c, NEW d \in Conns, TypeOK, d # c => down'[d] = down[d],
         NEW i \in 1 .. Len(down[d]) - Len(down'[d])
  PROVE  d = c
<1>1. PICK m \in Nat : m = Len(down[d])
  BY DEF TypeOK
<1>2. ASSUME NEW n \in Nat, NEW j \in 1 .. n - n PROVE FALSE
  OBVIOUS
<1> QED
  BY <1>1, <1>2

LEMMA StreamsStep ==
  ASSUME TypeOK, ConnInv, [Next]_vars
  PROVE  [LinesTakenByTheirReaders]_vars
<1>1. \A c \in Conns : Len(down[c]) \in Nat
  BY DEF TypeOK
<1>2. ASSUME down' = down PROVE LinesTakenByTheirReaders
  BY <1>1, <1>2 DEF LinesTakenByTheirReaders
<1>3. ASSUME NEW c \in Conns, NEW r \in DownLine, down' = [down EXCEPT ![c] = Append(@, r)]
      PROVE  LinesTakenByTheirReaders
  <2>1. \A d \in Conns : d # c => down'[d] = down[d]
    BY <1>3 DEF TypeOK
  <2>2. down[c] \in Seq(DownLine) /\ down'[c] = Append(down[c], r)
    BY <1>3 DEF TypeOK
  <2>3. PICK m \in Nat : m = Len(down[c]) /\ Len(down'[c]) = m + 1
    BY <2>2
  <2>4. ASSUME NEW n \in Nat, NEW j \in 1 .. n - (n + 1) PROVE FALSE
    OBVIOUS
  <2>5. ASSUME NEW d \in Conns, NEW i \in 1 .. Len(down[d]) - Len(down'[d]) PROVE FALSE
    <3>1. d = c
      BY <2>1, OthersLoseNothing
    <3> QED
      BY <2>3, <2>4, <3>1
  <2> QED
    BY <2>5 DEF LinesTakenByTheirReaders
<1>4. ASSUME NEW t \in Threads, ConnectReply(t) PROVE LinesTakenByTheirReaders
  <2>1. CASE down' = down
    BY <1>2, <2>1
  <2>2. CASE down' # down
    <3>1. /\ pc[t] = "connReply" /\ pc'[t] \in {"connUntime", "connUntimeNo"}
          /\ down[Target] # <<>> /\ down' = [down EXCEPT ![Target] = Tail(@)]
      BY <1>4, <2>2 DEF ConnectReply, Goto, TypeOK
    <3>2. Target \in Conns /\ Greeted(Target)
      BY <3>1 DEF ConnInv, Stage, Holds
    <3>3. /\ down[Target] \in Seq(DownLine) /\ down'[Target] = Tail(down[Target])
          /\ \A d \in Conns : d # Target => down'[d] = down[d]
      BY <3>1, <3>2 DEF TypeOK
    <3>4. PICK n \in Nat : n = Len(down[Target]) /\ Len(Tail(down[Target])) = n - 1
      <4>1. down[Target] # <<>>
        BY <3>1
      <4> QED
        BY <3>3, <4>1, TailFacts
    <3>5. down[Target][1] # "msg"
      BY <3>1, <3>2 DEF Greeted, TypeOK
    <3>6. ASSUME NEW c \in Conns, NEW i \in 1 .. Len(down[c]) - Len(down'[c])
          PROVE  c = Target /\ i = 1
      <4>1. c = Target
        BY <3>3, OthersLoseNothing
      <4>2. i \in 1 .. n - (n - 1)
        BY <3>3, <3>4, <4>1
      <4>3. i = 1
        BY <4>2
      <4> QED
        BY <4>1, <4>3
    <3> QED
      BY <3>1, <3>5, <3>6 DEF LinesTakenByTheirReaders
  <2> QED
    BY <2>1, <2>2
<1>5. ASSUME NEW t \in Threads, ListenData(t) PROVE LinesTakenByTheirReaders
  <2>1. /\ pc[t] = "reading" /\ pc'[t] = "handle" /\ hold[t] = Target
        /\ Target \in Conns /\ Accepted(Target)
    BY <1>5, UsersConnected DEF ListenData, Goto, TypeOK, ConnInv, Uses
  <2>2. PICK n \in 1 .. Len(down[Target]) :
          down' = [down EXCEPT ![Target] = SubSeq(@, n + 1, Len(@))]
    BY <1>5, <2>1, FileFacts DEF ListenData
  <2>3. \A d \in Conns : d # Target => down'[d] = down[d]
    BY <2>2 DEF TypeOK
  <2>4. PICK m \in Nat : m = Len(down[Target])
    BY <1>1, <2>1
  <2>5. down'[Target] = SubSeq(down[Target], n + 1, m) /\ down[Target] \in Seq(DownLine)
    BY <2>1, <2>2, <2>4 DEF TypeOK
  <2>6. n \in 1 .. m /\ Len(down'[Target]) = m - n
    BY <2>2, <2>4, <2>5
  <2>7. ASSUME NEW c \in Conns, NEW i \in 1 .. Len(down[c]) - Len(down'[c])
        PROVE  c = Target /\ down[c][i] = "msg"
    <3>1. c = Target
      BY <2>3, OthersLoseNothing
    <3>2. i \in 1 .. m
      BY <2>4, <2>6, <3>1
    <3> QED
      BY <2>1, <2>4, <3>1, <3>2 DEF Accepted
  <2> QED
    BY <2>1, <2>7 DEF LinesTakenByTheirReaders
<1>6. CASE Destroy
  BY <1>2, <1>6 DEF Destroy
<1>7. CASE Environment
  BY <1>2, <1>3, <1>7 DEF Environment, HubReply, HubSend, HubClose, ForeignOpen,
     ForeignClose, kernel, DownLine
<1>8. ASSUME NEW t \in Threads, Connect(t) PROVE LinesTakenByTheirReaders
  <2>1. CASE CallConnect(t) \/ ConnectSocket(t) \/ ConnectOpen(t) \/ ConnectStore(t)
    BY <1>2, <2>1 DEF CallConnect, Enter, ConnectSocket, ConnectOpen, ConnectStore, kernel
  <2>2. CASE \/ ConnectTimed(t) \/ ConnectHello(t) \/ ConnectCut(t) \/ ConnectUntime(t)
             \/ ConnectRefuse(t) \/ ConnectVerify(t) \/ ConnectClose(t) \/ ConnectReset(t)
    BY <1>2, <2>2 DEF ConnectTimed, ConnectHello, ConnectCut, ConnectUntime, ConnectRefuse,
       ConnectVerify, ConnectClose, ConnectReset, kernel
  <2> QED
    BY <1>4, <1>8, <2>1, <2>2 DEF Connect
<1>9. ASSUME NEW t \in Threads,
             Disconnect(t) \/ Send(t) \/ Listen(t) \/ Return(t) \/ ReturnError(t)
      PROVE  LinesTakenByTheirReaders
  <2>1. CASE CallDisconnect(t) \/ CallSend(t) \/ CallListen(t)
    BY <1>2, <2>1 DEF CallDisconnect, CallSend, CallListen, Enter, kernel
  <2>2. CASE \/ DisconnectCheck(t) \/ DisconnectReset(t) \/ DisconnectDown(t)
             \/ SendCheck(t) \/ SendText(t) \/ SendNewline(t)
    BY <1>2, <2>2 DEF DisconnectCheck, DisconnectReset, DisconnectDown, SendCheck, SendText,
       SendNewline, kernel
  <2>3. CASE \/ ListenCheck(t) \/ ListenRead(t) \/ ListenLeaves(t) \/ HandlerDone(t)
             \/ Return(t) \/ ReturnError(t)
    BY <1>2, <2>3 DEF ListenCheck, ListenRead, ListenLeaves, HandlerDone, Return, ReturnError,
       Answer, kernel
  <2> QED
    BY <1>5, <1>9, <2>1, <2>2, <2>3 DEF Disconnect, Send, Listen, ListenEof, ListenCut
<1> QED
  BY <1>2, <1>6, <1>7, <1>8, <1>9 DEF Next

\* The hub's answer is taken by the connect it answers, and messages by the
\* thread that listens to their connection.
THEOREM StreamsApart ==
  ASSUME Promise
  PROVE  Spec => StreamsNotCrossed
<1>1. TypeOK /\ ConnInv /\ [Next]_vars => [LinesTakenByTheirReaders]_vars
  BY StreamsStep
<1> QED
  BY <1>1, ConnInvCorrect, PTL DEF Spec, StreamsNotCrossed

\* A step of one thread leaves the others where they are, and writes at most
\* one fragment, under the number of its own call or of none.
Acts(t) == Connect(t) \/ Disconnect(t) \/ Send(t) \/ Listen(t) \/ Return(t) \/ ReturnError(t)

Begins(t) == CallConnect(t) \/ CallDisconnect(t) \/ CallSend(t) \/ CallListen(t)

LEMMA OneMoves ==
  ASSUME NEW t \in Threads, TypeOK, Acts(t)
  PROVE  /\ \A u \in Threads : u # t =>
              pc'[u] = pc[u] /\ call'[u] = call[u] /\ result'[u] = result[u]
         /\ slotOf' = t \/ UNCHANGED <<slotOf, errorCode>>
         /\ \/ wire' = wire
            \/ \E m \in {0, call[t]} : \E kind \in Kinds : Put(m, kind)
<1> DEFINE Goal == /\ \A u \in Threads : u # t =>
                        pc'[u] = pc[u] /\ call'[u] = call[u] /\ result'[u] = result[u]
                   /\ slotOf' = t \/ UNCHANGED <<slotOf, errorCode>>
                   /\ \/ wire' = wire
                      \/ \E m \in {0, call[t]} : \E kind \in Kinds : Put(m, kind)
<1> SUFFICES Goal
  BY DEF Goal
<1>1. ASSUME NEW l, Goto(t, l), slotOf' = t \/ UNCHANGED slot, UNCHANGED <<call, result>>,
             \/ wire' = wire
             \/ \E m \in {0, call[t]} : \E kind \in Kinds : Put(m, kind)
      PROVE  Goal
  BY <1>1 DEF Goto, TypeOK, slot
<1>2. ASSUME Begins(t) PROVE Goal
  BY <1>2 DEF Begins, CallConnect, CallDisconnect, CallSend, CallListen, Enter, Goto, TypeOK,
     kernel
<1>3. ASSUME NEW r, Answer(t, r) PROVE Goal
  BY <1>3 DEF Answer, Goto, TypeOK, client, slot, kernel
<1> HIDE DEF Goal
<1>4. CASE ConnectSocket(t) \/ ConnectOpen(t) \/ ConnectStore(t) \/ ConnectTimed(t)
  BY <1>1, <1>4 DEF ConnectSocket, ConnectOpen, ConnectStore, ConnectTimed, Fail, client,
     kernel, local
<1>5. CASE ConnectHello(t)
  <2>1. {"id", "idPart"} \subseteq Kinds
    BY DEF Kinds
  <2> QED
    BY <1>1, <1>5, <2>1 DEF ConnectHello, Fail, local
<1>6. CASE ConnectReply(t) \/ ConnectCut(t) \/ ConnectUntime(t) \/ ConnectRefuse(t)
  BY <1>1, <1>6 DEF ConnectReply, ConnectCut, ConnectUntime, ConnectRefuse, Fail, client,
     kernel, local
<1>7. CASE ConnectVerify(t) \/ ConnectClose(t) \/ ConnectReset(t)
  BY <1>1, <1>7 DEF ConnectVerify, ConnectClose, ConnectReset, client, kernel, local
<1>8. CASE DisconnectCheck(t) \/ DisconnectReset(t) \/ DisconnectDown(t) \/ SendCheck(t)
  BY <1>1, <1>8 DEF DisconnectCheck, DisconnectReset, DisconnectDown, SendCheck, Fail, client,
     kernel, local
<1>9. CASE SendText(t) \/ SendNewline(t)
  <2>1. Texts \subseteq Kinds /\ {"part", "nl"} \subseteq Kinds
    BY TextsType DEF Kinds
  <2> QED
    BY <1>1, <1>9, <2>1 DEF SendText, SendNewline, Fail, local
<1>10. CASE ListenCheck(t) \/ ListenRead(t) \/ ListenData(t) \/ ListenLeaves(t) \/ HandlerDone(t)
  BY <1>1, <1>10 DEF ListenCheck, ListenRead, ListenData, ListenLeaves, HandlerDone, Fail,
     client, kernel, local
<1>11. CASE Return(t) \/ ReturnError(t)
  BY <1>1, <1>3, <1>11 DEF Return, ReturnError, client, kernel, local
<1> QED
  BY <1>2, <1>4, <1>5, <1>6, <1>7, <1>8, <1>9, <1>10, <1>11
  DEF Acts, Begins, Connect, Disconnect, Send, Listen, ListenEof, ListenCut

\* A thread that has moved has acted.
LEMMA MoverActs ==
  ASSUME TypeOK, [Next]_vars, NEW t \in Threads, pc'[t] # pc[t]
  PROVE  Acts(t)
<1>1. ~Destroy /\ ~Environment /\ ~UNCHANGED vars
  BY DEF Destroy, Environment, HubReply, HubSend, HubClose, ForeignOpen, ForeignClose,
     vars, threads
<1>2. PICK u \in Threads : Acts(u)
  BY <1>1 DEF Next, Acts
<1> QED
  BY <1>2, OneMoves

\* Only the end of a listener's read takes it out of the loop.
LEMMA LeavingSteps ==
  ASSUME TypeOK, [Next]_vars, NEW t \in Threads, pc[t] = "reading", pc'[t] = "listenRet"
  PROVE  ListenEof(t) \/ ListenCut(t)
<1>1. Acts(t)
  BY MoverActs
<1>2. ~Connect(t)
  BY DEF Connect, CallConnect, MayEnter, ConnectSocket, ConnectOpen, ConnectStore,
     ConnectTimed, ConnectHello, ConnectReply, ConnectCut, ConnectUntime, ConnectRefuse,
     ConnectVerify, ConnectClose, ConnectReset
<1>3. ~Disconnect(t) /\ ~Send(t)
  BY DEF Disconnect, Send, CallDisconnect, CallSend, MayEnter, DisconnectCheck,
     DisconnectReset, DisconnectDown, SendCheck, SendText, SendNewline
<1>4. ~Return(t) /\ ~ReturnError(t)
  BY DEF Return, ReturnError, SecondLook
<1>5. ~CallListen(t) /\ ~ListenCheck(t) /\ ~ListenRead(t) /\ ~HandlerDone(t)
  BY DEF CallListen, MayEnter, ListenCheck, ListenRead, HandlerDone
<1>6. ~ListenData(t)
  BY DEF ListenData, Goto, TypeOK
<1> QED
  BY <1>1, <1>2, <1>3, <1>4, <1>5, <1>6 DEF Acts, Listen

\* Without signals, a listener leaves its loop only when the hub has hung up:
\* the socket it reads has no timeout left from the handshake, and nobody
\* closes it under the read.
THEOREM SilentHubKept ==
  ASSUME Promise, ~Interrupts
  PROVE  Spec => SilentHubKeepsListener
<1>1. TypeOK /\ ConnInv /\ [Next]_vars => [LeavesOnHangup]_vars
  <2> SUFFICES ASSUME TypeOK, ConnInv, [Next]_vars, NEW t \in Threads,
                      pc[t] = "reading", pc'[t] = "listenRet", hold[t] \in Conns
               PROVE  ~open[hold[t]]
    BY DEF LeavesOnHangup
  <2>1. hold[t] = Target /\ hold[t] \notin timed /\ \E f \in Fds : fdTable[f] = hold[t]
    BY UsersConnected DEF ConnInv, Uses
  <2>2. ~ListenCut(t)
    BY <2>1 DEF ListenCut
  <2> QED
    BY <2>2, LeavingSteps DEF ListenEof
<1> QED
  BY <1>1, ConnInvCorrect, PTL DEF Spec, SilentHubKeepsListener

----------------------------------------------------------------------------
(* What the hub reads *)

\* The callers' promise, and an environment without interrupted writes.
Calm == Promise /\ ~Interrupts

\* One write(): a fragment at the end of the file behind socketFd.
LEMMA PutAt ==
  ASSUME NEW m \in 0 .. MaxCalls, NEW kind \in Kinds, TypeOK, Put(m, kind)
  PROVE  /\ Target \in Files
         /\ \A k \in Files : k # Target => wire'[k] = wire[k]
         /\ \E n \in Nat :
              /\ n = Len(wire[Target]) /\ Len(wire'[Target]) = n + 1
              /\ \A i \in 1 .. n : wire'[Target][i] = wire[Target][i]
              /\ wire'[Target][n + 1].kind = kind
              /\ wire'[Target][n + 1].call = m
<1> DEFINE g == [kind |-> kind, call |-> m]
<1>1. Target \in Files /\ wire' = [wire EXCEPT ![Target] = Append(@, g)]
  BY DEF Put, Writable, Files
<1>2. \A k \in Files : k # Target => wire'[k] = wire[k]
  BY <1>1 DEF TypeOK
<1>3. wire[Target] \in Seq(Fragment) /\ wire'[Target] = Append(wire[Target], g)
  BY <1>1 DEF TypeOK
<1>4. g.kind = kind /\ g.call = m
  OBVIOUS
<1> HIDE DEF g
<1>5. PICK n \in Nat : n = Len(wire[Target])
  BY <1>3
<1>6. /\ Len(wire'[Target]) = n + 1
      /\ \A i \in 1 .. n : wire'[Target][i] = wire[Target][i]
      /\ wire'[Target][n + 1] = g
  BY <1>3, <1>5
<1> QED
  BY <1>1, <1>2, <1>4, <1>5, <1>6

LEMMA CallsAreNumbers ==
  ASSUME TypeOK
  PROVE  0 \in 0 .. MaxCalls /\ \A t \in Threads : call[t] \in 0 .. MaxCalls
BY BoundsAreNat DEF TypeOK

LEMMA TextsAreKinds ==
  Texts \subseteq Kinds /\ {"id", "idPart", "part", "nl"} \subseteq Kinds
BY TextsType DEF Kinds

\* Nobody is inside connect or disconnect.
Resting == \A t \in Threads : pc[t] \notin Working

LEMMA RestingFacts ==
  ASSUME TypeOK, ConnInv, Resting, connected
  PROVE  Target \in Conns
BY DEF ConnInv, Settled, Resting, Rest, Holds

----------------------------------------------------------------------------
(* The lines of a connection *)

\* While the hub reads, the mutex is held exactly when the last message of the
\* connection still lacks its newline.
Lines ==
  connected /\ Resting /\ open[Target] =>
    /\ wire[Target] # <<>>
    /\ writeMu = NoThread <=> Len(wire[Target]) % 2 = 1

LEMMA Parity ==
  \A n \in Nat : /\ n % 2 \in {0, 1}
                 /\ n % 2 = 1 => (n + 1) % 2 = 0
                 /\ n % 2 = 0 => (n + 1) % 2 = 1
OBVIOUS

\* A fragment of the right kind is added to one connection.
LEMMA FramingGrows ==
  ASSUME NEW m \in 0 .. MaxCalls, NEW kind \in Kinds, TypeOK, WireFraming,
         Put(m, kind),
         \A n \in Nat : n = Len(wire[Target]) =>
           kind \in IF n = 0 THEN {"id"} ELSE IF n % 2 = 1 THEN Texts ELSE {"nl"}
  PROVE  WireFraming'
<1> DEFINE K(i) == IF i = 1 THEN {"id"} ELSE IF i % 2 = 0 THEN Texts ELSE {"nl"}
<1>1. /\ \A k \in Files : k # Target => wire'[k] = wire[k]
      /\ Target \in Files
  BY PutAt
<1>2. PICK n \in Nat :
        /\ n = Len(wire[Target]) /\ Len(wire'[Target]) = n + 1
        /\ \A i \in 1 .. n : wire'[Target][i] = wire[Target][i]
        /\ wire'[Target][n + 1].kind = kind
  BY PutAt
<1>3. kind \in K(n + 1)
  <2>1. kind \in IF n = 0 THEN {"id"} ELSE IF n % 2 = 1 THEN Texts ELSE {"nl"}
    BY <1>2
  <2>2. CASE n = 0
    BY <2>1, <2>2
  <2>3. CASE n # 0 /\ n % 2 = 1
    <3>1. n + 1 # 1 /\ (n + 1) % 2 = 0
      BY <2>3, Parity
    <3> QED
      BY <2>1, <2>3, <3>1
  <2>4. CASE n # 0 /\ n % 2 = 0
    <3>1. n + 1 # 1 /\ (n + 1) % 2 = 1
      BY <2>4, Parity
    <3> QED
      BY <2>1, <2>4, <3>1
  <2> QED
    BY <2>2, <2>3, <2>4, Parity
<1>4. \A c \in Conns : \A i \in 1 .. Len(wire[c]) : wire[c][i].kind \in K(i)
  BY DEF WireFraming
<1>5. SUFFICES ASSUME NEW c \in Conns, NEW i \in 1 .. Len(wire'[c])
               PROVE  wire'[c][i].kind \in K(i)
  BY DEF WireFraming
<1> HIDE DEF K
<1>6. CASE c # Target
  BY <1>1, <1>4, <1>6, FileFacts
<1>7. CASE c = Target
  <2>1. i \in 1 .. n \/ i = n + 1
    BY <1>2, <1>7
  <2> QED
    BY <1>2, <1>3, <1>4, <1>7, <2>1
<1> QED
  BY <1>6, <1>7

\* No thread holds the mutex when none is between its two writes.
LEMMA MutexFree ==
  ASSUME TypeOK, WritersInvariant, \A t \in Threads : pc[t] # "sendNl"
  PROVE  writeMu = NoThread
BY DEF TypeOK, WritersInvariant

LEMMA WritableConn ==
  ASSUME TypeOK, Target \in Conns
  PROVE  Writable(Target) <=> open[Target]
BY FileFacts DEF Writable

\* A step that writes nothing and takes no mutex.
LEMMA LinesFrame ==
  ASSUME TypeOK, ConnInv, Lines, WireFraming,
         UNCHANGED <<wire, writeMu>>,
         Resting' /\ connected' =>
           /\ Resting /\ connected /\ Target' = Target
           /\ \A c \in Conns : open'[c] => open[c]
  PROVE  Lines' /\ WireFraming'
<1>1. WireFraming'
  BY DEF WireFraming
<1>2. SUFFICES ASSUME connected', Resting', open'[Target']
               PROVE  /\ wire'[Target'] # <<>>
                      /\ writeMu' = NoThread <=> Len(wire'[Target']) % 2 = 1
  BY <1>1 DEF Lines
<1>3. Resting /\ connected /\ Target' = Target /\ Target \in Conns
  BY <1>2, RestingFacts
<1> QED
  BY <1>2, <1>3 DEF Lines

LEMMA LinesInit == Init => Lines /\ WireFraming
<1>1. Init => ~connected /\ wire = [k \in Files |-> <<>>]
  BY DEF Init
<1>2. wire = [k \in Files |-> <<>>] => WireFraming
  BY FileFacts DEF WireFraming
<1> QED
  BY <1>1, <1>2 DEF Lines

\* A connect, when it ends well, leaves the node id and nothing else.
LEMMA LinesConnect ==
  ASSUME NEW t \in Threads, Calm, TypeOK, WritersInvariant, ConnInv, Lines, WireFraming,
         Connect(t), ~CallConnect(t)
  PROVE  Lines' /\ WireFraming'
<1>1. pc[t] \in ConnectPcs /\ pc[t] \in LifecyclePcs
  BY DEF Connect, ConnectSocket, ConnectOpen, ConnectStore, ConnectTimed, ConnectHello,
     ConnectReply, ConnectCut, ConnectUntime, ConnectRefuse, ConnectVerify, ConnectClose,
     ConnectReset, ConnectPcs, LifecyclePcs
<1>2. ~connected /\ Stage(t) /\ Exclusive
  BY <1>1 DEF ConnInv, Stage
<1>3. ASSUME ~connected' PROVE Lines'
  BY <1>3 DEF Lines
<1>4. ASSUME wire' = wire PROVE WireFraming'
  BY <1>4 DEF WireFraming
<1>5. CASE ConnectHello(t)
  <2>1. ~connected' /\ Fresh(Target) /\ Target \in Conns
    BY <1>2, <1>5 DEF ConnectHello, Stage, Holds
  <2>2. CASE Put(0, "id")
    <3>1. Len(wire[Target]) = 0
      BY <2>1 DEF Fresh
    <3>2. WireFraming'
      BY <2>2, <3>1, FramingGrows, CallsAreNumbers, TextsAreKinds
    <3> QED
      BY <1>3, <2>1, <3>2
  <2>3. CASE wire' = wire
    BY <1>3, <1>4, <2>1, <2>3
  <2> QED
    BY <1>5, <2>2, <2>3 DEF ConnectHello, Calm
<1>6. CASE ConnectVerify(t)
  <2>1. UNCHANGED <<wire, socketFd, fdTable, writeMu>> /\ pc[t] = "connVerify"
    BY <1>6 DEF ConnectVerify, kernel
  <2>2. CASE errorCode # ""
    <3>1. ~connected'
      BY <1>2, <1>6, <2>2 DEF ConnectVerify
    <3> QED
      BY <1>3, <1>4, <2>1, <3>1
  <2>3. CASE errorCode = ""
    <3>1. Len(wire[Target]) = 1
      BY <1>2, <2>1, <2>3 DEF Stage
    <3>2. writeMu' = NoThread
      <4>1. \A u \in Threads : pc[u] # "sendNl"
        BY <1>1, <1>2, <2>1 DEF Exclusive
      <4> QED
        BY <2>1, <4>1, MutexFree
    <3>3. Target' = Target
      BY <2>1 DEF Target
    <3>4. wire[Target] # <<>>
      BY <3>1
    <3>5. Len(wire'[Target']) % 2 = 1
      <4>1. Len(wire'[Target']) = 1
        BY <2>1, <3>1, <3>3
      <4>2. 1 % 2 = 1
        OBVIOUS
      <4> QED
        BY <4>1, <4>2
    <3> QED
      BY <1>4, <2>1, <3>2, <3>3, <3>4, <3>5 DEF Lines
  <2> QED
    BY <2>2, <2>3
<1>7. CASE ~ConnectHello(t) /\ ~ConnectVerify(t)
  <2>1. connected' = connected /\ wire' = wire
    <3>1. CASE ConnectSocket(t) \/ ConnectOpen(t) \/ ConnectStore(t) \/ ConnectTimed(t)
      BY <3>1 DEF ConnectSocket, ConnectOpen, ConnectStore, ConnectTimed, client, kernel
    <3>2. CASE ConnectReply(t) \/ ConnectCut(t) \/ ConnectUntime(t) \/ ConnectRefuse(t)
      BY <3>2 DEF ConnectReply, ConnectCut, ConnectUntime, ConnectRefuse, client, kernel
    <3>3. CASE ConnectClose(t) \/ ConnectReset(t)
      BY <3>3 DEF ConnectClose, ConnectReset, client, kernel
    <3> QED
      BY <1>7, <3>1, <3>2, <3>3 DEF Connect
  <2> QED
    BY <1>2, <1>3, <1>4, <2>1
<1> QED
  BY <1>5, <1>6, <1>7

LEMMA LinesSend ==
  ASSUME NEW t \in Threads, Calm, TypeOK, WritersInvariant, ConnInv, Lines, WireFraming,
         SendText(t) \/ SendNewline(t)
  PROVE  Lines' /\ WireFraming'
<1>1. /\ pc[t] \in {"sendText", "sendNl"}
      /\ UNCHANGED <<connected, socketFd, fdTable, open>>
  BY DEF SendText, SendNewline, hub
<1>2. Resting /\ connected /\ Target \in Conns /\ Target' = Target
  <2>1. pc[t] # "idle" /\ pc[t] \notin LifecyclePcs
    BY <1>1 DEF LifecyclePcs, ConnectPcs, DisconnectPcs
  <2>2. Resting
    BY <2>1, NobodyConnects, PcFacts DEF Resting
  <2> QED
    BY <1>1, <2>2, UsersConnected DEF Target
<1>3. ASSUME ~open[Target] PROVE Lines'
  BY <1>1, <1>2, <1>3 DEF Lines
<1>4. ASSUME wire' = wire PROVE WireFraming'
  BY <1>4 DEF WireFraming
<1>5. ASSUME PutFails, wire' = wire PROVE Lines' /\ WireFraming'
  BY <1>2, <1>3, <1>4, <1>5, WritableConn DEF PutFails, Calm
<1>6. ASSUME NEW kind \in Texts \cup {"nl"}, Put(call[t], kind),
             kind \in Texts <=> writeMu = NoThread,
             kind \in Texts <=> writeMu' # NoThread
      PROVE  Lines' /\ WireFraming'
  <2>1. open[Target]
    BY <1>2, <1>6, WritableConn DEF Put
  <2>2. wire[Target] # <<>> /\ (writeMu = NoThread <=> Len(wire[Target]) % 2 = 1)
    BY <1>2, <2>1 DEF Lines
  <2>3. kind \in Kinds /\ call[t] \in 0 .. MaxCalls
    BY CallsAreNumbers, TextsAreKinds
  <2>4. PICK n \in Nat : n = Len(wire[Target]) /\ Len(wire'[Target]) = n + 1
    BY <1>6, <2>3, PutAt
  <2>5. n # 0 /\ wire'[Target] # <<>>
    <3>1. wire[Target] \in Seq(Fragment)
      BY <1>2, FileFacts DEF TypeOK
    <3>2. n # 0
      BY <2>2, <2>4, <3>1
    <3>3. wire'[Target] # <<>>
      BY <2>4
    <3> QED
      BY <3>2, <3>3
  <2>6. kind \in IF n = 0 THEN {"id"} ELSE IF n % 2 = 1 THEN Texts ELSE {"nl"}
    BY <1>6, <2>2, <2>4, <2>5
  <2>7. WireFraming'
    BY <1>6, <2>3, <2>4, <2>6, FramingGrows
  <2>8. writeMu' = NoThread <=> (n + 1) % 2 = 1
    <3>1. kind \in Texts <=> n % 2 = 1
      BY <1>6, <2>2, <2>4
    <3>2. kind \in Texts <=> (n + 1) % 2 = 0
      BY <3>1, Parity
    <3>3. (n + 1) % 2 = 0 <=> (n + 1) % 2 # 1
      BY Parity
    <3> QED
      BY <1>6, <3>2, <3>3
  <2>9. Lines'
    BY <1>2, <2>4, <2>5, <2>8 DEF Lines
  <2> QED
    BY <2>7, <2>9
<1>7. NoThread \notin Threads /\ "nl" \notin Texts
  BY ClientAssumption DEF ClientAssumption
<1>8. CASE SendText(t)
  <2>1. writeMu = NoThread
    BY <1>8 DEF SendText
  <2>2. CASE PutFails /\ wire' = wire
    BY <1>5, <2>2
  <2>3. ASSUME NEW kind \in Texts, Put(call[t], kind), writeMu' = t PROVE Lines' /\ WireFraming'
    BY <1>6, <1>7, <2>1, <2>3
  <2> QED
    BY <1>8, <2>2, <2>3 DEF SendText, Calm
<1>9. CASE SendNewline(t)
  <2>1. writeMu = t /\ writeMu' = NoThread
    BY <1>9 DEF SendNewline, WritersInvariant
  <2>2. CASE PutFails /\ wire' = wire
    BY <1>5, <2>2
  <2>3. CASE Put(call[t], "nl")
    BY <1>6, <1>7, <2>1, <2>3
  <2> QED
    BY <1>9, <2>2, <2>3 DEF SendNewline
<1> QED
  BY <1>8, <1>9

LEMMA LinesStep ==
  ASSUME Calm, TypeOK, WritersInvariant, ConnInv, Lines, WireFraming, [Next]_vars
  PROVE  Lines' /\ WireFraming'
<1>1. ASSUME NEW t \in Threads,
             CallConnect(t) \/ CallDisconnect(t) \/ CallSend(t) \/ CallListen(t)
      PROVE  Lines' /\ WireFraming'
  <2>1. /\ UNCHANGED <<wire, writeMu, connected, socketFd, fdTable, open>>
        /\ pc[t] \in {"idle", "handle"} /\ \E l : Goto(t, l)
    BY <1>1 DEF CallConnect, CallDisconnect, CallSend, CallListen, MayEnter, Enter, kernel, hub
  <2>2. Resting' => Resting
    BY <2>1, PcFacts DEF Resting, Goto, TypeOK
  <2> QED
    BY <2>1, <2>2, LinesFrame DEF Target
<1>2. ASSUME NEW t \in Threads,
             DisconnectCheck(t) \/ DisconnectReset(t) \/ DisconnectDown(t)
      PROVE  Lines' /\ WireFraming'
  <2>1. UNCHANGED <<wire, writeMu>>
    BY <1>2 DEF DisconnectCheck, DisconnectReset, DisconnectDown, client, kernel
  <2>2. ~(Resting' /\ connected')
    <3>1. pc[t] = "discCheck" => connected /\ Holds
      BY DEF ConnInv, Stage, DisconnectPcs
    <3>2. Holds => socketFd # NoFd
      BY HoldsFacts DEF ConnInv
    <3>3. CASE DisconnectDown(t)
      BY <3>3 DEF DisconnectDown
    <3>4. CASE DisconnectCheck(t) \/ DisconnectReset(t)
      <4>1. pc'[t] \in {"discReset", "discDown"}
        BY <3>1, <3>2, <3>4 DEF DisconnectCheck, DisconnectReset, Goto, TypeOK
      <4> QED
        BY <4>1 DEF Resting, Working, DisconnectPcs
    <3> QED
      BY <1>2, <3>3, <3>4
  <2> QED
    BY <2>1, <2>2, LinesFrame
<1>3. ASSUME NEW t \in Threads,
             \/ SendCheck(t) \/ ListenCheck(t) \/ ListenRead(t) \/ ListenData(t)
             \/ ListenLeaves(t) \/ HandlerDone(t) \/ Return(t) \/ ReturnError(t)
      PROVE  Lines' /\ WireFraming'
  <2>1. UNCHANGED <<wire, writeMu, connected, socketFd, fdTable, open>>
    BY <1>3 DEF SendCheck, ListenCheck, ListenRead, ListenData, ListenLeaves, HandlerDone,
       Return, ReturnError, Answer, client, kernel, hub
  <2>2. pc[t] \notin Working /\ \E l : Goto(t, l)
    BY <1>3 DEF SendCheck, ListenCheck, ListenRead, ListenData, ListenLeaves, HandlerDone,
       Return, ReturnError, Answer, SecondLook, Working, ConnectPcs, DisconnectPcs
  <2>3. Resting' => Resting
    BY <2>2 DEF Resting, Goto, TypeOK
  <2> QED
    BY <2>1, <2>3, LinesFrame DEF Target
<1>4. CASE Destroy
  BY <1>4, LinesFrame DEF Destroy
<1>5. CASE Environment
  <2>1. UNCHANGED <<wire, writeMu, connected, socketFd, pc>> /\ (Resting' <=> Resting)
    BY <1>5 DEF Environment, HubReply, HubSend, HubClose, ForeignOpen, ForeignClose,
       client, kernel, threads, Resting
  <2>2. \A c \in Conns : open'[c] => open[c]
    BY <1>5 DEF Environment, HubReply, HubSend, HubClose, ForeignOpen, ForeignClose, hub, TypeOK
  <2>3. Target \in Conns => Target' = Target
    <3>1. \A f \in Fds : fdTable[f] \in Conns => fdTable'[f] = fdTable[f]
      BY <1>5, FileFacts DEF Environment, HubReply, HubSend, HubClose, ForeignOpen,
         ForeignClose, kernel, TypeOK
    <3> QED
      BY <2>1, <3>1, FileFacts DEF Target, TypeOK
  <2>4. Resting /\ connected => Target \in Conns
    BY RestingFacts
  <2> QED
    BY <2>1, <2>2, <2>3, <2>4, LinesFrame
<1>6. CASE UNCHANGED vars
  BY <1>6, LinesFrame DEF vars, client, kernel, hub, threads, Resting, Target
<1>7. ASSUME NEW t \in Threads, Connect(t) PROVE Lines' /\ WireFraming'
  BY <1>1, <1>7, LinesConnect
<1>8. ASSUME NEW t \in Threads,
             Disconnect(t) \/ Send(t) \/ Listen(t) \/ Return(t) \/ ReturnError(t)
      PROVE  Lines' /\ WireFraming'
  BY <1>1, <1>2, <1>3, <1>8, LinesSend DEF Disconnect, Send, Listen, ListenEof, ListenCut
<1> QED
  BY <1>4, <1>5, <1>6, <1>7, <1>8 DEF Next

\* The callers' promise kept and no write cut short, the hub reads from every
\* connection the node id and then messages, each followed by the newline of
\* writeRaw.
THEOREM FramingCorrect ==
  ASSUME Calm
  PROVE  Spec => []WireFraming
<1>1. Init => Lines /\ WireFraming
  BY LinesInit
<1>2. /\ TypeOK /\ ConnInv /\ WritersInvariant /\ Lines /\ WireFraming /\ [Next]_vars
      => (Lines /\ WireFraming)'
  BY LinesStep
<1>3. Promise
  BY DEF Calm
<1> QED
  BY <1>1, <1>2, <1>3, ConnInvCorrect, WritersCorrect, PTL DEF Spec

----------------------------------------------------------------------------
(* What a send has written, and what it tells *)

\* A call's fragments stay what they are when other calls write.
LEMMA MineKept ==
  ASSUME NEW t \in Threads, NEW k \in Files, NEW m \in 0 .. MaxCalls, NEW kind \in Kinds,
         TypeOK, Put(m, kind), call[t] # m \/ k # Target, call'[t] = call[t]
  PROVE  Mine(t, k)' = Mine(t, k) /\ \A i \in Mine(t, k) : wire'[k][i] = wire[k][i]
<1>1. CASE k # Target
  <2>1. wire'[k] = wire[k]
    BY <1>1, PutAt
  <2> QED
    BY <2>1 DEF Mine
<1>2. CASE k = Target /\ call[t] # m
  <2>1. PICK n \in Nat :
          /\ n = Len(wire[k]) /\ Len(wire'[k]) = n + 1
          /\ \A i \in 1 .. n : wire'[k][i] = wire[k][i]
          /\ wire'[k][n + 1].call = m
    <3>1. \E n \in Nat :
            /\ n = Len(wire[Target]) /\ Len(wire'[Target]) = n + 1
            /\ \A i \in 1 .. n : wire'[Target][i] = wire[Target][i]
            /\ wire'[Target][n + 1].kind = kind
            /\ wire'[Target][n + 1].call = m
      BY PutAt
    <3> QED
      BY <1>2, <3>1
  <2>2. \A i : i \in 1 .. n + 1 <=> i \in 1 .. n \/ i = n + 1
    BY <2>1
  <2> QED
    BY <1>2, <2>1, <2>2 DEF Mine
<1> QED
  BY <1>1, <1>2

\* The call's own write: one more fragment of its own.
LEMMA MineGrows ==
  ASSUME NEW t \in Threads, NEW kind \in Kinds, NEW k \in Files,
         TypeOK, Put(call[t], kind), call'[t] = call[t], k = Target
  PROVE  \E e \in Nat :
           /\ e \notin Mine(t, k) /\ (\A i \in Mine(t, k) : i < e)
           /\ Mine(t, k)' = Mine(t, k) \cup {e}
           /\ wire'[k][e].kind = kind
           /\ \A i \in Mine(t, k) : wire'[k][i] = wire[k][i]
<1>1. PICK n \in Nat :
        /\ n = Len(wire[k]) /\ Len(wire'[k]) = n + 1
        /\ \A i \in 1 .. n : wire'[k][i] = wire[k][i]
        /\ wire'[k][n + 1].kind = kind
        /\ wire'[k][n + 1].call = call[t]
  <2>1. call[t] \in 0 .. MaxCalls
    BY CallsAreNumbers
  <2>2. \E n \in Nat :
          /\ n = Len(wire[Target]) /\ Len(wire'[Target]) = n + 1
          /\ \A i \in 1 .. n : wire'[Target][i] = wire[Target][i]
          /\ wire'[Target][n + 1].kind = kind
          /\ wire'[Target][n + 1].call = call[t]
    BY <2>1, PutAt
  <2> QED
    BY <2>2
<1>2. \A i : i \in 1 .. n + 1 <=> i \in 1 .. n \/ i = n + 1
  BY <1>1
<1>3. n + 1 \in Nat /\ \A i \in 1 .. n : i < n + 1
  BY <1>1
<1>4. Mine(t, k) = {i \in 1 .. n : wire[k][i].call = call[t]}
  BY <1>1 DEF Mine
<1>5. Mine(t, k)' = {i \in 1 .. n + 1 : wire'[k][i].call = call[t]}
  BY <1>1 DEF Mine
<1>6. Mine(t, k)' = Mine(t, k) \cup {n + 1}
  BY <1>1, <1>2, <1>4, <1>5
<1>7. n + 1 \notin Mine(t, k) /\ \A i \in Mine(t, k) : i < n + 1
  BY <1>3, <1>4
<1>8. \A i \in Mine(t, k) : wire'[k][i] = wire[k][i]
  BY <1>1, <1>4
<1> QED
  BY <1>1, <1>3, <1>6, <1>7, <1>8

Nothing(t) == \A k \in Files : Mine(t, k) = {}

\* The call has put the text of its message on the client's socket and nothing
\* else anywhere.
TextOnly(t) ==
  /\ \E i \in Mine(t, Target) : Mine(t, Target) = {i} /\ wire[Target][i].kind \in Texts
  /\ \A k \in Files \ {Target} : Mine(t, k) = {}

\* What the error slot says of a send, when it had the last word there.
Told(t) ==
  /\ pc[t] = "sendNl" => TextOnly(t)
  /\ slotOf = t =>
       /\ pc[t] \in {"sendCheck", "sendText", "sendNl"} => errorCode = ""
       /\ pc[t] \in {"sendRet", "sendCode"} =>
            /\ errorCode = "" <=> SentWhole(t)
            /\ errorCode \in {"NotConnected", "NullArgument"} => Nothing(t)
       /\ pc[t] = "sendCode" => errorCode # ""

\* Nothing is written to a file that is not a connection.
AtHome == \A k \in Files \ Conns : wire[k] = <<>>

Reports == AtHome /\ \A t \in Threads : Told(t)

LEMMA MineFacts ==
  ASSUME TypeOK, NEW t, NEW k \in Files, NEW i \in Mine(t, k)
  PROVE  i \in Nat
BY FragmentFacts DEF Mine

LEMMA NothingIsNotWhole ==
  ASSUME NEW t, Nothing(t)
  PROVE  ~SentWhole(t)
BY DEF Nothing, SentWhole

LEMMA TextIsNotWhole ==
  ASSUME TypeOK, NEW t, TextOnly(t), Target \in Files
  PROVE  ~SentWhole(t)
<1> SUFFICES ASSUME NEW k \in Files, NEW i \in Mine(t, k), NEW j \in Mine(t, k), i < j
             PROVE  FALSE
  BY DEF SentWhole
<1>1. k = Target /\ i = j
  BY DEF TextOnly
<1>2. i \in Nat
  BY MineFacts
<1> QED
  BY <1>1, <1>2

\* A call that is still to write has written nothing.
LEMMA NothingYet ==
  ASSUME TypeOK, WritersInvariant, NEW t \in Threads, pc[t] \in {"sendCheck", "sendText"}
  PROVE  Nothing(t)
BY DEF WritersInvariant, Nothing, Mine

LEMMA SendFacts ==
  ASSUME TypeOK, ConnInv, NEW t \in Threads, pc[t] \in {"sendText", "sendNl"}
  PROVE  Target \in Conns /\ Target \in Files
BY UsersConnected, FileFacts

LEMMA ReportsInit == Init => Reports
<1> SUFFICES ASSUME Init PROVE Reports
  OBVIOUS
<1>1. wire = [k \in Files |-> <<>>] /\ \A t \in Threads : pc[t] = "idle"
  BY DEF Init
<1> QED
  BY <1>1 DEF Reports, AtHome, Told

\* A send of which a step takes no notice.
LEMMA ToldKept ==
  ASSUME NEW t \in Threads, Told(t), pc'[t] = pc[t], call'[t] = call[t],
         slotOf' = t => slotOf = t /\ errorCode' = errorCode,
         pc[t] = "sendNl" => Target' = Target,
         pc[t] \in SendPcs => \A k \in Files :
           Mine(t, k)' = Mine(t, k) /\ \A i \in Mine(t, k) : wire'[k][i] = wire[k][i],
         pc[t] = "sendNl" => Target \in Files
  PROVE  Told(t)'
<1>1. CASE pc[t] \notin SendPcs
  BY <1>1 DEF Told, SendPcs
<1>2. CASE pc[t] \in SendPcs
  <2>1. (SentWhole(t)' <=> SentWhole(t)) /\ (Nothing(t)' <=> Nothing(t))
    BY <1>2 DEF SentWhole, Nothing
  <2>2. ASSUME pc[t] = "sendNl" PROVE TextOnly(t)'
    <3>1. TextOnly(t) /\ Target' = Target /\ Target \in Files
      BY <2>2 DEF Told
    <3>2. PICK i \in Mine(t, Target) : Mine(t, Target) = {i} /\ wire[Target][i].kind \in Texts
      BY <3>1 DEF TextOnly
    <3>3. Mine(t, Target)' = {i} /\ wire'[Target][i].kind \in Texts
      <4>1. PICK k \in Files : k = Target
        BY <3>1
      <4>2. Mine(t, k)' = {i} /\ wire'[k][i] = wire[k][i]
        BY <1>2, <3>2, <4>1
      <4>3. Mine(t, Target)' = Mine(t, k)'
        BY <3>1, <4>1 DEF Mine
      <4> QED
        BY <3>2, <4>1, <4>2, <4>3
    <3>4. (\A k \in Files \ {Target} : Mine(t, k) = {})'
      BY <1>2, <3>1 DEF TextOnly
    <3> QED
      BY <3>1, <3>3, <3>4 DEF TextOnly
  <2> QED
    BY <2>1, <2>2 DEF Told
<1> QED
  BY <1>1, <1>2

\* Another thread's step.
LEMMA OthersTold ==
  ASSUME NEW t \in Threads, NEW u \in Threads, u # t, TypeOK, WritersInvariant, ConnInv,
         Told(u), Acts(t)
  PROVE  Told(u)'
<1>1. /\ pc'[u] = pc[u] /\ call'[u] = call[u]
      /\ slotOf' = u => slotOf = u /\ errorCode' = errorCode
  BY OneMoves
<1>2. ASSUME pc[u] = "sendNl" PROVE Target' = Target /\ Target \in Files
  <2>1. pc[t] \notin LifecyclePcs
    BY <1>2 DEF ConnInv, Exclusive
  <2>2. CASE Begins(t)
    BY <1>2, <2>2, SendFacts
    DEF Begins, CallConnect, CallDisconnect, CallSend, CallListen, Enter, kernel, Target
  <2>3. CASE ~Begins(t)
    <3>1. ~Connect(t) /\ ~Disconnect(t)
      BY <2>1, <2>3 DEF Begins, LifecyclePcs, ConnectPcs, DisconnectPcs, Connect, Disconnect,
         ConnectSocket, ConnectOpen, ConnectStore, ConnectTimed, ConnectHello, ConnectReply,
         ConnectCut, ConnectUntime, ConnectRefuse, ConnectVerify, ConnectClose, ConnectReset,
         DisconnectCheck, DisconnectReset, DisconnectDown
    <3>2. UNCHANGED <<socketFd, fdTable>>
      <4>1. CASE Send(t)
        BY <2>3, <4>1 DEF Begins, Send, SendCheck, SendText, SendNewline, client, kernel
      <4>2. CASE Listen(t)
        BY <2>3, <4>2 DEF Begins, Listen, ListenCheck, ListenRead, ListenData, ListenEof,
           ListenCut, ListenLeaves, HandlerDone, client, kernel
      <4>3. CASE Return(t) \/ ReturnError(t)
        BY <4>3 DEF Return, ReturnError, Answer, client, kernel
      <4> QED
        BY <3>1, <4>1, <4>2, <4>3 DEF Acts
    <3> QED
      BY <1>2, <3>2, SendFacts DEF Target
  <2> QED
    BY <2>2, <2>3
<1>3. ASSUME pc[u] \in SendPcs, NEW k \in Files
      PROVE  Mine(u, k)' = Mine(u, k) /\ \A i \in Mine(u, k) : wire'[k][i] = wire[k][i]
  <2>1. CASE wire' = wire
    BY <1>1, <2>1 DEF Mine
  <2>2. ASSUME NEW m \in {0, call[t]}, NEW kind \in Kinds, Put(m, kind)
        PROVE  Mine(u, k)' = Mine(u, k) /\ \A i \in Mine(u, k) : wire'[k][i] = wire[k][i]
    <3>1. call[u] # 0 /\ call[u] # m
      BY <1>3, <2>2 DEF WritersInvariant
    <3>2. m \in 0 .. MaxCalls
      BY CallsAreNumbers
    <3> QED
      BY <1>1, <2>2, <3>1, <3>2, MineKept
  <2> QED
    BY <2>1, <2>2, OneMoves
<1> QED
  BY <1>1, <1>2, <1>3, ToldKept

\* The steps of the send itself.
LEMMA CheckTold ==
  ASSUME NEW t \in Threads, TypeOK, WritersInvariant, Told(t), SendCheck(t)
  PROVE  Told(t)'
<1>1. /\ pc[t] = "sendCheck" /\ UNCHANGED <<wire, call>>
      /\ \/ /\ pc'[t] = "sendRet" /\ slotOf' = t
            /\ errorCode' \in {"NotConnected", "NullArgument"}
         \/ pc'[t] = "sendText" /\ UNCHANGED <<slotOf, errorCode>>
  BY DEF SendCheck, Fail, Goto, TypeOK, slot, kernel, local
<1>2. Nothing(t)'
  <2>1. Nothing(t)
    BY <1>1, NothingYet
  <2> QED
    BY <1>1, <2>1 DEF Nothing, Mine
<1>3. ~SentWhole(t)'
  BY <1>2 DEF Nothing, SentWhole
<1> QED
  BY <1>1, <1>2, <1>3 DEF Told

LEMMA TextTold ==
  ASSUME NEW t \in Threads, Calm, TypeOK, WritersInvariant, ConnInv, Told(t), SendText(t)
  PROVE  Told(t)'
<1>1. /\ pc[t] = "sendText" /\ UNCHANGED <<call, socketFd, fdTable>> /\ Nothing(t)
      /\ Target \in Files
  BY NothingYet, SendFacts DEF SendText, local
<1>2. ASSUME NEW kind \in Texts, Put(call[t], kind), Goto(t, "sendNl"), UNCHANGED slot
      PROVE  Told(t)'
  <2>1. PICK k \in Files : k = Target
    BY <1>1
  <2>2. kind \in Kinds /\ call[t] \in 0 .. MaxCalls
    BY TextsAreKinds, CallsAreNumbers
  <2>3. PICK e \in Nat : Mine(t, k)' = Mine(t, k) \cup {e} /\ wire'[k][e].kind = kind
    BY <1>1, <1>2, <2>1, <2>2, MineGrows
  <2>4. Mine(t, k)' = {e}
    BY <1>1, <2>3 DEF Nothing
  <2>5. \A j \in Files \ {k} : Mine(t, j)' = {}
    BY <1>1, <1>2, <2>1, <2>2, MineKept DEF Nothing
  <2>6. Target' = k
    BY <1>1, <2>1 DEF Target
  <2>7. Mine(t, Target)' = Mine(t, k)'
    BY <2>6 DEF Mine
  <2>8. (\E i \in Mine(t, Target) : Mine(t, Target) = {i} /\ wire[Target][i].kind \in Texts)'
    BY <2>3, <2>4, <2>6, <2>7
  <2>9. (\A j \in Files \ {Target} : Mine(t, j) = {})'
    BY <2>5, <2>6
  <2>10. TextOnly(t)'
    BY <2>8, <2>9 DEF TextOnly
  <2>11. pc'[t] = "sendNl" /\ UNCHANGED <<slotOf, errorCode>>
    BY <1>2 DEF Goto, TypeOK, slot
  <2> QED
    BY <1>1, <2>10, <2>11 DEF Told
<1>3. ASSUME Fail(t, "SendFailed"), Goto(t, "sendRet"), wire' = wire PROVE Told(t)'
  <2>1. pc'[t] = "sendRet" /\ errorCode' = "SendFailed"
    BY <1>3 DEF Goto, Fail, TypeOK
  <2>2. Nothing(t)'
    BY <1>1, <1>3 DEF Nothing, Mine
  <2>3. ~SentWhole(t)'
    BY <2>2 DEF Nothing, SentWhole
  <2> QED
    BY <2>1, <2>3 DEF Told
<1> QED
  BY <1>2, <1>3 DEF SendText, Calm

LEMMA NewlineTold ==
  ASSUME NEW t \in Threads, Calm, TypeOK, WritersInvariant, ConnInv, Told(t), SendNewline(t)
  PROVE  Told(t)'
<1>1. /\ pc[t] = "sendNl" /\ UNCHANGED <<call, socketFd, fdTable>> /\ TextOnly(t)
      /\ Target \in Files /\ pc'[t] = "sendRet"
  BY SendFacts DEF SendNewline, Goto, TypeOK, local, Told
<1>2. ASSUME Put(call[t], "nl"), UNCHANGED slot
      PROVE  Told(t)'
  <2>1. PICK k \in Files : k = Target
    BY <1>1
  <2>2. "nl" \in Kinds /\ call[t] \in 0 .. MaxCalls
    BY TextsAreKinds, CallsAreNumbers
  <2>3. PICK i \in Mine(t, k) : Mine(t, k) = {i} /\ wire[k][i].kind \in Texts
    BY <1>1, <2>1 DEF TextOnly
  <2>4. PICK e \in Nat : /\ \A j \in Mine(t, k) : j < e
                         /\ Mine(t, k)' = Mine(t, k) \cup {e}
                         /\ wire'[k][e].kind = "nl"
                         /\ \A j \in Mine(t, k) : wire'[k][j] = wire[k][j]
    BY <1>1, <1>2, <2>1, <2>2, MineGrows
  <2>5. /\ Mine(t, k)' = {i, e} /\ i < e
        /\ wire'[k][i].kind \in Texts /\ wire'[k][e].kind = "nl"
    BY <2>3, <2>4
  <2>6. \A j \in Files \ {k} : Mine(t, j)' = {}
    BY <1>1, <1>2, <2>1, <2>2, MineKept DEF TextOnly
  <2>7. SentWhole(t)'
    BY <2>5, <2>6 DEF SentWhole
  <2>8. UNCHANGED <<slotOf, errorCode>>
    BY <1>2 DEF slot
  <2> QED
    BY <1>1, <2>7, <2>8 DEF Told
<1>3. ASSUME Fail(t, "SendFailed"), wire' = wire PROVE Told(t)'
  <2>1. errorCode' = "SendFailed"
    BY <1>3 DEF Fail
  <2>2. ~SentWhole(t)
    BY <1>1, TextIsNotWhole
  <2>3. ~SentWhole(t)'
    BY <1>1, <1>3, <2>2 DEF SentWhole, Mine
  <2> QED
    BY <1>1, <2>1, <2>3 DEF Told
<1> QED
  BY <1>2, <1>3 DEF SendNewline

\* What the two looks of a caller do.
LEMMA Looks ==
  ASSUME NEW t \in Threads, TypeOK, Return(t) \/ ReturnError(t)
  PROVE  \/ errorCode = "" /\ pc[t] \in {"lifeRet", "sendRet", "listenRet"} /\ Answer(t, NoError)
         \/ pc[t] \in {"lifeCode", "sendCode", "listenCode"} /\ Answer(t, errorCode)
         \/ /\ errorCode # ""
            /\ pc[t] \in {"lifeRet", "sendRet", "listenRet"}
            /\ pc'[t] \in {"lifeCode", "sendCode", "listenCode"}
            /\ pc'[t] = "sendCode" => pc[t] = "sendRet"
            /\ UNCHANGED <<slotOf, errorCode, wire, call>>
<1>1. CASE ReturnError(t)
  BY <1>1 DEF ReturnError
<1>2. ASSUME Return(t) PROVE pc[t] \in {"lifeRet", "sendRet", "listenRet"}
  BY <1>2 DEF Return, SecondLook
<1>3. ASSUME errorCode # "", Goto(t, SecondLook[pc[t]]), UNCHANGED <<client, kernel, hub, local>>,
             pc[t] \in {"lifeRet", "sendRet", "listenRet"}
      PROVE  /\ pc'[t] \in {"lifeCode", "sendCode", "listenCode"}
             /\ pc'[t] = "sendCode" => pc[t] = "sendRet"
             /\ UNCHANGED <<slotOf, errorCode, wire, call>>
  <2>1. UNCHANGED <<slotOf, errorCode, wire, call>>
    BY <1>3 DEF client, slot, kernel, local
  <2>2. pc'[t] = SecondLook[pc[t]]
    BY <1>3 DEF Goto, TypeOK
  <2>3. /\ SecondLook["lifeRet"] = "lifeCode" /\ SecondLook["sendRet"] = "sendCode"
        /\ SecondLook["listenRet"] = "listenCode"
    BY DEF SecondLook
  <2> QED
    BY <1>3, <2>1, <2>2, <2>3
<1>4. CASE Return(t)
  <2>1. \/ errorCode = "" /\ Answer(t, NoError)
        \/ errorCode # "" /\ Goto(t, SecondLook[pc[t]]) /\ UNCHANGED <<client, kernel, hub, local>>
    BY <1>4 DEF Return
  <2> QED
    BY <1>2, <1>3, <1>4, <2>1
<1> QED
  BY <1>1, <1>4

\* Other steps of the same thread.
LEMMA OwnTold ==
  ASSUME NEW t \in Threads, Calm, TypeOK, WritersInvariant, ConnInv, Told(t), Acts(t)
  PROVE  Told(t)'
<1>1. ASSUME NEW l \in Pcs \ SendPcs, Goto(t, l) PROVE Told(t)'
  <2>1. pc'[t] = l
    BY <1>1 DEF Goto, TypeOK
  <2> QED
    BY <1>1, <2>1 DEF Told, SendPcs
<1>2. CASE CallSend(t)
  <2>1. pc'[t] = "sendCheck" /\ errorCode' = ""
    BY <1>2 DEF CallSend, Enter, Goto, TypeOK
  <2> QED
    BY <2>1 DEF Told
<1>3. CASE CallConnect(t) \/ CallDisconnect(t) \/ CallListen(t)
  BY <1>1, <1>3, PcsEnumerated DEF CallConnect, CallDisconnect, CallListen, Enter, SendPcs
<1>4. CASE Connect(t) /\ ~CallConnect(t)
  <2>1. CASE ConnectSocket(t) \/ ConnectOpen(t) \/ ConnectStore(t) \/ ConnectTimed(t)
             \/ ConnectHello(t)
    BY <1>1, <2>1, PcsEnumerated DEF ConnectSocket, ConnectOpen, ConnectStore, ConnectTimed,
       ConnectHello, SendPcs
  <2>2. CASE ConnectReply(t) \/ ConnectCut(t) \/ ConnectUntime(t) \/ ConnectRefuse(t)
    BY <1>1, <2>2, PcsEnumerated DEF ConnectReply, ConnectCut, ConnectUntime, ConnectRefuse,
       SendPcs
  <2>3. CASE ConnectVerify(t) \/ ConnectClose(t) \/ ConnectReset(t)
    BY <1>1, <2>3, PcsEnumerated DEF ConnectVerify, ConnectClose, ConnectReset, SendPcs
  <2> QED
    BY <1>4, <2>1, <2>2, <2>3 DEF Connect
<1>5. CASE Disconnect(t) /\ ~CallDisconnect(t)
  BY <1>1, <1>5, PcsEnumerated DEF Disconnect, DisconnectCheck, DisconnectReset,
     DisconnectDown, SendPcs
<1>6. CASE Listen(t) /\ ~CallListen(t)
  BY <1>1, <1>6, PcsEnumerated DEF Listen, ListenCheck, ListenRead, ListenData, ListenEof,
     ListenCut, ListenLeaves, HandlerDone, SendPcs
<1>7. ASSUME NEW r, Answer(t, r) PROVE Told(t)'
  <2>1. back[t] \in Pcs \ SendPcs
    BY PcsEnumerated DEF TypeOK, SendPcs
  <2> QED
    BY <1>1, <1>7, <2>1 DEF Answer
<1>8. CASE Return(t) \/ ReturnError(t)
  <2>1. CASE Answer(t, NoError) \/ Answer(t, errorCode)
    BY <1>7, <2>1
  <2>2. CASE /\ errorCode # ""
             /\ pc'[t] \in {"lifeCode", "sendCode", "listenCode"}
             /\ pc'[t] = "sendCode" => pc[t] = "sendRet"
             /\ UNCHANGED <<slotOf, errorCode, wire, call>>
    <3>1. (SentWhole(t)' <=> SentWhole(t)) /\ (Nothing(t)' <=> Nothing(t))
      <4>1. \A k : Mine(t, k)' = Mine(t, k)
        BY <2>2 DEF Mine
      <4>2. wire' = wire
        BY <2>2
      <4> QED
        BY <4>1, <4>2 DEF SentWhole, Nothing
    <3> QED
      BY <2>2, <3>1 DEF Told
  <2> QED
    BY <1>8, <2>1, <2>2, Looks
<1> QED
  BY <1>2, <1>3, <1>4, <1>5, <1>6, <1>7, <1>8, CheckTold, TextTold, NewlineTold
  DEF Acts, Send

LEMMA HomeStep ==
  ASSUME TypeOK, ConnInv, AtHome, [Next]_vars
  PROVE  AtHome'
<1>1. ASSUME wire' = wire PROVE AtHome'
  BY <1>1 DEF AtHome
<1>2. ASSUME NEW m \in 0 .. MaxCalls, NEW kind \in Kinds, Put(m, kind), Target \in Conns
      PROVE  AtHome'
  BY <1>2, PutAt DEF AtHome
<1>3. ASSUME NEW t \in Threads, Acts(t) PROVE AtHome'
  <2>1. CASE pc[t] \in {"connHello", "sendText", "sendNl"}
    <3>1. Target \in Conns
      BY <2>1, WritesGoHome
    <3>2. 0 \in 0 .. MaxCalls /\ call[t] \in 0 .. MaxCalls
      BY CallsAreNumbers
    <3> QED
      BY <1>1, <1>2, <1>3, <3>1, <3>2, OneMoves
  <2>2. CASE pc[t] \notin {"connHello", "sendText", "sendNl"}
    <3>1. Begins(t) \/ Quiet
      BY <1>3, <2>2, OthersAreQuiet DEF Acts, Begins, Connect, Disconnect, Send, Listen,
         ListenEof, ListenCut, ConnectHello, SendText, SendNewline
    <3>2. Begins(t) => wire' = wire
      BY DEF Begins, CallConnect, CallDisconnect, CallSend, CallListen, Enter, kernel
    <3> QED
      BY <1>1, <3>1, <3>2 DEF Quiet
  <2> QED
    BY <2>1, <2>2
<1>4. CASE Destroy \/ Environment \/ UNCHANGED vars
  BY <1>1, <1>4 DEF Destroy, Environment, HubReply, HubSend, HubClose, ForeignOpen,
     ForeignClose, kernel, vars
<1> QED
  BY <1>3, <1>4 DEF Next, Acts

LEMMA ReportsStep ==
  ASSUME Calm, TypeOK, WritersInvariant, ConnInv, Reports, [Next]_vars
  PROVE  Reports'
<1>1. AtHome'
  BY HomeStep DEF Reports
<1>2. SUFFICES ASSUME NEW u \in Threads PROVE Told(u)'
  BY <1>1 DEF Reports
<1>3. Told(u)
  BY DEF Reports
<1>4. ASSUME NEW t \in Threads, Acts(t) PROVE Told(u)'
  BY <1>3, <1>4, OwnTold, OthersTold
<1>5. CASE Destroy
  <2>1. pc'[u] = "idle"
    BY <1>5 DEF Destroy, threads
  <2> QED
    BY <2>1 DEF Told
<1>6. CASE Environment \/ UNCHANGED vars
  <2>1. UNCHANGED <<wire, call, pc, slotOf, errorCode, socketFd>>
    BY <1>6 DEF Environment, HubReply, HubSend, HubClose, ForeignOpen, ForeignClose,
       vars, client, slot, kernel, hub, threads, local
  <2>2. \A f \in Fds : fdTable[f] \in Conns => fdTable'[f] = fdTable[f]
    BY <1>6, FileFacts DEF Environment, HubReply, HubSend, HubClose, ForeignOpen,
       ForeignClose, vars, kernel, TypeOK
  <2>3. ASSUME pc[u] = "sendNl" PROVE Target' = Target /\ Target \in Files
    <3>1. Target \in Conns
      BY <2>3, UsersConnected
    <3> QED
      BY <2>1, <2>2, <3>1, FileFacts DEF Target, TypeOK
  <2>4. \A k \in Files :
          Mine(u, k)' = Mine(u, k) /\ \A i \in Mine(u, k) : wire'[k][i] = wire[k][i]
    BY <2>1 DEF Mine
  <2> QED
    BY <1>3, <2>1, <2>3, <2>4, ToldKept
<1> QED
  BY <1>4, <1>5, <1>6 DEF Next, Acts

\* The callers' promise kept and no write cut short, a send answers "no error"
\* exactly when both its writes were made, and an error of its checks only when
\* it wrote nothing: always when the last word in the shared slot is its own.
THEOREM ReportsAreTrue ==
  ASSUME Calm
  PROVE  Spec => SendsReportWhatTheyDid
<1>1. Init => Reports
  BY ReportsInit
<1>2. TypeOK /\ ConnInv /\ WritersInvariant /\ Reports /\ [Next]_vars => Reports'
  BY ReportsStep
<1>3. TypeOK /\ ConnInv /\ Reports /\ [Next]_vars => [TruthfulReturn]_vars
  <2> SUFFICES ASSUME TypeOK, Reports, [Next]_vars, NEW t \in Threads,
                      pc[t] \in {"sendRet", "sendCode"}, pc'[t] \in {"idle", "handle"},
                      slotOf = t
               PROVE  /\ result'[t] = NoError <=> SentWhole(t)
                      /\ result'[t] \in {"NotConnected", "NullArgument"} =>
                           \A k \in Files : Mine(t, k) = {}
    BY DEF TruthfulReturn
  <2>1. Acts(t)
    BY MoverActs
  <2>2. Return(t) \/ ReturnError(t)
    <3>1. ~Connect(t)
      BY DEF Connect, CallConnect, MayEnter, ConnectSocket, ConnectOpen, ConnectStore,
         ConnectTimed, ConnectHello, ConnectReply, ConnectCut, ConnectUntime, ConnectRefuse,
         ConnectVerify, ConnectClose, ConnectReset
    <3>2. ~Disconnect(t) /\ ~Send(t)
      BY DEF Disconnect, Send, CallDisconnect, CallSend, MayEnter, DisconnectCheck,
         DisconnectReset, DisconnectDown, SendCheck, SendText, SendNewline
    <3>3. ~Listen(t)
      BY DEF Listen, CallListen, MayEnter, ListenCheck, ListenRead, ListenData, ListenEof,
         ListenCut, ListenLeaves, HandlerDone
    <3> QED
      BY <2>1, <3>1, <3>2, <3>3 DEF Acts
  <2>3. \/ errorCode = "" /\ pc[t] = "sendRet" /\ Answer(t, NoError)
        \/ pc[t] = "sendCode" /\ Answer(t, errorCode)
    BY <2>2, Looks
  <2>4. Told(t)
    BY DEF Reports
  <2>5. \/ errorCode = "" /\ pc[t] = "sendRet" /\ result'[t] = NoError
        \/ pc[t] = "sendCode" /\ result'[t] = errorCode
    BY <2>3 DEF Answer, TypeOK
  <2>6. errorCode # NoError /\ NoError \notin {"NotConnected", "NullArgument"}
    BY DEF TypeOK, ErrorCodes, NoError
  <2>7. CASE errorCode = "" /\ pc[t] = "sendRet" /\ result'[t] = NoError
    BY <2>4, <2>6, <2>7 DEF Told
  <2>8. CASE pc[t] = "sendCode" /\ result'[t] = errorCode
    <3>1. errorCode # "" /\ ~SentWhole(t)
      BY <2>4, <2>8 DEF Told
    <3>2. errorCode \in {"NotConnected", "NullArgument"} => \A k \in Files : Mine(t, k) = {}
      BY <2>4, <2>8 DEF Told, Nothing
    <3> QED
      BY <2>6, <2>8, <3>1, <3>2
  <2> QED
    BY <2>3, <2>5, <2>7, <2>8
<1>4. Promise
  BY DEF Calm
<1> QED
  BY <1>1, <1>2, <1>3, <1>4, ConnInvCorrect, WritersCorrect, PTL
  DEF Spec, SendsReportWhatTheyDid

----------------------------------------------------------------------------
(* The channel *)

\* The frame that WireFraming gives the bytes of one connection.
Framed(w) ==
  \A i \in 1 .. Len(w) :
    IF i = 1 THEN w[i].kind = "id"
    ELSE IF i % 2 = 0 THEN w[i].kind \in Texts
    ELSE w[i].kind = "nl"

LEMMA ConnFramed ==
  ASSUME TypeOK, WireFraming, NEW c \in Conns
  PROVE  Framed(wire[c]) /\ wire[c] \in Seq(Fragment) /\ Len(wire[c]) \in Nat
BY FileFacts DEF WireFraming, Framed, TypeOK

\* Where texts and newlines are.
LEMMA FrameFacts ==
  ASSUME NEW w, NEW n \in Nat, n = Len(w), Framed(w)
  PROVE  /\ \A i \in 1 .. n : w[i].kind \in Texts => i % 2 = 0 /\ i # 1
         /\ \A i \in 1 .. n : IsText(w[i]) => i % 2 = 0 /\ i # 1 /\ w[i].kind \in Texts
         /\ \A i \in 1 .. n : i % 2 = 0 => w[i].kind \in Texts /\ IsText(w[i]) /\ ~IsId(w[i])
         /\ \A i \in 1 .. n : i % 2 = 1 /\ i # 1 =>
              w[i].kind = "nl" /\ EndsLine(w[i]) /\ ~IsId(w[i])
         /\ \A i \in 1 .. n : IsId(w[i]) => i = 1
<1>1. \A k \in Texts : k \in {"bare", "inner", "ended"}
  BY TextsType
<1>2. \A i \in 1 .. n : i % 2 \in {0, 1}
  BY Parity
<1> QED
  BY <1>1, <1>2 DEF Framed, IsText, IsId, EndsLine

\* A line that a text ends holds this text and no other.
LEMMA TextLine ==
  ASSUME NEW w, NEW n \in Nat, n = Len(w), Framed(w), NEW e \in 1 .. n, e % 2 = 0
  PROVE  LineCalls(w, e) = {w[e].call}
<1>1. e \in TextsIn(w, e)
  BY FrameFacts DEF TextsIn
<1>2. ASSUME NEW j \in TextsIn(w, e) PROVE j = e
  <2>1. j \in 1 .. n /\ j % 2 = 0 /\ j # 1
    <3>1. j \in 1 .. n /\ IsText(w[j])
      BY <1>2 DEF TextsIn
    <3> QED
      BY <3>1, FrameFacts
  <2> SUFFICES ASSUME j # e PROVE FALSE
    OBVIOUS
  <2>2. j + 1 \in 1 .. n /\ (j + 1) % 2 = 1 /\ j + 1 # 1 /\ j + 1 \in j + 1 .. e - 1
    <3>1. (j + 1) % 2 = 1
      BY <2>1, Parity
    <3>2. j + 1 # e /\ j <= e
      BY <1>2, <2>1, <3>1 DEF TextsIn
    <3> QED
      BY <2>1, <3>1, <3>2
  <2>3. EndsLine(w[j + 1])
    BY <2>2, FrameFacts
  <2> QED
    BY <1>2, <2>2, <2>3 DEF TextsIn
<1>3. TextsIn(w, e) = {e}
  BY <1>1, <1>2
<1> QED
  BY <1>3 DEF LineCalls

\* A line that writeRaw's newline ends holds the text before it, unless that
\* text has ended the line itself.
LEMMA NewlineLine ==
  ASSUME NEW w, NEW n \in Nat, n = Len(w), Framed(w), NEW e \in 1 .. n, e % 2 = 1, e # 1
  PROVE  /\ e - 1 \in 1 .. n /\ (e - 1) % 2 = 0
         /\ LineCalls(w, e) = IF w[e - 1].kind = "ended" THEN {} ELSE {w[e - 1].call}
<1>1. e - 1 \in 1 .. n /\ e - 1 \in 1 .. e /\ e - 1 < e /\ (e - 1) % 2 = 0 /\ e - 1 # 1
  BY Parity
<1>2. IsText(w[e - 1])
  BY <1>1, FrameFacts
<1>3. w[e - 1].kind # "ended" => e - 1 \in TextsIn(w, e)
  BY <1>1, <1>2 DEF TextsIn
<1>4. ASSUME NEW j \in TextsIn(w, e) PROVE j = e - 1 /\ w[e - 1].kind # "ended"
  <2>1. j \in 1 .. n /\ j % 2 = 0 /\ j # 1
    <3>1. j \in 1 .. n /\ IsText(w[j])
      BY <1>4 DEF TextsIn
    <3> QED
      BY <3>1, FrameFacts
  <2>2. j = e - 1
    <3> SUFFICES ASSUME j # e - 1 PROVE FALSE
      OBVIOUS
    <3>1. j # e
      BY <2>1
    <3>2. j + 1 \in 1 .. n /\ (j + 1) % 2 = 1 /\ j + 1 # 1 /\ j + 1 \in j + 1 .. e - 1
      <4>1. (j + 1) % 2 = 1
        BY <2>1, Parity
      <4>2. j <= e
        BY <1>4 DEF TextsIn
      <4> QED
        BY <2>1, <3>1, <4>1, <4>2
    <3>3. EndsLine(w[j + 1])
      BY <3>2, FrameFacts
    <3> QED
      BY <1>4, <3>2, <3>3 DEF TextsIn
  <2> QED
    BY <1>1, <1>4, <2>2 DEF TextsIn
<1>5. TextsIn(w, e) = IF w[e - 1].kind = "ended" THEN {} ELSE {e - 1}
  BY <1>3, <1>4
<1>7. CASE w[e - 1].kind = "ended"
  BY <1>1, <1>5, <1>7 DEF LineCalls
<1>8. CASE w[e - 1].kind # "ended"
  BY <1>1, <1>5, <1>8 DEF LineCalls
<1> QED
  BY <1>7, <1>8

\* The lines of a connection before one of its bytes do not depend on what
\* comes after it.
LEMMA LineCallsKept ==
  ASSUME NEW w, NEW v, NEW n \in Nat, NEW e \in 1 .. n, \A i \in 1 .. n : v[i] = w[i]
  PROVE  LineCalls(v, e) = LineCalls(w, e)
<1>1. \A j \in 1 .. e : j \in 1 .. n /\ \A m \in j + 1 .. e - 1 : m \in 1 .. n
  OBVIOUS
<1> QED
  BY <1>1 DEF LineCalls, TextsIn, IsText, EndsLine

LineAt(w, e) == [end |-> e, calls |-> LineCalls(w, e), done |-> w[e].kind # "inner"]

LEMMA LinesAt ==
  ASSUME NEW w
  PROVE  /\ \A l \in HubLines(w) : \E e \in 1 .. Len(w) :
              EndsLine(w[e]) /\ ~IsId(w[e]) /\ l = LineAt(w, e)
         /\ \A e \in 1 .. Len(w) : EndsLine(w[e]) /\ ~IsId(w[e]) => LineAt(w, e) \in HubLines(w)
         /\ \A e : /\ LineAt(w, e).end = e /\ LineAt(w, e).calls = LineCalls(w, e)
                   /\ LineAt(w, e).done = (w[e].kind # "inner")
BY DEF HubLines, LineAt

\* One more fragment adds at most one line.
LEMMA LinesGrow ==
  ASSUME NEW w, NEW v, NEW n \in Nat, n = Len(w), Len(v) = n + 1,
         \A i \in 1 .. n : v[i] = w[i]
  PROVE  HubLines(v) = HubLines(w) \cup
           IF EndsLine(v[n + 1]) /\ ~IsId(v[n + 1]) THEN {LineAt(v, n + 1)} ELSE {}
<1>1. \A e : e \in 1 .. n + 1 <=> e \in 1 .. n \/ e = n + 1
  OBVIOUS
<1>2. \A e \in 1 .. n : LineAt(v, e) = LineAt(w, e)
  BY LineCallsKept DEF LineAt
<1>3. \A e \in 1 .. n : (EndsLine(v[e]) /\ ~IsId(v[e])) <=> (EndsLine(w[e]) /\ ~IsId(w[e]))
  OBVIOUS
<1>4. \A l \in HubLines(v) :
        l \in HubLines(w) \/ (EndsLine(v[n + 1]) /\ ~IsId(v[n + 1]) /\ l = LineAt(v, n + 1))
  <2> SUFFICES ASSUME NEW l \in HubLines(v)
               PROVE  \/ l \in HubLines(w)
                      \/ EndsLine(v[n + 1]) /\ ~IsId(v[n + 1]) /\ l = LineAt(v, n + 1)
    OBVIOUS
  <2>1. PICK e \in 1 .. n + 1 : EndsLine(v[e]) /\ ~IsId(v[e]) /\ l = LineAt(v, e)
    BY LinesAt
  <2>2. CASE e = n + 1
    BY <2>1, <2>2
  <2>3. CASE e \in 1 .. n
    BY <1>2, <1>3, <2>1, <2>3, LinesAt
  <2> QED
    BY <1>1, <2>2, <2>3
<1>5. \A l \in HubLines(w) : l \in HubLines(v)
  <2> SUFFICES ASSUME NEW l \in HubLines(w) PROVE l \in HubLines(v)
    OBVIOUS
  <2>1. PICK e \in 1 .. n : EndsLine(w[e]) /\ ~IsId(w[e]) /\ l = LineAt(w, e)
    BY LinesAt
  <2>2. e \in 1 .. Len(v) /\ EndsLine(v[e]) /\ ~IsId(v[e]) /\ l = LineAt(v, e)
    BY <1>1, <1>2, <1>3, <2>1
  <2> QED
    BY <2>2, LinesAt
<1>6. EndsLine(v[n + 1]) /\ ~IsId(v[n + 1]) => LineAt(v, n + 1) \in HubLines(v)
  BY <1>1, LinesAt
<1> QED
  BY <1>4, <1>5, <1>6

LEMMA LinesUnread ==
  ASSUME wire' = wire
  PROVE  LinesRead' = LinesRead
BY DEF LinesRead

\* A write of something that is no newline ends no line, and the node id is
\* no message.
LEMMA PutNoLine ==
  ASSUME NEW m \in 0 .. MaxCalls, NEW kind \in Kinds, kind \in {"id", "bare"}, TypeOK,
         Put(m, kind)
  PROVE  LinesRead' = LinesRead
<1> SUFFICES ASSUME NEW c \in Conns PROVE HubLines(wire'[c]) = HubLines(wire[c])
  BY DEF LinesRead
<1>1. CASE c # Target
  BY <1>1, PutAt, FileFacts
<1>2. CASE c = Target
  <2>0. \E n \in Nat : /\ n = Len(wire[Target]) /\ Len(wire'[Target]) = n + 1
                       /\ \A i \in 1 .. n : wire'[Target][i] = wire[Target][i]
                       /\ wire'[Target][n + 1].kind = kind
    BY PutAt
  <2>1. PICK n \in Nat : /\ n = Len(wire[c]) /\ Len(wire'[c]) = n + 1
                         /\ \A i \in 1 .. n : wire'[c][i] = wire[c][i]
                         /\ wire'[c][n + 1].kind = kind
    BY <1>2, <2>0
  <2>2. ~EndsLine(wire'[c][n + 1]) \/ IsId(wire'[c][n + 1])
    BY <1>2, <2>1 DEF EndsLine, IsId
  <2> QED
    <3>1. HubLines(wire'[c]) = HubLines(wire[c]) \cup
            IF EndsLine(wire'[c][n + 1]) /\ ~IsId(wire'[c][n + 1])
              THEN {LineAt(wire'[c], n + 1)} ELSE {}
      BY <2>1, LinesGrow
    <3> QED
      BY <2>2, <3>1
<1> QED
  BY <1>1, <1>2

\* A write of a newline, or of a text that holds one, ends a line.
LEMMA PutLine ==
  ASSUME NEW m \in 0 .. MaxCalls, NEW kind \in Kinds, kind \in {"inner", "ended", "nl"},
         TypeOK, Put(m, kind), NEW c \in Conns, c = Target
  PROVE  \E n, p \in Nat :
           /\ n = Len(wire[c]) /\ p = Len(wire'[c]) /\ p = n + 1
           /\ \A i \in 1 .. n : wire'[c][i] = wire[c][i]
           /\ wire'[c][p].kind = kind /\ wire'[c][p].call = m
           /\ LinesRead' = [LinesRead EXCEPT ![c] = @ \cup {LineAt(wire'[c], p)}]
<1>1. \E n \in Nat : /\ n = Len(wire[Target]) /\ Len(wire'[Target]) = n + 1
                     /\ \A i \in 1 .. n : wire'[Target][i] = wire[Target][i]
                     /\ wire'[Target][n + 1].kind = kind
                     /\ wire'[Target][n + 1].call = m
  BY PutAt
<1>2. PICK n \in Nat : /\ n = Len(wire[c]) /\ Len(wire'[c]) = n + 1
                       /\ \A i \in 1 .. n : wire'[c][i] = wire[c][i]
                       /\ wire'[c][n + 1].kind = kind
                       /\ wire'[c][n + 1].call = m
  BY <1>1
<1>3. EndsLine(wire'[c][n + 1]) /\ ~IsId(wire'[c][n + 1])
  BY <1>2 DEF EndsLine, IsId
<1>4. HubLines(wire'[c]) = HubLines(wire[c]) \cup {LineAt(wire'[c], n + 1)}
  BY <1>2, <1>3, LinesGrow
<1>5. \A d \in Conns : d # c => wire'[d] = wire[d]
  BY PutAt, FileFacts
<1>6. LinesRead' = [LinesRead EXCEPT ![c] = @ \cup {LineAt(wire'[c], n + 1)}]
  BY <1>4, <1>5 DEF LinesRead
<1>7. n + 1 \in Nat
  OBVIOUS
<1> QED
  BY <1>2, <1>6, <1>7

LEMMA LineEnds ==
  ASSUME NEW c \in Conns, NEW n \in Nat, n = Len(wire[c]), NEW m \in LinesRead[c]
  PROVE  \E e \in 1 .. n : m = LineAt(wire[c], e) /\ m.end = e
<1>1. m \in HubLines(wire[c])
  BY DEF LinesRead
<1>2. PICK e \in 1 .. n : m = LineAt(wire[c], e)
  BY <1>1, LinesAt
<1> QED
  BY <1>2 DEF LineAt

\* The lines of a call come from its text, or from the newline behind it.
LEMMA LineSources ==
  ASSUME TypeOK, WireFraming, NEW c \in Conns, NEW n \in Nat, n = Len(wire[c]), NEW k,
         NEW l \in Channel!LinesOf(k, c)
  PROVE  \E i \in 1 .. n :
           /\ wire[c][i].call = k
           /\ \/ l = LineAt(wire[c], i) /\ EndsLine(wire[c][i])
              \/ i + 1 \in 1 .. n /\ l = LineAt(wire[c], i + 1)
<1>1. Framed(wire[c])
  BY ConnFramed
<1>2. l \in HubLines(wire[c]) /\ k \in l.calls
  BY DEF Channel!LinesOf, LinesRead
<1>3. PICK e \in 1 .. n : EndsLine(wire[c][e]) /\ ~IsId(wire[c][e]) /\ l = LineAt(wire[c], e)
  BY <1>2, LinesAt
<1>4. k \in LineCalls(wire[c], e)
  BY <1>2, <1>3, LinesAt
<1>5. CASE e % 2 = 0
  <2>1. k = wire[c][e].call
    BY <1>1, <1>4, <1>5, TextLine
  <2> QED
    BY <1>3, <2>1
<1>6. CASE e % 2 = 1
  <2>1. e # 1
    BY <1>1, <1>3 DEF Framed, IsId
  <2>2. /\ e - 1 \in 1 .. n
        /\ LineCalls(wire[c], e) =
             IF wire[c][e - 1].kind = "ended" THEN {} ELSE {wire[c][e - 1].call}
    BY <1>1, <1>6, <2>1, NewlineLine
  <2>3. k = wire[c][e - 1].call
    BY <1>4, <2>2
  <2>4. (e - 1) + 1 = e
    OBVIOUS
  <2> QED
    BY <1>3, <2>2, <2>3, <2>4
<1> QED
  BY <1>5, <1>6, Parity

LEMMA NothingNoLines ==
  ASSUME TypeOK, WireFraming, NEW t \in Threads, Nothing(t), NEW c \in Conns
  PROVE  Channel!LinesOf(call[t], c) = {}
<1> SUFFICES ASSUME NEW l \in Channel!LinesOf(call[t], c) PROVE FALSE
  OBVIOUS
<1>1. PICK n \in Nat : n = Len(wire[c])
  BY ConnFramed
<1>2. \E i \in 1 .. n : wire[c][i].call = call[t]
  BY <1>1, LineSources
<1>3. Mine(t, c) = {}
  BY FileFacts DEF Nothing
<1> QED
  BY <1>1, <1>2, <1>3 DEF Mine

\* Between the two writes of a call, its text is the last thing on the
\* connection, and it has a line there when the text has ended one.
LEMMA TextLines ==
  ASSUME TypeOK, WritersInvariant, WireFraming, NEW t \in Threads, pc[t] = "sendNl",
         TextOnly(t), NEW c \in Conns, c = Target
  PROVE  \E n \in Nat :
           /\ n = Len(wire[c]) /\ n \in 1 .. n /\ n % 2 = 0 /\ wire[c][n].call = call[t]
           /\ wire[c][n].kind \in Texts
           /\ Channel!LinesOf(call[t], c) =
                IF EndsLine(wire[c][n]) THEN {LineAt(wire[c], n)} ELSE {}
           /\ \A d \in Conns \ {c} : Channel!LinesOf(call[t], d) = {}
<1>1. PICK n \in Nat : n = Len(wire[c])
  BY ConnFramed
<1>2. Framed(wire[c])
  BY ConnFramed
<1>3. PICK i \in Mine(t, c) : Mine(t, c) = {i} /\ wire[c][i].kind \in Texts
  BY DEF TextOnly
<1>4. i \in 1 .. n /\ wire[c][i].call = call[t]
  BY <1>1, <1>3 DEF Mine
<1>5. i % 2 = 0 /\ i # 1 /\ IsText(wire[c][i])
  BY <1>1, <1>2, <1>3, <1>4, TextsType, FrameFacts
<1>6. i = n
  <2> SUFFICES ASSUME i # n PROVE FALSE
    OBVIOUS
  <2>1. i + 1 \in i + 1 .. n /\ i + 1 \in 1 .. n /\ i + 1 # 1
    BY <1>4
  <2>2. IsId(wire[c][i + 1])
    BY <1>1, <1>4, <1>5, <2>1, FileFacts DEF WritersInvariant
  <2> QED
    BY <1>1, <1>2, <2>1, <2>2, FrameFacts
<1>10. /\ n \in 1 .. n /\ n % 2 = 0 /\ n # 1 /\ wire[c][n].call = call[t]
       /\ wire[c][n].kind \in Texts /\ IsText(wire[c][n])
  BY <1>3, <1>4, <1>5, <1>6
<1>7. \A l \in Channel!LinesOf(call[t], c) : EndsLine(wire[c][n]) /\ l = LineAt(wire[c], n)
  <2> SUFFICES ASSUME NEW l \in Channel!LinesOf(call[t], c)
               PROVE  EndsLine(wire[c][n]) /\ l = LineAt(wire[c], n)
    OBVIOUS
  <2>1. PICK j \in 1 .. n : /\ wire[c][j].call = call[t]
                            /\ \/ l = LineAt(wire[c], j) /\ EndsLine(wire[c][j])
                               \/ j + 1 \in 1 .. n /\ l = LineAt(wire[c], j + 1)
    BY <1>1, LineSources
  <2>2. j = n
    BY <1>1, <1>3, <1>6, <2>1 DEF Mine
  <2>3. n + 1 \notin 1 .. n
    OBVIOUS
  <2> QED
    BY <2>1, <2>2, <2>3
<1>8. EndsLine(wire[c][n]) => LineAt(wire[c], n) \in Channel!LinesOf(call[t], c)
  <2> SUFFICES ASSUME EndsLine(wire[c][n])
               PROVE  LineAt(wire[c], n) \in Channel!LinesOf(call[t], c)
    OBVIOUS
  <2>1. ~IsId(wire[c][n])
    BY <1>1, <1>2, <1>10, FrameFacts
  <2>2. LineAt(wire[c], n) \in HubLines(wire[c])
    BY <1>1, <1>10, <2>1, LinesAt
  <2>3. LineCalls(wire[c], n) = {wire[c][n].call}
    BY <1>1, <1>2, <1>10, TextLine
  <2>4. call[t] \in LineAt(wire[c], n).calls
    BY <1>10, <2>3 DEF LineAt
  <2> QED
    BY <2>2, <2>4 DEF Channel!LinesOf, LinesRead
<1>9. \A d \in Conns \ {c} : Channel!LinesOf(call[t], d) = {}
  <2> SUFFICES ASSUME NEW d \in Conns \ {c}, NEW l \in Channel!LinesOf(call[t], d) PROVE FALSE
    OBVIOUS
  <2>1. PICK m \in Nat : m = Len(wire[d])
    BY ConnFramed
  <2>2. \E j \in 1 .. m : wire[d][j].call = call[t]
    BY <2>1, LineSources
  <2>3. Mine(t, d) = {}
    BY FileFacts DEF TextOnly
  <2> QED
    BY <2>1, <2>2, <2>3 DEF Mine
<1>11. Channel!LinesOf(call[t], c) =
         IF EndsLine(wire[c][n]) THEN {LineAt(wire[c], n)} ELSE {}
  BY <1>7, <1>8
<1> QED
  BY <1>1, <1>9, <1>10, <1>11

\* What a step of one thread does to the sends that are under way.
LEMMA PendingMoves ==
  ASSUME NEW t \in Threads, NEW l \in Pcs, TypeOK, Goto(t, l), call' = call,
         l \in SendPcs <=> pc[t] \in SendPcs
  PROVE  PendingSends' = PendingSends
<1>1. pc'[t] = l /\ \A u \in Threads : u # t => pc'[u] = pc[u]
  BY DEF Goto, TypeOK
<1> QED
  BY <1>1 DEF PendingSends

\* A send begins, or another call does.
LEMMA ChannelBegin ==
  ASSUME NEW t \in Threads, NEW l \in Pcs, NEW lifecycle, TypeOK, WritersInvariant, WireFraming,
         MayEnter(t, lifecycle), Enter(t, l), l \in SendPcs => l = "sendCheck"
  PROVE  Channel!Next
<1>1. /\ pc' = [pc EXCEPT ![t] = l] /\ pc[t] \notin SendPcs
      /\ call' = [call EXCEPT ![t] = calls + 1] /\ calls < MaxCalls
      /\ wire' = wire
  BY DEF Enter, Goto, MayEnter, kernel, SendPcs
<1>2. result' = [result EXCEPT ![t] = "none"] /\ slotOf' = t
  BY DEF Enter
<1>3. pc \in [Threads -> Pcs] /\ call \in [Threads -> 0 .. MaxCalls] /\ calls \in 0 .. MaxCalls
  BY DEF TypeOK
<1>4. PendingSends[t] = 0
  BY <1>1 DEF PendingSends
<1>5. LinesRead' = LinesRead
  BY <1>1, LinesUnread
<1>6. CASE l \in SendPcs
  <2>1. PendingSends' = [PendingSends EXCEPT ![t] = calls + 1]
    BY <1>1, <1>3, <1>6 DEF PendingSends
  <2>2. calls + 1 \in 1 .. MaxCalls
    BY <1>1, <1>3, BoundsAreNat
  <2>3. \A u \in Threads : PendingSends[u] # calls + 1
    <3>1. calls \in Nat
      BY <1>3, BoundsAreNat
    <3>2. \A u \in Threads : call[u] \in Nat /\ call[u] <= calls
      BY <1>3, BoundsAreNat DEF WritersInvariant
    <3>3. \A u \in Threads : PendingSends[u] = call[u] \/ PendingSends[u] = 0
      BY DEF PendingSends
    <3>4. \A k \in Nat : k <= calls => k # calls + 1
      BY <3>1
    <3>5. 0 <= calls
      BY <3>1
    <3> QED
      BY <3>2, <3>3, <3>4, <3>5
  <2>4. ASSUME NEW c \in Conns PROVE Channel!LinesOf(calls + 1, c) = {}
    <3> SUFFICES ASSUME NEW m \in Channel!LinesOf(calls + 1, c) PROVE FALSE
      OBVIOUS
    <3>1. PICK n \in Nat : n = Len(wire[c])
      BY ConnFramed
    <3>2. PICK j \in 1 .. n : wire[c][j].call = calls + 1
      BY <3>1, LineSources
    <3>3. wire[c][j].call \in Nat /\ wire[c][j].call <= calls
      BY <3>1, FragmentFacts, FileFacts DEF WritersInvariant
    <3> QED
      BY <1>3, <3>2, <3>3
  <2>5. Channel!Begin(t)
    BY <1>2, <1>4, <1>5, <2>1, <2>2, <2>3, <2>4 DEF Channel!Begin
  <2> QED
    BY <2>5 DEF Channel!Next
<1>7. CASE l \notin SendPcs
  <2>1. PendingSends' = PendingSends
    BY <1>1, <1>3, <1>7 DEF PendingSends
  <2>2. "none" \in Results
    BY DEF Results
  <2>3. Channel!OtherCall(t)
    BY <1>2, <1>4, <1>5, <2>1, <2>2 DEF Channel!OtherCall
  <2> QED
    BY <2>3 DEF Channel!Next
<1> QED
  BY <1>6, <1>7

\* A call that fails has the last word on the answer.
LEMMA ChannelFails ==
  ASSUME NEW t \in Threads, NEW code, Fail(t, code), PendingSends' = PendingSends,
         wire' = wire, result' = result
  PROVE  Channel!Next
<1>1. Channel!Touch(t)
  BY LinesUnread DEF Fail, Channel!Touch
<1> QED
  BY <1>1 DEF Channel!Next

\* A text with a newline in it is the first line of its message.
LEMMA ChannelText ==
  ASSUME NEW t \in Threads, NEW kind \in Texts, kind # "bare", TypeOK, WritersInvariant,
         ConnInv, WireFraming, WireFraming', pc[t] = "sendText", Put(call[t], kind),
         UNCHANGED <<PendingSends, slotOf, result>>
  PROVE  Channel!Next
<1>1. PICK c \in Conns : c = Target
  BY SendFacts
<1>2. /\ kind \in Kinds /\ kind \in {"inner", "ended"} /\ call[t] \in 0 .. MaxCalls
      /\ call[t] # 0 /\ PendingSends[t] = call[t]
  BY TextsAreKinds, TextsType, CallsAreNumbers DEF WritersInvariant, SendPcs, PendingSends
<1>3. PICK n, p \in Nat :
        /\ n = Len(wire[c]) /\ p = Len(wire'[c]) /\ p = n + 1
        /\ \A i \in 1 .. n : wire'[c][i] = wire[c][i]
        /\ wire'[c][p].kind = kind /\ wire'[c][p].call = call[t]
        /\ LinesRead' = [LinesRead EXCEPT ![c] = @ \cup {LineAt(wire'[c], p)}]
  BY <1>1, <1>2, PutLine
<1>4. \A d \in Conns : Channel!LinesOf(call[t], d) = {}
  BY NothingYet, NothingNoLines
<1>5. Framed(wire'[c])
  BY DEF WireFraming, Framed
<1>6. p \in 1 .. p /\ p % 2 = 0
  <2>1. p \in 1 .. p /\ wire'[c][p].kind \in Texts
    BY <1>3
  <2> QED
    BY <1>3, <1>5, <2>1, FrameFacts
<1>7. LineCalls(wire'[c], p) = {call[t]}
  <2>1. p = Len(wire'[c]) /\ wire'[c][p].call = call[t]
    BY <1>3
  <2>2. LineCalls(wire'[c], p) = {wire'[c][p].call}
    BY <1>5, <1>6, <2>1, TextLine
  <2> QED
    BY <2>1, <2>2
<1> DEFINE l == LineAt(wire'[c], p)
<1>8. l.end = p /\ l.calls = {call[t]}
  BY <1>7 DEF LineAt
<1>9. LinesRead' = [LinesRead EXCEPT ![c] = @ \cup {l}]
  BY <1>3
<1> HIDE DEF l
<1>10. l \in LinesRead'[c]
  BY <1>9 DEF LinesRead
<1>11. \A m \in LinesRead[c] : m.end < l.end
  <2>1. \A m \in LinesRead[c] : m.end \in 1 .. n
    BY <1>3, LineEnds
  <2> QED
    BY <1>3, <1>8, <2>1
<1>12. Channel!Fits(t, c, l)
  BY <1>2, <1>4, <1>8 DEF Channel!Fits
<1>13. Channel!Deliver(t)
  BY <1>2, <1>4, <1>9, <1>10, <1>11, <1>12 DEF Channel!Deliver
<1> QED
  BY <1>13 DEF Channel!Next

\* The newline ends the message, or adds a blank line when the text has.
LEMMA ChannelNewline ==
  ASSUME NEW t \in Threads, TypeOK, WritersInvariant, ConnInv, WireFraming, WireFraming',
         Told(t), pc[t] = "sendNl", Put(call[t], "nl"),
         UNCHANGED <<PendingSends, slotOf, result>>
  PROVE  Channel!Next
<1>1. PICK c \in Conns : c = Target
  BY SendFacts
<1>2. /\ "nl" \in Kinds /\ call[t] \in 0 .. MaxCalls
      /\ call[t] # 0 /\ PendingSends[t] = call[t]
  BY TextsAreKinds, CallsAreNumbers DEF WritersInvariant, SendPcs, PendingSends
<1>3. PICK n, p \in Nat :
        /\ n = Len(wire[c]) /\ p = Len(wire'[c]) /\ p = n + 1
        /\ \A i \in 1 .. n : wire'[c][i] = wire[c][i]
        /\ wire'[c][p].kind = "nl"
        /\ LinesRead' = [LinesRead EXCEPT ![c] = @ \cup {LineAt(wire'[c], p)}]
  BY <1>1, <1>2, PutLine
<1>4. TextOnly(t)
  BY DEF Told
<1>5. /\ n \in 1 .. n /\ n % 2 = 0 /\ wire[c][n].call = call[t] /\ wire[c][n].kind \in Texts
      /\ Channel!LinesOf(call[t], c) =
           IF EndsLine(wire[c][n]) THEN {LineAt(wire[c], n)} ELSE {}
      /\ \A d \in Conns \ {c} : Channel!LinesOf(call[t], d) = {}
  <2>1. PICK q \in Nat :
          /\ q = Len(wire[c]) /\ q \in 1 .. q /\ q % 2 = 0 /\ wire[c][q].call = call[t]
          /\ wire[c][q].kind \in Texts
          /\ Channel!LinesOf(call[t], c) =
               IF EndsLine(wire[c][q]) THEN {LineAt(wire[c], q)} ELSE {}
          /\ \A d \in Conns \ {c} : Channel!LinesOf(call[t], d) = {}
    BY <1>1, <1>4, TextLines
  <2>2. q = n
    BY <1>3, <2>1
  <2> QED
    BY <2>1, <2>2
<1>6. Framed(wire'[c])
  BY DEF WireFraming, Framed
<1>7. LineCalls(wire'[c], p) =
        IF wire[c][n].kind = "ended" THEN {} ELSE {call[t]}
  <2>1. p \in 1 .. p /\ p % 2 = 1 /\ p # 1 /\ p - 1 = n
    <3>1. p = n + 1 /\ n >= 1
      BY <1>3, <1>5
    <3>2. (n + 1) % 2 = 1
      BY <1>5, Parity
    <3> QED
      BY <3>1, <3>2
  <2>2. LineCalls(wire'[c], p) =
          IF wire'[c][p - 1].kind = "ended" THEN {} ELSE {wire'[c][p - 1].call}
    BY <1>3, <1>6, <2>1, NewlineLine
  <2>3. wire'[c][n] = wire[c][n]
    BY <1>3, <1>5
  <2> QED
    BY <1>5, <2>1, <2>2, <2>3
<1> DEFINE l == LineAt(wire'[c], p)
<1>8. l.end = p /\ l.calls = IF wire[c][n].kind = "ended" THEN {} ELSE {call[t]}
  BY <1>7 DEF LineAt
<1>9. LinesRead' = [LinesRead EXCEPT ![c] = @ \cup {l}]
  BY <1>3
<1> HIDE DEF l
<1>10. l \in LinesRead'[c]
  BY <1>9 DEF LinesRead
<1>11. \A m \in LinesRead[c] : m.end \in 1 .. n
  BY <1>3, LineEnds
<1>12. \A m \in LinesRead[c] : m.end < l.end
  BY <1>3, <1>8, <1>11
<1>13. LineAt(wire[c], n).done <=> wire[c][n].kind # "inner"
  BY DEF LineAt
<1>14. (\E m \in Channel!LinesOf(call[t], c) : m.done) <=> wire[c][n].kind = "ended"
  <2>1. EndsLine(wire[c][n]) <=> wire[c][n].kind \in {"inner", "ended"}
    BY <1>5, TextsType DEF EndsLine
  <2> QED
    BY <1>5, <1>13, <2>1
<1>15. Channel!Fits(t, c, l)
  BY <1>2, <1>5, <1>8, <1>14 DEF Channel!Fits
<1>16. ASSUME NEW m \in Channel!LinesOf(call[t], c), NEW k \in LinesRead[c], m.end <= k.end
       PROVE  k \in Channel!LinesOf(call[t], c)
  <2>1. m = LineAt(wire[c], n)
    BY <1>5, <1>16
  <2>2. PICK e \in 1 .. n : k = LineAt(wire[c], e)
    BY <1>3, LineEnds
  <2>3. m.end = n /\ k.end = e
    BY <2>1, <2>2 DEF LineAt
  <2>4. e = n
    BY <1>16, <2>3
  <2> QED
    BY <1>16, <2>1, <2>2, <2>4
<1>17. Channel!Deliver(t)
  BY <1>2, <1>9, <1>10, <1>12, <1>15, <1>16 DEF Channel!Deliver
<1> QED
  BY <1>17 DEF Channel!Next

\* A message that was sent whole has its last line at the hub.
LEMMA WholeHasLine ==
  ASSUME TypeOK, WireFraming, AtHome, NEW t \in Threads, SentWhole(t)
  PROVE  \E c \in Conns : \E l \in Channel!LinesOf(call[t], c) : l.done
<1>1. PICK c \in Files : \E i, j \in Mine(t, c) : /\ i < j /\ wire[c][i].kind \in Texts
                                                  /\ wire[c][j].kind = "nl"
  BY DEF SentWhole
<1>2. PICK i, j \in Mine(t, c) : i < j /\ wire[c][i].kind \in Texts
  BY <1>1
<1>3. c \in Conns
  <2> SUFFICES ASSUME c \notin Conns PROVE FALSE
    OBVIOUS
  <2>1. wire[c] = <<>>
    BY DEF AtHome
  <2>2. 1 .. Len(<<>>) = {}
    OBVIOUS
  <2> QED
    BY <2>1, <2>2 DEF Mine
<1>4. PICK n \in Nat : n = Len(wire[c])
  BY <1>3, ConnFramed
<1>5. Framed(wire[c])
  BY <1>3, ConnFramed
<1>6. i \in 1 .. n /\ j \in 1 .. n /\ wire[c][i].call = call[t]
  BY <1>4 DEF Mine
<1>7. i % 2 = 0 /\ i # 1 /\ i + 1 \in 1 .. n /\ i + 1 # 1
  <2>1. i % 2 = 0 /\ i # 1
    BY <1>2, <1>4, <1>5, <1>6, FrameFacts
  <2>2. i + 1 \in 1 .. n /\ i + 1 # 1
    BY <1>2, <1>6
  <2> QED
    BY <2>1, <2>2
<1>8. CASE wire[c][i].kind = "ended"
  <2>1. EndsLine(wire[c][i]) /\ ~IsId(wire[c][i])
    BY <1>8 DEF EndsLine, IsId
  <2>2. LineAt(wire[c], i) \in HubLines(wire[c])
    BY <1>4, <1>6, <2>1, LinesAt
  <2>3. LineCalls(wire[c], i) = {wire[c][i].call}
    BY <1>4, <1>5, <1>6, <1>7, TextLine
  <2>4. call[t] \in LineAt(wire[c], i).calls /\ LineAt(wire[c], i).done
    BY <1>6, <1>8, <2>3 DEF LineAt
  <2> QED
    BY <1>3, <2>2, <2>4 DEF Channel!LinesOf, LinesRead
<1>9. CASE wire[c][i].kind # "ended"
  <2>1. PICK p \in Nat : p = i + 1
    BY <1>6
  <2>2. p \in 1 .. n /\ p # 1 /\ p % 2 = 1 /\ p - 1 = i
    <3>1. (i + 1) % 2 = 1
      BY <1>6, <1>7, Parity
    <3> QED
      BY <1>6, <1>7, <2>1, <3>1
  <2>3. wire[c][p].kind = "nl" /\ EndsLine(wire[c][p]) /\ ~IsId(wire[c][p])
    BY <1>4, <1>5, <2>2, FrameFacts
  <2>4. LineAt(wire[c], p) \in HubLines(wire[c])
    BY <1>4, <2>2, <2>3, LinesAt
  <2>5. LineCalls(wire[c], p) =
          IF wire[c][p - 1].kind = "ended" THEN {} ELSE {wire[c][p - 1].call}
    BY <1>4, <1>5, <2>2, NewlineLine
  <2>6. call[t] \in LineCalls(wire[c], p)
    BY <1>6, <1>9, <2>2, <2>5
  <2>7. call[t] \in LineAt(wire[c], p).calls /\ LineAt(wire[c], p).done
    BY <2>3, <2>6 DEF LineAt
  <2> QED
    BY <1>3, <2>4, <2>7 DEF Channel!LinesOf, LinesRead
<1> QED
  BY <1>8, <1>9

\* The caller of a send gets its answer, or the caller of something else.
LEMMA ChannelReturn ==
  ASSUME NEW t \in Threads, NEW r \in Results, TypeOK, WritersInvariant, WireFraming, AtHome,
         Answer(t, r), pc[t] \in SendPcs /\ slotOf = t =>
                         /\ r = NoError => SentWhole(t)
                         /\ r \in {"NotConnected", "NullArgument"} => Nothing(t)
  PROVE  Channel!Next
<1>1. /\ result' = [result EXCEPT ![t] = r] /\ UNCHANGED <<wire, slotOf>>
      /\ call' = [call EXCEPT ![t] = 0]
  BY DEF Answer, client, slot, kernel
<1>2. LinesRead' = LinesRead
  BY <1>1, LinesUnread
<1>3. pc'[t] \notin SendPcs /\ \A u \in Threads : u # t => pc'[u] = pc[u] /\ call'[u] = call[u]
  <2>1. back[t] \notin SendPcs
    BY DEF TypeOK, SendPcs
  <2> QED
    BY <1>1, <2>1 DEF Answer, Goto, TypeOK
<1>4. PendingSends' = [PendingSends EXCEPT ![t] = 0]
  BY <1>3 DEF PendingSends
<1>5. CASE pc[t] \in SendPcs
  <2>1. PendingSends[t] = call[t] /\ call[t] # 0
    BY <1>5 DEF PendingSends, WritersInvariant
  <2>2. slotOf = t => /\ r = NoError =>
                           \E c \in Conns : \E l \in Channel!LinesOf(call[t], c) : l.done
                      /\ r \in {"NotConnected", "NullArgument"} =>
                           \A c \in Conns : Channel!LinesOf(call[t], c) = {}
    BY <1>5, WholeHasLine, NothingNoLines
  <2>3. Channel!Return(t)
    BY <1>1, <1>2, <1>4, <2>1, <2>2 DEF Channel!Return
  <2> QED
    BY <2>3 DEF Channel!Next
<1>6. CASE pc[t] \notin SendPcs
  <2>1. PendingSends[t] = 0 /\ PendingSends' = PendingSends
    BY <1>4, <1>6 DEF PendingSends
  <2>2. Channel!OtherCall(t)
    BY <1>1, <1>2, <2>1 DEF Channel!OtherCall
  <2> QED
    BY <2>2 DEF Channel!Next
<1> QED
  BY <1>5, <1>6

\* Every step of the client is a step of the channel, or none.
LEMMA ChannelStep ==
  ASSUME Calm, TypeOK, WritersInvariant, ConnInv, WireFraming, WireFraming', Reports,
         [Next]_vars
  PROVE  [Channel!Next]_<<PendingSends, LinesRead, slotOf, result>>
<1> DEFINE Goal == [Channel!Next]_<<PendingSends, LinesRead, slotOf, result>>
<1> SUFFICES Goal
  OBVIOUS
<1>1. ASSUME Channel!Next PROVE Goal
  BY <1>1
<1>2. ASSUME UNCHANGED <<PendingSends, LinesRead, slotOf, result>> PROVE Goal
  BY <1>2
<1> HIDE DEF Goal
<1>3. ASSUME NEW t \in Threads, NEW l \in Pcs, l \in SendPcs <=> pc[t] \in SendPcs,
             Goto(t, l), UNCHANGED <<call, wire, slotOf, result>>
      PROVE  Goal
  BY <1>2, <1>3, PendingMoves, LinesUnread
<1>4. ASSUME NEW t \in Threads, NEW l \in Pcs, l \in SendPcs <=> pc[t] \in SendPcs,
             NEW code, Goto(t, l), Fail(t, code), UNCHANGED <<call, wire, result>>
      PROVE  Goal
  <2>1. PendingSends' = PendingSends
    BY <1>4, PendingMoves
  <2> QED
    BY <1>1, <1>4, <2>1, ChannelFails
<1>5. ASSUME UNCHANGED <<call, pc, wire, slotOf, result>> PROVE Goal
  BY <1>2, <1>5, LinesUnread DEF PendingSends
<1>6. ASSUME NEW t \in Threads, Begins(t) PROVE Goal
  BY <1>1, <1>6, ChannelBegin, PcsEnumerated
  DEF Begins, CallConnect, CallDisconnect, CallSend, CallListen, SendPcs
<1>7. \A l \in Pcs :
        l \in SendPcs <=> l \in {"sendCheck", "sendText", "sendNl", "sendRet", "sendCode"}
  BY DEF SendPcs
<1>8. ASSUME NEW t \in Threads,
             ConnectSocket(t) \/ ConnectOpen(t) \/ ConnectStore(t) \/ ConnectTimed(t)
      PROVE  Goal
  BY <1>3, <1>4, <1>7, <1>8, PcsEnumerated DEF ConnectSocket, ConnectOpen, ConnectStore,
     ConnectTimed, client, slot, kernel, local
<1>9. ASSUME NEW t \in Threads, ConnectHello(t) PROVE Goal
  <2>1. UNCHANGED <<call, result>> /\ pc[t] = "connHello"
    BY <1>9 DEF ConnectHello, local
  <2>2. CASE Put(0, "id") /\ Goto(t, "connReply") /\ UNCHANGED slot
    <3>1. 0 \in 0 .. MaxCalls /\ "id" \in Kinds
      BY CallsAreNumbers, TextsAreKinds
    <3>2. LinesRead' = LinesRead
      BY <2>2, <3>1, PutNoLine
    <3>3. PendingSends' = PendingSends
      BY <1>7, <2>1, <2>2, PendingMoves, PcsEnumerated
    <3> QED
      BY <1>2, <2>1, <2>2, <3>2, <3>3 DEF slot
  <2>3. CASE Fail(t, "HandshakeFailed") /\ Goto(t, "connVerify") /\ wire' = wire
    BY <1>4, <1>7, <2>1, <2>3, PcsEnumerated
  <2> QED
    BY <1>9, <2>2, <2>3 DEF ConnectHello, Calm
<1>10. ASSUME NEW t \in Threads,
              ConnectReply(t) \/ ConnectCut(t) \/ ConnectUntime(t) \/ ConnectRefuse(t)
       PROVE  Goal
  BY <1>3, <1>4, <1>7, <1>10, PcsEnumerated DEF ConnectReply, ConnectCut, ConnectUntime,
     ConnectRefuse, client, slot, kernel, local
<1>11. ASSUME NEW t \in Threads,
              \/ ConnectVerify(t) \/ ConnectClose(t) \/ ConnectReset(t)
              \/ DisconnectCheck(t) \/ DisconnectReset(t) \/ DisconnectDown(t)
       PROVE  Goal
  BY <1>3, <1>7, <1>11, PcsEnumerated DEF ConnectVerify, ConnectClose, ConnectReset,
     DisconnectCheck, DisconnectReset, DisconnectDown, client, slot, kernel, local
<1>12. ASSUME NEW t \in Threads, SendCheck(t) PROVE Goal
  BY <1>3, <1>4, <1>7, <1>12, PcsEnumerated DEF SendCheck, slot, kernel, local
<1>13. ASSUME NEW t \in Threads, SendText(t) PROVE Goal
  <2>1. UNCHANGED <<call, result>> /\ pc[t] = "sendText"
    BY <1>13 DEF SendText, local
  <2>2. ASSUME NEW kind \in Texts, Put(call[t], kind), Goto(t, "sendNl"), UNCHANGED slot
        PROVE  Goal
    <3>1. PendingSends' = PendingSends
      BY <1>7, <2>1, <2>2, PendingMoves, PcsEnumerated
    <3>2. call[t] \in 0 .. MaxCalls /\ kind \in Kinds
      BY CallsAreNumbers, TextsAreKinds
    <3>3. CASE kind = "bare"
      <4>1. LinesRead' = LinesRead
        BY <2>2, <3>2, <3>3, PutNoLine
      <4> QED
        BY <1>2, <2>1, <2>2, <3>1, <4>1 DEF slot
    <3>4. CASE kind # "bare"
      BY <1>1, <2>1, <2>2, <3>1, <3>4, ChannelText DEF slot
    <3> QED
      BY <3>3, <3>4
  <2>3. CASE Fail(t, "SendFailed") /\ Goto(t, "sendRet") /\ wire' = wire
    BY <1>4, <1>7, <2>1, <2>3, PcsEnumerated
  <2> QED
    BY <1>13, <2>2, <2>3 DEF SendText, Calm
<1>14. ASSUME NEW t \in Threads, SendNewline(t) PROVE Goal
  <2>1. UNCHANGED <<call, result>> /\ pc[t] = "sendNl" /\ Goto(t, "sendRet")
    BY <1>14 DEF SendNewline, local
  <2>2. CASE Put(call[t], "nl") /\ UNCHANGED slot
    <3>1. PendingSends' = PendingSends
      BY <1>7, <2>1, PendingMoves, PcsEnumerated
    <3>2. Told(t)
      BY DEF Reports
    <3> QED
      BY <1>1, <2>1, <2>2, <3>1, <3>2, ChannelNewline DEF slot
  <2>3. CASE Fail(t, "SendFailed") /\ wire' = wire
    BY <1>4, <1>7, <2>1, <2>3, PcsEnumerated
  <2> QED
    BY <1>14, <2>2, <2>3 DEF SendNewline
<1>15. ASSUME NEW t \in Threads, ListenCheck(t) PROVE Goal
  BY <1>3, <1>4, <1>7, <1>15, PcsEnumerated DEF ListenCheck, slot, kernel, local
<1>16. ASSUME NEW t \in Threads,
              ListenRead(t) \/ ListenData(t) \/ ListenLeaves(t) \/ HandlerDone(t)
       PROVE  Goal
  BY <1>3, <1>7, <1>16, PcsEnumerated DEF ListenRead, ListenData, ListenLeaves, HandlerDone,
     client, slot, kernel, local
<1>17. ASSUME NEW t \in Threads, Return(t) \/ ReturnError(t) PROVE Goal
  <2>1. Told(t) /\ AtHome
    BY DEF Reports
  <2>2. errorCode \in Results /\ NoError \in Results /\ errorCode # NoError
        /\ NoError \notin {"NotConnected", "NullArgument"}
    BY DEF TypeOK, Results, ErrorCodes, NoError
  <2>3. CASE /\ errorCode = "" /\ pc[t] \in {"lifeRet", "sendRet", "listenRet"}
             /\ Answer(t, NoError)
    <3>1. pc[t] \in SendPcs /\ slotOf = t => SentWhole(t)
      BY <2>1, <2>3 DEF Told, SendPcs
    <3> QED
      BY <1>1, <2>1, <2>2, <2>3, <3>1, ChannelReturn
  <2>4. CASE pc[t] \in {"lifeCode", "sendCode", "listenCode"} /\ Answer(t, errorCode)
    <3>1. pc[t] \in SendPcs /\ slotOf = t =>
            (errorCode \in {"NotConnected", "NullArgument"} => Nothing(t))
      BY <2>1, <2>4 DEF Told, SendPcs
    <3> QED
      BY <1>1, <2>1, <2>2, <2>4, <3>1, ChannelReturn
  <2>5. CASE /\ pc[t] \in {"lifeRet", "sendRet", "listenRet"} /\ Goto(t, SecondLook[pc[t]])
             /\ UNCHANGED <<client, kernel, hub, local>>
    <3>1. UNCHANGED <<call, wire, slotOf, result>>
      BY <2>5 DEF client, slot, kernel, local
    <3>2. /\ SecondLook["lifeRet"] = "lifeCode" /\ SecondLook["sendRet"] = "sendCode"
          /\ SecondLook["listenRet"] = "listenCode"
      BY DEF SecondLook
    <3> QED
      BY <1>3, <1>7, <2>5, <3>1, <3>2, PcsEnumerated
  <2> QED
    <3>1. CASE ReturnError(t)
      BY <2>4, <3>1 DEF ReturnError
    <3>2. CASE Return(t)
      <4>1. pc[t] \in {"lifeRet", "sendRet", "listenRet"}
        BY <3>2 DEF Return, SecondLook
      <4> QED
        BY <2>3, <2>5, <3>2, <4>1 DEF Return
    <3> QED
      BY <1>17, <3>1, <3>2
<1>18. CASE Destroy \/ Environment \/ UNCHANGED vars
  <2>1. Destroy => UNCHANGED <<call, pc, wire, slotOf, result>>
    BY DEF Destroy, kernel, hub, threads, local
  <2>2. Environment => UNCHANGED <<call, pc, wire, slotOf, result>>
    BY DEF Environment, HubReply, HubSend, HubClose, ForeignOpen, ForeignClose,
       client, slot, kernel, hub, threads, local
  <2>3. UNCHANGED vars => UNCHANGED <<call, pc, wire, slotOf, result>>
    BY DEF vars, client, slot, kernel, hub, threads, local
  <2> QED
    BY <1>5, <1>18, <2>1, <2>2, <2>3
<1> QED
  BY <1>6, <1>8, <1>9, <1>10, <1>11, <1>12, <1>13, <1>14, <1>15, <1>16, <1>17, <1>18
  DEF Next, Connect, Disconnect, Send, Listen, ListenEof, ListenCut, Begins

\* The client implements the channel: what it delivers for each send, when, on
\* which connection, and what it tells the caller that had the last word.
THEOREM ImplementsChannel ==
  ASSUME Calm
  PROVE  Spec => SendsAreAtomic
<1>1. Init => Channel!Init
  <2> SUFFICES ASSUME Init PROVE Channel!Init
    OBVIOUS
  <2>1. /\ wire = [k \in Files |-> <<>>] /\ pc = [t \in Threads |-> "idle"]
        /\ result = [t \in Threads |-> "none"] /\ slotOf = NoThread
    BY DEF Init
  <2>2. PendingSends = [t \in Threads |-> 0]
    BY <2>1 DEF PendingSends, SendPcs
  <2>3. \A c \in Conns : wire[c] = <<>>
    BY <2>1, FileFacts
  <2>4. HubLines(<<>>) = {}
    <3>1. 1 .. Len(<<>>) = {}
      OBVIOUS
    <3> QED
      BY <3>1 DEF HubLines
  <2>5. LinesRead = [c \in Conns |-> {}]
    BY <2>3, <2>4 DEF LinesRead
  <2> QED
    BY <2>1, <2>2, <2>5 DEF Channel!Init
<1>2. /\ TypeOK /\ ConnInv /\ WritersInvariant /\ Lines /\ WireFraming /\ Reports
      /\ [Next]_vars
      => (Lines /\ WireFraming /\ Reports)'
  BY LinesStep, ReportsStep
<1>3. /\ TypeOK /\ ConnInv /\ WritersInvariant /\ WireFraming /\ WireFraming' /\ Reports
      /\ [Next]_vars
      => [Channel!Next]_<<PendingSends, LinesRead, slotOf, result>>
  BY ChannelStep
<1>4. Init => Lines /\ WireFraming /\ Reports
  BY LinesInit, ReportsInit
<1>5. Promise
  BY DEF Calm
<1> QED
  BY <1>1, <1>2, <1>3, <1>4, <1>5, ConnInvCorrect, WritersCorrect, PTL
  DEF Spec, SendsAreAtomic, Channel!Spec, Channel!vars

=============================================================================
