--------------------------- MODULE LifetimesProofs ---------------------------
(***************************************************************************)
(* Proofs about Lifetimes, for any number of threads, clients, messages.   *)
(***************************************************************************)
EXTENDS Lifetimes, SequenceLemmas

----------------------------------------------------------------------------
(* The inductive invariant *)

\* A thread is in no call, in one, in a handler that listen() called, or in a
\* call that such a handler makes.  A handler works for the client that listens,
\* on a message on listen()'s stack.
Shape(t) ==
  LET n == Len(frames[t])
  IN  /\ n <= 3
      /\ n >= 1 => frames[t][1].at # "handler"
      /\ n >= 2 => /\ frames[t][1].at = "listen" /\ frames[t][2].at = "handler"
                   /\ frames[t][2].client = frames[t][1].client
                   /\ frames[t][2].msg \in Messages /\ mem[frames[t][2].msg] = "stack"
      /\ n = 3 => frames[t][3].at \notin {"listen", "handler"}
      /\ \A i \in 1 .. n :
           frames[t][i].at \in {"call", "send", "listen", "code"} => frames[t][i].client \in Clients

\* listen() makes a message for every delivery.
OwnMessages ==
  \A t, u \in Threads :
    Len(frames[t]) >= 2 /\ Len(frames[u]) >= 2 /\ frames[t][2].msg = frames[u][2].msg => t = u

\* The finalizer of a client that can be reached has not run.
Protected == Clients \cap Reachable \subseteq finalizer

\* What the finalizer goroutine destroys is there, and nobody else's.
Dying ==
  finalizing # Nothing =>
    mem[finalizing] = "heap" /\ finalizing \notin finalizer /\ closures[finalizing] = {}

LifeInv ==
  /\ TypeOK /\ Protected /\ Dying /\ OwnMessages
  /\ \A t \in Threads : Shape(t)
  /\ \A c \in Clients : closures[c] # {} => mem[c] = "heap"
  /\ \A o \in Objects : mem[o] # "corrupt"

----------------------------------------------------------------------------
(* Frames *)

\* The frames of all calls are the elements of the sequences.
LEMMA FrameOfAll ==
  ASSUME NEW f
  PROVE  f \in AllFrames <=> \E t \in Threads : \E i \in DOMAIN frames[t] : f = frames[t][i]
BY DEF AllFrames, ToSet

\* What can be reached, call by call.
LEMMA ReachableBy ==
  ASSUME NEW c \in Clients
  PROVE  c \in Reachable <=> \/ c \in held \/ "capturing" \in closures[c]
                             \/ \E t \in Threads : \E i \in DOMAIN frames[t] : c \in RefsOf(frames[t][i])
<1>1. c \in Reachable <=> \/ c \in held \/ "capturing" \in closures[c]
                          \/ \E f \in AllFrames : c \in RefsOf(f)
  BY DEF Reachable
<1> QED
  BY <1>1, FrameOfAll

\* A client is referred to by the methods that will ask for its error, and by
\* closures that captured it.
LEMMA ClientRefs ==
  ASSUME NEW f \in Frame, NEW c \in Clients
  PROVE  c \in RefsOf(f) <=> \/ f.at \in {"call", "send", "listen", "code"} /\ c = f.client
                             \/ f.at = "build" /\ c = f.msg
                             \/ f.closure = "capturing" /\ c = f.client
<1>1. CASE f.at \in {"call", "send", "listen", "code"}
  BY <1>1 DEF RefsOf, MethodRefs
<1>2. CASE f.at = "build"
  BY <1>2 DEF RefsOf, MethodRefs
<1>3. CASE f.at \notin {"call", "send", "listen", "code", "build"}
  BY <1>3 DEF RefsOf, MethodRefs
<1> QED
  BY <1>1, <1>2, <1>3

\* The sequences of frames are made of frames.
LEMMA FramesType ==
  ASSUME TypeOK, NEW t \in Threads
  PROVE  /\ frames[t] \in Seq(Frame) /\ Len(frames[t]) \in Nat
         /\ DOMAIN frames[t] = 1 .. Len(frames[t])
         /\ \A i \in 1 .. Len(frames[t]) : frames[t][i] \in Frame
<1>1. frames[t] \in Seq(Frame)
  BY DEF TypeOK
<1> QED
  BY <1>1, LenProperties, ElementOfSeq

\* The innermost call is the last frame, and the place tells how deep it is.
LEMMA Depth ==
  ASSUME TypeOK, NEW t \in Threads, Shape(t)
  PROVE  /\ \A place : Within(t, place) => /\ Len(frames[t]) >= 1 /\ Top(t) = frames[t][Len(frames[t])]
                                           /\ Top(t).at = place
         /\ Within(t, "handler") => Len(frames[t]) = 2
         /\ Within(t, "listen") => Len(frames[t]) = 1
         /\ \A place \in Places \ {"handler", "listen"} : Within(t, place) => Len(frames[t]) \in {1, 3}
         /\ InApplication(t) => Len(frames[t]) \in {0, 2}
<1> DEFINE s == frames[t]
<1>1. s \in Seq(Frame) /\ Len(s) \in Nat
  BY FramesType
<1>2. ASSUME NEW place, Within(t, place)
      PROVE  Len(s) >= 1 /\ Top(t) = s[Len(s)] /\ Top(t).at = place
  <2>1. s # <<>>
    BY <1>2 DEF Within
  <2>2. Len(s) # 0
    BY <1>1, <2>1, EmptySeq
  <2> QED
    BY <1>1, <1>2, <2>2 DEF Within, Top, Last
<1>3. s = <<>> => Len(s) = 0
  BY EmptySeq
<1> DEFINE n == Len(s)
<1> HIDE DEF s
<1>4. /\ n <= 3 /\ (n >= 1 => s[1].at # "handler")
      /\ n >= 2 => s[1].at = "listen" /\ s[2].at = "handler"
      /\ n = 3 => s[3].at \notin {"listen", "handler"}
  BY DEF Shape, s
<1>9. n \in Nat
  BY <1>1
<1> HIDE DEF n
<1>5. n \in {0, 1, 2, 3}
  BY <1>4, <1>9
<1>6. ASSUME NEW place, Within(t, place)
      PROVE  /\ place = "handler" => n = 2
             /\ place = "listen" => n = 1
             /\ place \notin {"handler", "listen"} => n \in {1, 3}
  <2>1. n >= 1 /\ s[n].at = place
    BY <1>2, <1>6 DEF n
  <2>2. n = 1 \/ n = 2 \/ n = 3
    BY <1>5, <2>1
  <2> QED
    BY <1>4, <2>1, <2>2
<1>7. Within(t, "handler") => n = 2
  BY <1>6
<1>8. InApplication(t) => n \in {0, 2}
  BY <1>3, <1>7 DEF InApplication, s, n
<1> QED
  BY <1>2, <1>6, <1>7, <1>8 DEF s, n

\* A call begins.
LEMMA PushFrames ==
  ASSUME TypeOK, NEW t \in Threads, NEW f \in Frame, Push(t, f)
  PROVE  /\ frames' \in [Threads -> Seq(Frame)]
         /\ Len(frames'[t]) = Len(frames[t]) + 1
         /\ \A i \in 1 .. Len(frames[t]) : frames'[t][i] = frames[t][i]
         /\ frames'[t][Len(frames[t]) + 1] = f
         /\ \A u \in Threads \ {t} : frames'[u] = frames[u]
<1>1. frames[t] \in Seq(Frame) /\ frames \in [Threads -> Seq(Frame)]
  BY DEF TypeOK
<1>2. frames' = [frames EXCEPT ![t] = Append(frames[t], f)]
  BY <1>1 DEF Push
<1>3. /\ Append(frames[t], f) \in Seq(Frame)
      /\ Len(Append(frames[t], f)) = Len(frames[t]) + 1
      /\ \A i \in 1 .. Len(frames[t]) : Append(frames[t], f)[i] = frames[t][i]
      /\ Append(frames[t], f)[Len(frames[t]) + 1] = f
  BY <1>1, AppendProperties
<1> QED
  BY <1>1, <1>2, <1>3

\* A call goes on to another place.
LEMMA GotoFrames ==
  ASSUME TypeOK, NEW t \in Threads, Len(frames[t]) >= 1, NEW place \in Places, Goto(t, place)
  PROVE  LET n == Len(frames[t])
         IN  /\ frames' \in [Threads -> Seq(Frame)]
             /\ Len(frames'[t]) = n
             /\ \A i \in 1 .. n - 1 : frames'[t][i] = frames[t][i]
             /\ frames'[t][n] = [frames[t][n] EXCEPT !.at = place] /\ frames'[t][n] \in Frame
             /\ \A u \in Threads \ {t} : frames'[u] = frames[u]
<1> DEFINE s == frames[t]
           n == Len(s)
           f == [s[n] EXCEPT !.at = place]
           r == [s EXCEPT ![n] = f]
<1>1. s \in Seq(Frame) /\ n \in Nat /\ n \in 1 .. n /\ frames \in [Threads -> Seq(Frame)]
  BY DEF TypeOK
<1>2. s[n] \in Frame
  BY <1>1, ElementOfSeq
<1>3. f \in Frame
  BY <1>2 DEF Frame
<1>4. frames' = [frames EXCEPT ![t] = r]
  BY <1>1 DEF Goto
<1> HIDE DEF f
<1>5. r \in Seq(Frame) /\ Len(r) = n /\ r[n] = f /\ \A i \in 1 .. n - 1 : r[i] = s[i]
  BY <1>1, <1>3, ExceptSeq
<1> HIDE DEF r
<1>6. frames'[t] = r /\ frames' \in [Threads -> Seq(Frame)] /\ \A u \in Threads \ {t} : frames'[u] = frames[u]
  BY <1>1, <1>4, <1>5
<1> QED
  BY <1>3, <1>5, <1>6 DEF f

\* A call returns.
LEMMA PopFrames ==
  ASSUME TypeOK, NEW t \in Threads, Len(frames[t]) >= 1, Pop(t)
  PROVE  /\ frames' \in [Threads -> Seq(Frame)]
         /\ Len(frames'[t]) = Len(frames[t]) - 1
         /\ \A i \in 1 .. Len(frames[t]) - 1 : frames'[t][i] = frames[t][i]
         /\ \A u \in Threads \ {t} : frames'[u] = frames[u]
<1> DEFINE s == frames[t]
           n == Len(s)
           r == SubSeq(s, 1, n - 1)
<1>1. s \in Seq(Frame) /\ n \in Nat /\ n >= 1 /\ frames \in [Threads -> Seq(Frame)]
  BY DEF TypeOK
<1>2. frames' = [frames EXCEPT ![t] = r]
  BY <1>1 DEF Pop, Front
<1>3. \A i \in 1 .. n - 1 : s[i] \in Frame
  BY <1>1, ElementOfSeq
<1> HIDE DEF n, s
<1>4. r \in Seq(Frame) /\ Len(r) = n - 1 /\ \A i \in 1 .. n - 1 : r[i] = s[i]
  <2>1. 1 \in Nat /\ n - 1 \in Nat /\ (n - 1) - 1 + 1 = n - 1
    BY <1>1
  <2> QED
    BY <1>1, <1>3, <2>1, SubSeqProperties DEF n
<1> HIDE DEF r
<1>5. frames'[t] = r /\ frames' \in [Threads -> Seq(Frame)] /\ \A u \in Threads \ {t} : frames'[u] = frames[u]
  BY <1>1, <1>2, <1>4 DEF s
<1> QED
  BY <1>4, <1>5 DEF n, s

----------------------------------------------------------------------------
(* What an invariant needs of a step *)

\* The frames of a thread stay shaped when it does nothing and the message its
\* handler has stays on the stack.
LEMMA ShapeKept ==
  ASSUME NEW u \in Threads, Shape(u), frames'[u] = frames[u],
         Len(frames[u]) >= 2 => mem'[frames[u][2].msg] = mem[frames[u][2].msg]
  PROVE  Shape(u)'
BY DEF Shape

\* A step by which no call comes to refer to a client that was out of reach, nor
\* a variable or a closure.
LEMMA NothingRevived ==
  ASSUME Protected,
         \A c \in Clients : /\ c \in held' => c \in held
                            /\ "capturing" \in closures'[c] => c \in Reachable,
         \A u \in Threads : \A i \in DOMAIN frames'[u] : \A c \in Clients :
           c \in RefsOf(frames'[u][i]) => c \in Reachable,
         Clients \cap finalizer \cap Reachable' \subseteq finalizer'
  PROVE  Protected'
<1> SUFFICES ASSUME NEW c \in Clients, c \in Reachable' PROVE c \in finalizer'
  BY DEF Protected
<1>1. \/ c \in held' \/ "capturing" \in closures'[c]
      \/ \E f \in AllFrames' : c \in RefsOf(f)
  BY DEF Reachable
<1>2. (\E f \in AllFrames' : c \in RefsOf(f)) =>
        \E u \in Threads : \E i \in DOMAIN frames'[u] : c \in RefsOf(frames'[u][i])
  BY DEF AllFrames, ToSet
<1>3. c \in Reachable
  BY <1>1, <1>2 DEF Reachable
<1>4. c \in finalizer
  BY <1>3 DEF Protected
<1> QED
  BY <1>4

\* A client the application can name is one the collector leaves alone.
LEMMA KnownIsProtected ==
  ASSUME LifeInv, NEW t \in Threads, NEW c \in Clients \cap Knows(t), InApplication(t)
  PROVE  c \in Reachable /\ c \in finalizer /\ mem[c] = "heap" /\ c # finalizing
<1>1. c \in Reachable
  <2>1. CASE c \in held
    BY <2>1 DEF Reachable
  <2>2. CASE c \notin held
    <3>1. /\ Within(t, "handler") /\ Len(frames[t]) = 2 /\ Top(t) = frames[t][2]
          /\ c = Top(t).msg \/ (Top(t).closure = "capturing" /\ c = Top(t).client)
      BY <2>2, Depth DEF Knows, LifeInv
    <3>2. frames[t][2].msg \in Messages /\ frames[t][2] \in Frame /\ 2 \in DOMAIN frames[t]
      BY <3>1, FramesType DEF LifeInv, Shape
    <3>3. c \in RefsOf(frames[t][2])
      BY <3>1, <3>2, ClientRefs, LifetimeAssumption DEF LifetimeAssumption
    <3> QED
      BY <3>2, <3>3, ReachableBy
  <2> QED
    BY <2>1, <2>2
<1>2. c \in finalizer
  BY <1>1 DEF LifeInv, Protected
<1>3. mem[c] = "heap"
  BY <1>2 DEF LifeInv, TypeOK
<1>4. c # finalizing
  BY <1>2, LifetimeAssumption DEF LifeInv, Dying, LifetimeAssumption
<1> QED
  BY <1>1, <1>2, <1>3, <1>4

\* A call that begins refers to no client that is out of reach, if its frame does
\* not.
LEMMA PushRefs ==
  ASSUME TypeOK, NEW t \in Threads, NEW f \in Frame, Push(t, f),
         \A k \in Clients : k \in RefsOf(f) => k \in Reachable
  PROVE  \A u \in Threads : \A i \in DOMAIN frames'[u] : \A k \in Clients :
           k \in RefsOf(frames'[u][i]) => k \in Reachable
<1> SUFFICES ASSUME NEW u \in Threads, NEW i \in DOMAIN frames'[u], NEW k \in Clients,
                    k \in RefsOf(frames'[u][i])
             PROVE  k \in Reachable
  OBVIOUS
<1> DEFINE n == Len(frames[t])
<1>1. n \in Nat
  BY FramesType
<1>2. /\ frames' \in [Threads -> Seq(Frame)] /\ Len(frames'[t]) = n + 1
      /\ \A j \in 1 .. n : frames'[t][j] = frames[t][j]
      /\ frames'[t][n + 1] = f
      /\ \A v \in Threads \ {t} : frames'[v] = frames[v]
  BY PushFrames
<1> HIDE DEF n
<1>3. CASE u # t
  BY <1>2, <1>3, ReachableBy
<1>4. CASE u = t /\ i = n + 1
  BY <1>2, <1>4
<1>5. CASE u = t /\ i # n + 1
  <2>1. frames'[t] \in Seq(Frame)
    BY <1>2
  <2>2. i \in 1 .. n + 1
    BY <1>2, <1>5, <2>1, LenProperties
  <2>3. i \in 1 .. n
    BY <1>1, <1>5, <2>2
  <2>4. i \in DOMAIN frames[t] /\ frames'[t][i] = frames[t][i]
    BY <1>2, <2>3, FramesType DEF n
  <2> QED
    BY <1>5, <2>4, ReachableBy
<1> QED
  BY <1>3, <1>4, <1>5

\* A call that returns leaves the references of the others.
LEMMA PopRefs ==
  ASSUME TypeOK, NEW t \in Threads, Len(frames[t]) >= 1, Pop(t)
  PROVE  \A u \in Threads : \A i \in DOMAIN frames'[u] : \A k \in Clients :
           k \in RefsOf(frames'[u][i]) => k \in Reachable
<1> SUFFICES ASSUME NEW u \in Threads, NEW i \in DOMAIN frames'[u], NEW k \in Clients,
                    k \in RefsOf(frames'[u][i])
             PROVE  k \in Reachable
  OBVIOUS
<1> DEFINE n == Len(frames[t])
<1>1. n \in Nat
  BY FramesType
<1>2. /\ frames' \in [Threads -> Seq(Frame)] /\ Len(frames'[t]) = n - 1
      /\ \A j \in 1 .. n - 1 : frames'[t][j] = frames[t][j]
      /\ \A v \in Threads \ {t} : frames'[v] = frames[v]
  BY PopFrames
<1> HIDE DEF n
<1>3. CASE u # t
  BY <1>2, <1>3, ReachableBy
<1>4. CASE u = t
  <2>1. frames'[t] \in Seq(Frame)
    BY <1>2
  <2>2. i \in 1 .. n - 1
    BY <1>2, <1>4, <2>1, LenProperties
  <2>3. i \in 1 .. n
    BY <1>1, <2>2
  <2>4. i \in DOMAIN frames[t] /\ frames'[t][i] = frames[t][i]
    BY <1>2, <2>2, <2>3, FramesType DEF n
  <2> QED
    BY <1>4, <2>4, ReachableBy
<1> QED
  BY <1>3, <1>4

\* Handlers keep the messages they have.
LEMMA OwnKept ==
  ASSUME OwnMessages,
         \A u \in Threads : Len(frames'[u]) >= 2 =>
           Len(frames[u]) >= 2 /\ frames'[u][2].msg = frames[u][2].msg
  PROVE  OwnMessages'
BY DEF OwnMessages

----------------------------------------------------------------------------
(* Calls *)

\* A call begins with values the application can name, which protects them.
LEMMA BeginInv ==
  ASSUME LifeInv, NEW t \in Threads, NEW place \in Places \ {"handler"},
         NEW c \in Clients \cup {Nothing}, NEW m \in Messages \cup {Nothing},
         Begin(t, place, c, m),
         place = "listen" => frames[t] = <<>>,
         place \in {"call", "send", "listen", "code"} => c \in Clients
  PROVE  LifeInv'
<1> DEFINE f == [at |-> place, client |-> c, msg |-> m, closure |-> "none"]
           n == Len(frames[t])
<1>1. /\ InApplication(t) /\ {c, m} \ {Nothing} \subseteq Knows(t) /\ Push(t, f)
      /\ UNCHANGED <<mem, finalizer, held, closures, finalizing>>
  BY DEF Begin
<1>2. f \in Frame
  BY DEF Frame
<1>3. f.at = place /\ f.client = c /\ f.msg = m /\ f.closure = "none"
  OBVIOUS
<1>4. TypeOK /\ \A u \in Threads : Shape(u)
  BY DEF LifeInv
<1> HIDE DEF f
<1>5. /\ frames' \in [Threads -> Seq(Frame)] /\ Len(frames'[t]) = n + 1
      /\ \A i \in 1 .. n : frames'[t][i] = frames[t][i]
      /\ frames'[t][n + 1] = f
      /\ \A u \in Threads \ {t} : frames'[u] = frames[u]
  BY <1>1, <1>2, <1>4, PushFrames
<1>6. n \in {0, 2} /\ (place = "listen" => n = 0)
  BY <1>1, <1>4, Depth, EmptySeq
<1> HIDE DEF n
<1>7. TypeOK'
  BY <1>1, <1>4, <1>5 DEF TypeOK
<1>8. \A k \in Clients : k \in RefsOf(f) => k \in Reachable
  <2> SUFFICES ASSUME NEW k \in Clients, k \in RefsOf(f) PROVE k \in Reachable
    OBVIOUS
  <2>1. k = c
    BY <1>2, <1>3, ClientRefs, LifetimeAssumption DEF LifetimeAssumption
  <2>2. k \in Knows(t)
    BY <1>1, <2>1, LifetimeAssumption DEF LifetimeAssumption
  <2> QED
    BY <1>1, <2>2, KnownIsProtected
<1>9. \A u \in Threads : \A i \in DOMAIN frames'[u] : \A k \in Clients :
        k \in RefsOf(frames'[u][i]) => k \in Reachable
  BY <1>1, <1>2, <1>4, <1>8, PushRefs
<1>10. Protected'
  <2>1. \A k \in Clients : "capturing" \in closures'[k] => k \in Reachable
    BY <1>1 DEF Reachable
  <2> QED
    BY <1>1, <1>9, <2>1, NothingRevived DEF LifeInv
<1>11. Shape(t)'
  <2>1. CASE n = 0
    BY <1>3, <1>5, <2>1 DEF Shape
  <2>2. CASE n = 2
    <3>1. /\ Len(frames'[t]) = 3 /\ frames'[t][1] = frames[t][1] /\ frames'[t][2] = frames[t][2]
          /\ frames'[t][3] = f
      BY <1>5, <2>2
    <3> QED
      BY <1>1, <1>3, <1>4, <1>6, <2>2, <3>1 DEF Shape, n
  <2> QED
    BY <1>6, <2>1, <2>2
<1>12. \A u \in Threads \ {t} : Shape(u)'
  BY <1>1, <1>4, <1>5, ShapeKept
<1>13. OwnMessages'
  BY <1>5, <1>6, OwnKept DEF LifeInv, n
<1> QED
  BY <1>1, <1>7, <1>10, <1>11, <1>12, <1>13 DEF LifeInv, Dying

\* A call that is no handler goes on, to where it needs no more than it did.
LEMMA GoesOnInv ==
  ASSUME LifeInv, NEW t \in Threads, NEW from \in Places \ {"handler"}, Within(t, from),
         NEW place \in {"code", "what", "get"}, Goto(t, place),
         place = "code" => from \in {"call", "send", "listen"},
         UNCHANGED <<mem, finalizer, held, closures, finalizing>>
  PROVE  LifeInv'
<1> DEFINE n == Len(frames[t])
           f == frames[t][n]
<1>1. TypeOK /\ \A u \in Threads : Shape(u)
  BY DEF LifeInv
<1>2. n \in {1, 3} /\ f.at = from
  BY <1>1, Depth
<1> HIDE DEF n
<1>13. n >= 1 /\ n \in 1 .. n
  BY <1>2
<1>3. /\ frames' \in [Threads -> Seq(Frame)] /\ Len(frames'[t]) = n
      /\ \A i \in 1 .. n - 1 : frames'[t][i] = frames[t][i]
      /\ frames'[t][n] = [f EXCEPT !.at = place] /\ frames'[t][n] \in Frame
      /\ \A u \in Threads \ {t} : frames'[u] = frames[u]
  BY <1>1, <1>13, GotoFrames DEF Places, n
<1>4. n \in DOMAIN frames[t] /\ f \in Frame
  BY <1>1, <1>13, FramesType DEF n
<1>5. /\ frames'[t][n].at = place /\ frames'[t][n].client = f.client
      /\ frames'[t][n].msg = f.msg /\ frames'[t][n].closure = f.closure
  BY <1>3, <1>4 DEF Frame
<1> HIDE DEF f
<1>6. TypeOK'
  BY <1>1, <1>3 DEF TypeOK
<1>7. \A k \in Clients : k \in RefsOf(frames'[t][n]) => k \in Reachable
  <2> SUFFICES ASSUME NEW k \in Clients, k \in RefsOf(frames'[t][n]) PROVE k \in Reachable
    OBVIOUS
  <2>1. (place = "code" \/ f.closure = "capturing") /\ k = f.client
    BY <1>3, <1>5, ClientRefs
  <2>2. k \in RefsOf(f)
    BY <1>2, <1>4, <2>1, ClientRefs
  <2> QED
    BY <1>4, <2>2, ReachableBy DEF f
<1>8. \A u \in Threads : \A i \in DOMAIN frames'[u] : \A k \in Clients :
        k \in RefsOf(frames'[u][i]) => k \in Reachable
  <2> SUFFICES ASSUME NEW u \in Threads, NEW i \in DOMAIN frames'[u], NEW k \in Clients,
                      k \in RefsOf(frames'[u][i])
               PROVE  k \in Reachable
    OBVIOUS
  <2>1. CASE u # t
    BY <1>3, <2>1, ReachableBy
  <2>2. CASE u = t /\ i = n
    BY <1>7, <2>2
  <2>3. CASE u = t /\ i # n
    <3>1. i \in 1 .. n - 1
      <4>1. frames'[t] \in Seq(Frame)
        BY <1>3
      <4>2. i \in 1 .. n
        BY <1>3, <2>3, <4>1, LenProperties
      <4> QED
        BY <1>2, <2>3, <4>2
    <3>2. i \in DOMAIN frames[t] /\ frames'[t][i] = frames[t][i]
      <4>1. i \in 1 .. n
        BY <1>2, <3>1
      <4> QED
        BY <1>1, <1>3, <3>1, <4>1, FramesType DEF n
    <3> QED
      BY <2>3, <3>2, ReachableBy
  <2> QED
    BY <2>1, <2>2, <2>3
<1>9. Protected'
  <2>1. \A k \in Clients : "capturing" \in closures'[k] => k \in Reachable
    BY DEF Reachable
  <2> QED
    BY <1>8, <2>1, NothingRevived DEF LifeInv
<1>10. Shape(t)'
  <2>0. place = "code" => f.client \in Clients
    <3>1. n \in 1 .. Len(frames[t]) /\ Shape(t)
      BY <1>1, <1>13 DEF n
    <3> QED
      BY <1>2, <3>1 DEF Shape, f
  <2>1. CASE n = 1
    <3>1. Len(frames'[t]) = 1 /\ frames'[t][1].at = place /\ frames'[t][1].client = f.client
      BY <1>3, <1>5, <2>1
    <3> QED
      BY <2>0, <3>1 DEF Shape
  <2>2. CASE n = 3
    <3>1. /\ Len(frames'[t]) = 3 /\ frames'[t][1] = frames[t][1] /\ frames'[t][2] = frames[t][2]
          /\ frames'[t][3].at = place /\ frames'[t][3].client = f.client
      <4>1. 1 \in 1 .. n - 1 /\ 2 \in 1 .. n - 1
        BY <2>2
      <4>2. frames'[t][1] = frames[t][1] /\ frames'[t][2] = frames[t][2]
        BY <1>3, <4>1
      <4>3. Len(frames'[t]) = 3 /\ frames'[t][3].at = place /\ frames'[t][3].client = f.client
        BY <1>3, <1>5, <2>2
      <4> QED
        BY <4>2, <4>3
    <3>2. Len(frames[t]) = 3 /\ Shape(t)
      BY <1>1, <2>2 DEF n
    <3> QED
      BY <2>0, <3>1, <3>2 DEF Shape
  <2> QED
    BY <1>2, <2>1, <2>2
<1>11. \A u \in Threads \ {t} : Shape(u)'
  BY <1>1, <1>3, ShapeKept
<1>12. OwnMessages'
  <2>1. Len(frames'[t]) >= 2 => frames'[t][2] = frames[t][2]
    BY <1>2, <1>3
  <2> QED
    BY <1>3, <2>1, OwnKept DEF LifeInv, n
<1> QED
  BY <1>6, <1>9, <1>10, <1>11, <1>12 DEF LifeInv, Dying

\* A call that is no handler returns.
LEMMA ReturnsInv ==
  ASSUME LifeInv, NEW t \in Threads, NEW from \in Places \ {"handler"}, Within(t, from), Pop(t),
         UNCHANGED <<mem, finalizer, held, closures, finalizing>>
  PROVE  LifeInv'
<1> DEFINE n == Len(frames[t])
<1>1. TypeOK /\ \A u \in Threads : Shape(u)
  BY DEF LifeInv
<1>2. n \in {1, 3}
  BY <1>1, Depth
<1> HIDE DEF n
<1>10. n >= 1
  BY <1>2
<1>3. /\ frames' \in [Threads -> Seq(Frame)] /\ Len(frames'[t]) = n - 1
      /\ \A i \in 1 .. n - 1 : frames'[t][i] = frames[t][i]
      /\ \A u \in Threads \ {t} : frames'[u] = frames[u]
  BY <1>1, <1>10, PopFrames DEF n
<1>4. TypeOK'
  BY <1>1, <1>3 DEF TypeOK
<1>5. \A u \in Threads : \A i \in DOMAIN frames'[u] : \A k \in Clients :
        k \in RefsOf(frames'[u][i]) => k \in Reachable
  BY <1>1, <1>10, PopRefs DEF n
<1>6. Protected'
  <2>1. \A k \in Clients : "capturing" \in closures'[k] => k \in Reachable
    BY DEF Reachable
  <2> QED
    BY <1>5, <2>1, NothingRevived DEF LifeInv
<1>7. Shape(t)'
  <2>1. CASE n = 1
    BY <1>3, <2>1 DEF Shape
  <2>2. CASE n = 3
    <3>1. Len(frames'[t]) = 2 /\ frames'[t][1] = frames[t][1] /\ frames'[t][2] = frames[t][2]
      BY <1>3, <2>2
    <3> QED
      BY <1>1, <2>2, <3>1 DEF Shape, n
  <2> QED
    BY <1>2, <2>1, <2>2
<1>8. \A u \in Threads \ {t} : Shape(u)'
  BY <1>1, <1>3, ShapeKept
<1>9. OwnMessages'
  <2>1. Len(frames'[t]) >= 2 => frames'[t][2] = frames[t][2] /\ n >= 2
    BY <1>2, <1>3
  <2> QED
    BY <1>3, <2>1, OwnKept DEF LifeInv, n
<1> QED
  BY <1>4, <1>6, <1>7, <1>8, <1>9 DEF LifeInv, Dying

\* The steps of calls that run.
LEMMA CallsInv ==
  ASSUME LifeInv, NEW t \in Threads,
         CallClient(t) \/ CallSend(t) \/ CallListen(t) \/ CallMessage(t) \/ Running(t) \/ ListenReturns(t)
  PROVE  LifeInv'
<1>1. CASE CallClient(t)
  BY <1>1, BeginInv DEF CallClient, Places
<1>2. CASE CallSend(t)
  BY <1>2, BeginInv DEF CallSend, Places
<1>3. CASE CallListen(t)
  BY <1>3, BeginInv DEF CallListen, Places
<1>4. CASE CallMessage(t)
  <2>1. PICK m \in Messages, place \in {"get", "build"} : Begin(t, place, Nothing, m)
    BY <1>4 DEF CallMessage
  <2>2. place \in Places \ {"handler"} /\ place \notin {"call", "send", "listen", "code"}
    BY DEF Places
  <2> QED
    BY <2>1, <2>2, BeginInv
<1>5. ASSUME ClientRuns(t) \/ SendRuns(t) \/ ListenReturns(t) PROVE LifeInv'
  <2>1. /\ UNCHANGED <<mem, finalizer, held, closures, finalizing>>
        /\ \E from \in {"call", "send", "listen"} : Within(t, from) /\ (Pop(t) \/ Goto(t, "code"))
    BY <1>5 DEF ClientRuns, SendRuns, ListenReturns
  <2>2. {"call", "send", "listen"} \subseteq Places \ {"handler"}
    BY DEF Places
  <2> QED
    BY <2>1, <2>2, GoesOnInv, ReturnsInv
<1>6. ASSUME ErrorReturns(t) \/ MessageRuns(t) PROVE LifeInv'
  <2>1. /\ UNCHANGED <<mem, finalizer, held, closures, finalizing>>
        /\ \E from \in {"code", "what", "build", "get"} :
             Within(t, from) /\ (Pop(t) \/ Goto(t, "what") \/ Goto(t, "get"))
    BY <1>6 DEF ErrorReturns, MessageRuns
  <2>2. {"code", "what", "build", "get"} \subseteq Places \ {"handler"}
    BY DEF Places
  <2> QED
    BY <2>1, <2>2, GoesOnInv, ReturnsInv
<1> QED
  BY <1>1, <1>2, <1>3, <1>4, <1>5, <1>6 DEF Running

----------------------------------------------------------------------------
(* listen *)

\* A delivery puts a message on the stack that nobody has yet.
LEMMA DeliversInv ==
  ASSUME LifeInv, NEW t \in Threads, ListenDelivers(t)
  PROVE  LifeInv'
<1> DEFINE c == Top(t).client
<1>1. PICK m \in Messages, how \in closures[c] :
        /\ mem[m] = "none" /\ mem' = [mem EXCEPT ![m] = "stack"]
        /\ finalizer' = finalizer
        /\ Push(t, [at |-> "handler", client |-> c, msg |-> m, closure |-> how])
  BY DEF ListenDelivers, FromC
<1> DEFINE f == [at |-> "handler", client |-> c, msg |-> m, closure |-> how]
           n == Len(frames[t])
<1>2. Within(t, "listen") /\ UNCHANGED <<held, closures, finalizing>>
  BY DEF ListenDelivers
<1>3. TypeOK /\ \A u \in Threads : Shape(u)
  BY DEF LifeInv
<1>4. n = 1 /\ Top(t) = frames[t][1] /\ frames[t][1].at = "listen"
  BY <1>2, <1>3, Depth
<1>5. frames[t][1] \in Frame /\ 1 \in DOMAIN frames[t] /\ c \in Clients
  BY <1>3, <1>4, FramesType DEF Shape
<1>6. f \in Frame /\ f.at = "handler" /\ f.client = c /\ f.msg = m /\ f.closure = how
  BY <1>3, <1>5 DEF TypeOK, Frame, Places
<1>7. \A k \in Clients : k \in RefsOf(f) => k \in Reachable
  <2> SUFFICES ASSUME NEW k \in Clients, k \in RefsOf(f) PROVE k \in Reachable
    OBVIOUS
  <2>1. k = frames[t][1].client
    BY <1>4, <1>6, ClientRefs
  <2>2. k \in RefsOf(frames[t][1])
    BY <1>4, <1>5, <2>1, ClientRefs
  <2> QED
    BY <1>5, <2>2, ReachableBy
<1> HIDE DEF f, c
<1>8. /\ frames' \in [Threads -> Seq(Frame)] /\ Len(frames'[t]) = 2
      /\ frames'[t][1] = frames[t][1] /\ frames'[t][2] = f
      /\ \A u \in Threads \ {t} : frames'[u] = frames[u]
  <2>1. Push(t, f)
    BY <1>1 DEF f
  <2>2. /\ frames' \in [Threads -> Seq(Frame)] /\ Len(frames'[t]) = n + 1
        /\ \A i \in 1 .. n : frames'[t][i] = frames[t][i]
        /\ frames'[t][n + 1] = f
        /\ \A u \in Threads \ {t} : frames'[u] = frames[u]
    BY <1>3, <1>6, <2>1, PushFrames
  <2> HIDE DEF n
  <2> QED
    BY <1>4, <2>2
<1>9. /\ m \in Objects /\ mem'[m] = "stack"
      /\ \A o \in Objects \ {m} : mem'[o] = mem[o]
      /\ mem' \in [Objects -> {"none", "heap", "stack", "gone", "corrupt"}]
  BY <1>1, <1>3 DEF TypeOK, Objects
<1>10. TypeOK'
  BY <1>1, <1>2, <1>3, <1>8, <1>9 DEF TypeOK
<1>11. Protected'
  <2>1. \A u \in Threads : \A i \in DOMAIN frames'[u] : \A k \in Clients :
          k \in RefsOf(frames'[u][i]) => k \in Reachable
    BY <1>1, <1>3, <1>6, <1>7, PushRefs DEF f
  <2>2. \A k \in Clients : "capturing" \in closures'[k] => k \in Reachable
    BY <1>2 DEF Reachable
  <2> QED
    BY <1>1, <1>2, <2>1, <2>2, NothingRevived DEF LifeInv
<1>12. Dying'
  <2>1. finalizing # Nothing => finalizing \in Objects \ {m}
    BY <1>1, <1>3 DEF LifeInv, Dying, TypeOK, Objects
  <2> QED
    BY <1>1, <1>2, <1>9, <2>1 DEF LifeInv, Dying
<1>13. ASSUME NEW u \in Threads \ {t}, Len(frames[u]) >= 2
       PROVE  frames[u][2].msg # m /\ frames[u][2].msg \in Objects
  BY <1>1, <1>3, <1>13 DEF Shape, Objects
<1>14. Shape(t)'
  BY <1>3, <1>4, <1>5, <1>6, <1>8, <1>9 DEF Shape, c
<1>15. \A u \in Threads \ {t} : Shape(u)'
  BY <1>3, <1>8, <1>9, <1>13, ShapeKept
<1>16. OwnMessages'
  <2>1. \A u, v \in Threads \ {t} :
          Len(frames'[u]) >= 2 /\ Len(frames'[v]) >= 2 /\ frames'[u][2].msg = frames'[v][2].msg => u = v
    BY <1>8 DEF LifeInv, OwnMessages
  <2>2. \A u \in Threads \ {t} : Len(frames'[u]) >= 2 => frames'[u][2].msg # frames'[t][2].msg
    BY <1>6, <1>8, <1>13
  <2> QED
    BY <2>1, <2>2 DEF OwnMessages
<1>17. \A k \in Clients : closures'[k] # {} => mem'[k] = "heap"
  BY <1>1, <1>2, <1>9 DEF LifeInv, Objects
<1>18. \A o \in Objects : mem'[o] # "corrupt"
  BY <1>9 DEF LifeInv
<1> QED
  BY <1>10, <1>11, <1>12, <1>14, <1>15, <1>16, <1>17, <1>18 DEF LifeInv

\* The message of a handler that returns is on the stack, and no other handler's.
LEMMA HandlerReturnsInv ==
  ASSUME LifeInv, NEW t \in Threads, HandlerReturns(t)
  PROVE  LifeInv'
<1> DEFINE m == Top(t).msg
<1>1. /\ Within(t, "handler") /\ mem' = [mem EXCEPT ![m] = Unwound(m)]
      /\ Pop(t) /\ UNCHANGED <<finalizer, held, closures, finalizing>>
  BY DEF HandlerReturns
<1>2. TypeOK /\ \A u \in Threads : Shape(u)
  BY DEF LifeInv
<1>3. Len(frames[t]) = 2 /\ m = frames[t][2].msg
  BY <1>1, <1>2, Depth
<1>4. m \in Messages /\ mem[m] = "stack"
  BY <1>2, <1>3 DEF Shape
<1>5. /\ frames' \in [Threads -> Seq(Frame)] /\ Len(frames'[t]) = 1 /\ frames'[t][1] = frames[t][1]
      /\ \A u \in Threads \ {t} : frames'[u] = frames[u]
  <2> DEFINE n == Len(frames[t])
  <2>1. n = 2
    BY <1>3
  <2> HIDE DEF n
  <2>2. n >= 1
    BY <2>1
  <2>3. /\ frames' \in [Threads -> Seq(Frame)] /\ Len(frames'[t]) = n - 1
        /\ \A i \in 1 .. n - 1 : frames'[t][i] = frames[t][i]
        /\ \A u \in Threads \ {t} : frames'[u] = frames[u]
    BY <1>1, <1>2, <2>2, PopFrames DEF n
  <2> QED
    BY <2>1, <2>3
<1> HIDE DEF m
<1>6. /\ m \in Objects /\ mem'[m] = "gone"
      /\ \A o \in Objects \ {m} : mem'[o] = mem[o]
      /\ mem' \in [Objects -> {"none", "heap", "stack", "gone", "corrupt"}]
  BY <1>1, <1>2, <1>4 DEF TypeOK, Objects, Unwound
<1>7. TypeOK'
  BY <1>1, <1>2, <1>4, <1>5, <1>6 DEF TypeOK
<1>8. Protected'
  <2>1. \A u \in Threads : \A i \in DOMAIN frames'[u] : \A k \in Clients :
          k \in RefsOf(frames'[u][i]) => k \in Reachable
    BY <1>1, <1>2, <1>3, PopRefs
  <2>2. \A k \in Clients : "capturing" \in closures'[k] => k \in Reachable
    BY <1>1 DEF Reachable
  <2> QED
    BY <1>1, <2>1, <2>2, NothingRevived DEF LifeInv
<1>9. Dying'
  <2>1. finalizing # Nothing => finalizing \in Objects \ {m}
    BY <1>2, <1>4 DEF LifeInv, Dying, TypeOK, Objects
  <2> QED
    BY <1>1, <1>6, <2>1 DEF LifeInv, Dying
<1>10. ASSUME NEW u \in Threads \ {t}, Len(frames[u]) >= 2
       PROVE  frames[u][2].msg # m /\ frames[u][2].msg \in Objects
  BY <1>2, <1>3, <1>10 DEF LifeInv, OwnMessages, Shape, Objects
<1>11. Shape(t)'
  BY <1>2, <1>3, <1>5 DEF Shape
<1>12. \A u \in Threads \ {t} : Shape(u)'
  BY <1>2, <1>5, <1>6, <1>10, ShapeKept
<1>13. OwnMessages'
  BY <1>5, OwnKept DEF LifeInv
<1>14. \A k \in Clients : closures'[k] # {} => mem'[k] = "heap"
  BY <1>1, <1>4, <1>6 DEF LifeInv, Objects
<1>15. \A o \in Objects : mem'[o] # "corrupt"
  BY <1>6 DEF LifeInv
<1> QED
  BY <1>7, <1>8, <1>9, <1>11, <1>12, <1>13, <1>14, <1>15 DEF LifeInv

----------------------------------------------------------------------------
(* The application and the collector *)

\* A step that is in no call and leaves the stack alone.
LEMMA NoCallInv ==
  ASSUME LifeInv, UNCHANGED frames, \A o \in Objects : mem[o] = "stack" => mem'[o] = "stack"
  PROVE  OwnMessages' /\ \A u \in Threads : Shape(u)'
<1>1. OwnMessages'
  BY DEF LifeInv, OwnMessages
<1>2. \A u \in Threads : Shape(u)'
  BY DEF LifeInv, Shape, Objects
<1> QED
  BY <1>1, <1>2

\* New makes an object that nobody has, and sees to its end.
LEMMA NewInv ==
  ASSUME LifeInv, NEW t \in Threads, NEW o \in Objects, New(t, o)
  PROVE  LifeInv'
<1>1. /\ mem[o] = "none" /\ mem' = [mem EXCEPT ![o] = "heap"]
      /\ finalizer' = finalizer \cup {o} /\ held' = held \cup {o}
      /\ UNCHANGED <<closures, frames, finalizing>>
  BY DEF New, Wrap
<1>2. TypeOK
  BY DEF LifeInv
<1>3. /\ mem'[o] = "heap" /\ \A p \in Objects \ {o} : mem'[p] = mem[p]
      /\ mem' \in [Objects -> {"none", "heap", "stack", "gone", "corrupt"}]
  BY <1>1, <1>2 DEF TypeOK
<1>4. TypeOK'
  BY <1>1, <1>2, <1>3 DEF TypeOK
<1>5. Protected'
  <2>1. AllFrames' = AllFrames
    BY <1>1 DEF AllFrames
  <2>2. Reachable' \subseteq Reachable \cup {o}
    BY <1>1, <2>1 DEF Reachable
  <2> QED
    BY <1>1, <2>2 DEF LifeInv, Protected
<1>6. Dying'
  <2>1. finalizing # Nothing => finalizing \in Objects \ {o}
    BY <1>1, <1>2 DEF LifeInv, Dying, TypeOK, Objects
  <2> QED
    BY <1>1, <1>3, <2>1 DEF LifeInv, Dying
<1>7. OwnMessages' /\ \A u \in Threads : Shape(u)'
  BY <1>1, <1>3, NoCallInv
<1>8. \A k \in Clients : closures'[k] # {} => mem'[k] = "heap"
  BY <1>1, <1>3 DEF LifeInv, Objects
<1>9. \A p \in Objects : mem'[p] # "corrupt"
  BY <1>3 DEF LifeInv
<1> QED
  BY <1>4, <1>5, <1>6, <1>7, <1>8, <1>9 DEF LifeInv

\* The application can abandon whatever it likes.
LEMMA ForgetInv ==
  ASSUME LifeInv, NEW o \in Objects, Forget(o)
  PROVE  LifeInv'
<1>1. held' \subseteq held /\ UNCHANGED <<mem, finalizer, closures, frames, finalizing>>
  BY DEF Forget
<1>2. TypeOK'
  BY <1>1 DEF LifeInv, TypeOK
<1>3. Protected'
  <2>1. AllFrames' = AllFrames
    BY <1>1 DEF AllFrames
  <2>2. Reachable' \subseteq Reachable
    BY <1>1, <2>1 DEF Reachable
  <2> QED
    BY <1>1, <2>2 DEF LifeInv, Protected
<1>4. OwnMessages' /\ \A u \in Threads : Shape(u)'
  BY <1>1, NoCallInv
<1> QED
  BY <1>1, <1>2, <1>3, <1>4 DEF LifeInv, Dying

\* Variables and registrations come and go.
LEMMA ApplicationInv ==
  ASSUME LifeInv, NEW t \in Threads,
         Share(t) \/ On(t) \/ Off(t)
  PROVE  LifeInv'
<1>1. UNCHANGED <<mem, finalizer, frames, finalizing>>
  BY DEF Share, On, Off
<1>2. TypeOK
  BY DEF LifeInv
<1>3. OwnMessages' /\ \A u \in Threads : Shape(u)'
  BY <1>1, NoCallInv
<1>4. AllFrames' = AllFrames
  BY <1>1 DEF AllFrames
<1>5. \A p \in Objects : mem'[p] # "corrupt"
  BY <1>1 DEF LifeInv
<1>6. CASE Share(t)
  <2>1. Within(t, "handler") /\ held' = held \cup {Top(t).msg} /\ UNCHANGED closures
    BY <1>6 DEF Share
  <2>2. Top(t).msg \in Messages
    BY <1>2, <2>1, Depth DEF LifeInv, Shape
  <2>3. TypeOK'
    BY <1>1, <1>2, <2>1, <2>2 DEF TypeOK, Objects
  <2>4. Clients \cap Reachable' \subseteq Reachable
    BY <1>4, <2>1, <2>2, LifetimeAssumption DEF Reachable, LifetimeAssumption
  <2> QED
    BY <1>1, <1>3, <1>5, <2>1, <2>3, <2>4 DEF LifeInv, Protected, Dying
<1>7. CASE On(t)
  <2>1. /\ InApplication(t) /\ UNCHANGED held
        /\ \E c \in Clients \cap Knows(t), how \in {"plain", "capturing"} :
             closures' = [closures EXCEPT ![c] = @ \cup {how}]
    BY <1>7 DEF On
  <2>2. PICK c \in Clients \cap Knows(t), how \in {"plain", "capturing"} :
          closures' = [closures EXCEPT ![c] = @ \cup {how}]
    BY <2>1
  <2>3. c \in Reachable /\ c \in finalizer /\ mem[c] = "heap" /\ c # finalizing
    BY <2>1, KnownIsProtected
  <2>4. /\ closures' \in [Clients -> SUBSET {"plain", "capturing"}]
        /\ \A k \in Clients \ {c} : closures'[k] = closures[k]
    BY <1>2, <2>2 DEF TypeOK
  <2>5. TypeOK'
    BY <1>1, <1>2, <2>1, <2>4 DEF TypeOK
  <2>6. Reachable' \subseteq Reachable
    BY <1>4, <2>1, <2>3, <2>4 DEF Reachable
  <2>7. Protected'
    BY <1>1, <2>6 DEF LifeInv, Protected
  <2>8. Dying'
    BY <1>1, <1>2, <2>3, <2>4 DEF LifeInv, Dying, TypeOK
  <2>9. \A k \in Clients : closures'[k] # {} => mem'[k] = "heap"
    BY <1>1, <2>3, <2>4 DEF LifeInv
  <2> QED
    BY <1>3, <1>5, <2>5, <2>7, <2>8, <2>9 DEF LifeInv
<1>8. CASE Off(t)
  <2>1. /\ UNCHANGED held
        /\ \E c \in Clients : \E how : closures' = [closures EXCEPT ![c] = @ \ {how}]
    BY <1>8 DEF Off
  <2>2. /\ closures' \in [Clients -> SUBSET {"plain", "capturing"}]
        /\ \A k \in Clients : closures'[k] \subseteq closures[k]
    BY <1>2, <2>1 DEF TypeOK
  <2>3. TypeOK'
    BY <1>1, <1>2, <2>1, <2>2 DEF TypeOK
  <2>4. Reachable' \subseteq Reachable
    BY <1>4, <2>1, <2>2 DEF Reachable
  <2>5. Protected'
    BY <1>1, <2>4 DEF LifeInv, Protected
  <2>6. Dying'
    BY <1>1, <1>2, <2>2 DEF LifeInv, Dying, TypeOK
  <2>7. \A k \in Clients : closures'[k] # {} => mem'[k] = "heap"
    BY <1>1, <2>2 DEF LifeInv
  <2> QED
    BY <1>3, <1>5, <2>3, <2>5, <2>6, <2>7 DEF LifeInv
<1> QED
  BY <1>6, <1>7, <1>8

\* The collector takes what cannot be reached.
LEMMA CollectorInv ==
  ASSUME LifeInv, Collector
  PROVE  LifeInv'
<1>1. TypeOK
  BY DEF LifeInv
<1>2. UNCHANGED <<held, frames>>
  BY DEF Collector, FinalizeMessage, FinalizeClient, DestroyClient
<1>3. AllFrames' = AllFrames
  BY <1>2 DEF AllFrames
<1>4. ASSUME NEW m \in Messages, FinalizeMessage(m) PROVE LifeInv'
  <2>1. /\ m \in finalizer /\ finalizing = Nothing /\ finalizer' = finalizer \ {m}
        /\ mem' = [mem EXCEPT ![m] = Deleted(m)] /\ UNCHANGED <<closures, finalizing>>
    BY <1>4 DEF FinalizeMessage, Collectable
  <2>2. m \in Objects \ Clients /\ mem[m] = "heap"
    BY <1>1, <2>1, LifetimeAssumption DEF TypeOK, Objects, LifetimeAssumption
  <2>3. /\ mem'[m] = "gone" /\ \A p \in Objects \ {m} : mem'[p] = mem[p]
        /\ mem' \in [Objects -> {"none", "heap", "stack", "gone", "corrupt"}]
    BY <1>1, <2>1, <2>2 DEF TypeOK, Deleted
  <2>4. TypeOK'
    BY <1>1, <1>2, <2>1, <2>3 DEF TypeOK
  <2>5. Reachable' = Reachable
    BY <1>2, <1>3, <2>1 DEF Reachable
  <2>6. Protected'
    BY <2>1, <2>2, <2>5 DEF LifeInv, Protected
  <2>7. Dying'
    BY <2>1 DEF Dying
  <2>8. OwnMessages' /\ \A u \in Threads : Shape(u)'
    BY <1>2, <2>2, <2>3, NoCallInv
  <2>9. \A k \in Clients : closures'[k] # {} => mem'[k] = "heap"
    BY <2>1, <2>2, <2>3 DEF LifeInv, Objects
  <2>10. \A p \in Objects : mem'[p] # "corrupt"
    BY <2>3 DEF LifeInv
  <2> QED
    BY <2>4, <2>6, <2>7, <2>8, <2>9, <2>10 DEF LifeInv
<1>5. ASSUME NEW c \in Clients, FinalizeClient(c) PROVE LifeInv'
  <2>1. /\ c \in finalizer \ Reachable /\ finalizer' = finalizer \ {c} /\ finalizing' = c
        /\ closures' = [closures EXCEPT ![c] = {}] /\ UNCHANGED mem
    BY <1>5 DEF FinalizeClient, Collectable
  <2>2. /\ closures' \in [Clients -> SUBSET {"plain", "capturing"}] /\ closures'[c] = {}
        /\ \A k \in Clients : closures'[k] \subseteq closures[k]
    BY <1>1, <2>1 DEF TypeOK
  <2>3. TypeOK'
    BY <1>1, <1>2, <2>1, <2>2 DEF TypeOK
  <2>4. Reachable' \subseteq Reachable
    BY <1>2, <1>3, <2>2 DEF Reachable
  <2>5. Protected'
    BY <2>1, <2>4 DEF LifeInv, Protected
  <2>6. mem'[c] = "heap" /\ c \notin finalizer'
    BY <1>1, <2>1 DEF TypeOK
  <2>7. Dying'
    BY <2>1, <2>2, <2>6 DEF Dying
  <2>8. OwnMessages' /\ \A u \in Threads : Shape(u)'
    BY <1>2, <2>1, NoCallInv
  <2> QED
    BY <2>1, <2>2, <2>3, <2>5, <2>7, <2>8 DEF LifeInv
<1>6. ASSUME DestroyClient PROVE LifeInv'
  <2>1. /\ finalizing # Nothing /\ mem' = [mem EXCEPT ![finalizing] = Deleted(finalizing)]
        /\ finalizing' = Nothing /\ UNCHANGED <<finalizer, closures>>
    BY <1>6 DEF DestroyClient
  <2>2. /\ finalizing \in Clients /\ finalizing \in Objects /\ mem[finalizing] = "heap"
        /\ finalizing \notin finalizer /\ closures[finalizing] = {}
    BY <1>1, <2>1 DEF LifeInv, Dying, TypeOK, Objects
  <2>3. /\ mem'[finalizing] = "gone" /\ \A p \in Objects \ {finalizing} : mem'[p] = mem[p]
        /\ mem' \in [Objects -> {"none", "heap", "stack", "gone", "corrupt"}]
    BY <1>1, <2>1, <2>2 DEF TypeOK, Deleted
  <2>4. TypeOK'
    BY <1>1, <1>2, <2>1, <2>2, <2>3 DEF TypeOK
  <2>5. Protected'
    <3>1. Reachable' = Reachable
      BY <1>2, <1>3, <2>1 DEF Reachable
    <3> QED
      BY <2>1, <3>1 DEF LifeInv, Protected
  <2>6. Dying'
    BY <2>1 DEF Dying
  <2>7. OwnMessages' /\ \A u \in Threads : Shape(u)'
    BY <1>2, <2>2, <2>3, NoCallInv
  <2>8. \A k \in Clients : closures'[k] # {} => mem'[k] = "heap"
    BY <2>1, <2>2, <2>3 DEF LifeInv, Objects
  <2>9. \A p \in Objects : mem'[p] # "corrupt"
    BY <2>3 DEF LifeInv
  <2> QED
    BY <2>4, <2>5, <2>6, <2>7, <2>8, <2>9 DEF LifeInv
<1> QED
  BY <1>4, <1>5, <1>6 DEF Collector

----------------------------------------------------------------------------
(* Theorems *)

\* At first there is nothing.
LEMMA LifeInit == Init => LifeInv
<1> SUFFICES ASSUME Init PROVE LifeInv
  OBVIOUS
<1>1. \A t \in Threads : frames[t] = <<>> /\ Len(frames[t]) = 0 /\ DOMAIN frames[t] = {}
  BY DEF Init
<1>2. TypeOK
  BY DEF Init, TypeOK
<1>3. AllFrames = {}
  BY <1>1 DEF AllFrames, ToSet
<1>4. Protected
  BY <1>3 DEF Init, Protected, Reachable
<1> QED
  BY <1>1, <1>2, <1>4 DEF Init, LifeInv, Dying, OwnMessages, Shape

\* Every step keeps the invariant.
LEMMA LifeStep == LifeInv /\ [Next]_vars => LifeInv'
<1> SUFFICES ASSUME LifeInv, [Next]_vars PROVE LifeInv'
  OBVIOUS
<1>1. CASE UNCHANGED vars
  BY <1>1 DEF vars, LifeInv, TypeOK, Protected, Reachable, AllFrames, Dying, OwnMessages, Shape
<1> QED
  BY <1>1, NewInv, ForgetInv, ApplicationInv, CallsInv, DeliversInv, HandlerReturnsInv, CollectorInv
  DEF Next

\* Calls nest as the code lets them, finalizers are about live objects, and what
\* can be reached has its finalizer still to run.
THEOREM LifeInvCorrect == Spec => []LifeInv
BY LifeInit, LifeStep, PTL DEF Spec

\* The types, and that a finalizer waits only for an object that is still there.
THEOREM TypeCorrect == Spec => []TypeOK
<1>1. LifeInv => TypeOK
  BY DEF LifeInv
<1> QED
  BY <1>1, LifeInvCorrect, PTL

\* A client is there for as long as C works for it: no method that will ask for
\* the error lets the collector have it, and a handler runs within such a method.
THEOREM ClientsOutliveCalls == Spec => []ClientOutlivesItsCalls
<1>1. LifeInv => ClientOutlivesItsCalls
  <2> SUFFICES ASSUME LifeInv, NEW f \in AllFrames,
                      f.at \in {"call", "send", "listen", "handler", "code"}
               PROVE  mem[f.client] = "heap"
    BY DEF ClientOutlivesItsCalls
  <2>0. PICK t \in Threads : \E i \in DOMAIN frames[t] : f = frames[t][i]
    BY FrameOfAll
  <2>1. PICK i \in DOMAIN frames[t] : f = frames[t][i]
    BY <2>0
  <2>2. /\ DOMAIN frames[t] = 1 .. Len(frames[t]) /\ Len(frames[t]) \in Nat
        /\ \A j \in DOMAIN frames[t] : frames[t][j] \in Frame
    BY FramesType DEF LifeInv
  <2>3. ASSUME NEW j \in DOMAIN frames[t], frames[t][j].at \in {"call", "send", "listen", "code"}
        PROVE  mem[frames[t][j].client] = "heap"
    <3>1. frames[t][j].client \in Clients
      BY <2>2, <2>3 DEF LifeInv, Shape
    <3>2. frames[t][j].client \in Reachable
      BY <2>2, <2>3, <3>1, ClientRefs, ReachableBy
    <3> QED
      BY <3>1, <3>2 DEF LifeInv, Protected, TypeOK
  <2>4. CASE f.at = "handler"
    <3> DEFINE n == Len(frames[t])
    <3>1. i \in 1 .. n /\ n \in Nat
      BY <2>2
    <3>2. /\ n <= 3 /\ (n >= 1 => frames[t][1].at # "handler")
          /\ (n = 3 => frames[t][3].at \notin {"listen", "handler"})
          /\ n >= 2 => frames[t][1].at = "listen" /\ frames[t][2].client = frames[t][1].client
      BY DEF LifeInv, Shape
    <3> HIDE DEF n
    <3>3. i = 2 /\ n >= 2
      BY <2>1, <2>4, <3>1, <3>2
    <3>4. 1 \in 1 .. n
      BY <3>1, <3>3
    <3> QED
      BY <2>1, <2>2, <2>3, <3>2, <3>3, <3>4 DEF n
  <2> QED
    BY <2>1, <2>3, <2>4
<1> QED
  BY <1>1, LifeInvCorrect, PTL

\* What a handler was given stays on listen()'s stack for as long as it runs, and
\* with it every call on that message, whoever makes it.
THEOREM ReceivedOutlive == Spec => []ReceivedOutlivesHandler
<1>1. LifeInv => ReceivedOutlivesHandler
  <2> SUFFICES ASSUME LifeInv, NEW f \in AllFrames, f.at = "handler"
               PROVE  mem[f.msg] = "stack"
    BY DEF ReceivedOutlivesHandler
  <2>0. PICK t \in Threads : \E i \in DOMAIN frames[t] : f = frames[t][i]
    BY FrameOfAll
  <2>1. PICK i \in DOMAIN frames[t] : f = frames[t][i]
    BY <2>0
  <2> DEFINE n == Len(frames[t])
  <2>2. i \in 1 .. n /\ n \in Nat
    BY FramesType DEF LifeInv
  <2>3. /\ n <= 3 /\ (n >= 1 => frames[t][1].at # "handler")
        /\ (n = 3 => frames[t][3].at \notin {"listen", "handler"})
        /\ n >= 2 => mem[frames[t][2].msg] = "stack"
    BY DEF LifeInv, Shape
  <2> HIDE DEF n
  <2>4. i = 2 /\ n >= 2
    BY <2>1, <2>2, <2>3
  <2> QED
    BY <2>1, <2>3, <2>4
<1> QED
  BY <1>1, LifeInvCorrect, PTL

\* Nothing is deleted twice, nor by the wrong owner.
THEOREM FreedByOwner == Spec => []FreedOnceByItsOwner
<1>1. LifeInv => FreedOnceByItsOwner
  BY DEF LifeInv, FreedOnceByItsOwner
<1> QED
  BY <1>1, LifeInvCorrect, PTL

\* The maps hold handlers of clients that are there.
THEOREM NoDeadHandlers == Spec => []NoHandlersOfTheDead
<1>1. LifeInv => NoHandlersOfTheDead
  BY DEF LifeInv, NoHandlersOfTheDead
<1> QED
  BY <1>1, LifeInvCorrect, PTL
=============================================================================
