------------------------ MODULE HandlerVectorsProofs ------------------------
(***************************************************************************)
(* Proofs about HandlerVectors, for any kinds of messages and any number   *)
(* of handlers.                                                            *)
(***************************************************************************)
EXTENDS HandlerVectors, SequenceLemmas

----------------------------------------------------------------------------
(* The inductive invariant *)

\* The vector of a kind holds the handlers of that type, each once.
Exact(k) ==
  /\ \A i, j \in 1 .. size[k] : slots[k][i] = slots[k][j] => i = j
  /\ \A i \in 1 .. size[k] : slots[k][i] \in Handlers /\ type[slots[k][i]] = k
  /\ \A h \in Handlers : type[h] = k => \E i \in 1 .. size[k] : slots[k][i] = h

Registry == IF alive THEN \A k \in Kinds : Exact(k) ELSE \A h \in Handlers : type[h] = "freed"

\* Every position the loop will come to holds a pointer, if only one that was
\* left there.
Reach ==
  IF loop.kind = "none" THEN loop = NoLoop
  ELSE /\ alive /\ loop.kind \in Kinds /\ loop.at >= 1
       /\ loop.end <= Len(slots[loop.kind])
       /\ \A j \in 1 .. loop.end : slots[loop.kind][j] \in Handlers

\* The loop has yet to call a handler.
ToCome == loop.kind # "none" /\ Len(called) < loop.end

\* How far the loop is.
Counts ==
  IF loop.kind = "none" THEN started = <<>> /\ called = <<>>
  ELSE /\ Len(started) = loop.end /\ loop.at <= loop.end + 1
       /\ loop.running # NoHandler => loop.at <= loop.end
       /\ Len(called) = IF loop.running = NoHandler THEN loop.at - 1 ELSE loop.at

\* Nothing that was there has moved.
InPlace ==
  passed = 0 /\ ~ahead =>
    /\ \A i \in 1 .. Len(called) : called[i] = started[i]
    /\ ToCome => loop.end <= size[loop.kind] /\ \A i \in 1 .. loop.end : slots[loop.kind][i] = started[i]

\* A removal leaves one position behind the end of the vector, and in it the last
\* handler.
OneBehind ==
  ToCome /\ passed <= 1 /\ ~ahead =>
    \/ loop.end <= size[loop.kind]
    \/ /\ passed = 1 /\ loop.end = size[loop.kind] + 1 /\ size[loop.kind] >= 1
       /\ slots[loop.kind][loop.end] = slots[loop.kind][size[loop.kind]]

\* Who stayed was called, or is at a position the loop will come to.
InReach(h) ==
  \/ \E i \in 1 .. Len(called) : called[i] = h
  \/ \E j \in Len(called) + 1 .. loop.end : j <= size[loop.kind] /\ slots[loop.kind][j] = h

NobodyPassed == loop.kind # "none" /\ passed = 0 => \A h \in stayed : InReach(h)

Course == Counts /\ InPlace /\ OneBehind /\ NobodyPassed

VectorInv == TypeOK /\ Registry /\ Reach

----------------------------------------------------------------------------
(* The operators of the vectors *)

\* What a vector holds is what its buffer holds up to its size.
LEMMA Contents ==
  ASSUME TypeOK, NEW k \in Kinds
  PROVE  /\ Registered(k) \in Seq(Handlers \cup {NoHandler}) /\ Len(Registered(k)) = size[k]
         /\ \A i \in 1 .. size[k] : Registered(k)[i] = slots[k][i]
<1> DEFINE s == slots[k]
           n == size[k]
<1>1. s \in Seq(Handlers \cup {NoHandler}) /\ n \in Nat /\ n <= Len(s)
  BY DEF TypeOK
<1>2. \A i \in 1 .. n : s[i] \in Handlers \cup {NoHandler}
  BY <1>1, ElementOfSeq
<1> HIDE DEF s, n
<1>3. /\ SubSeq(s, 1, n) \in Seq(Handlers \cup {NoHandler})
      /\ Len(SubSeq(s, 1, n)) = n
      /\ \A i \in 1 .. n : SubSeq(s, 1, n)[i] = s[i]
  BY <1>1, <1>2, SubSeqProperties
<1> QED
  BY <1>3 DEF Registered, s, n

\* push_back keeps what the buffer holds and puts the handler behind the others,
\* also when it has to move to a larger buffer.
LEMMA PushBackKeeps ==
  ASSUME TypeOK, NEW k \in Kinds, NEW h \in Handlers
  PROVE  /\ PushBack(k, h) \in Seq(Handlers \cup {NoHandler})
         /\ size[k] + 1 <= Len(PushBack(k, h)) /\ Len(slots[k]) <= Len(PushBack(k, h))
         /\ PushBack(k, h)[size[k] + 1] = h
         /\ \A i \in 1 .. Len(slots[k]) : i # size[k] + 1 => PushBack(k, h)[i] = slots[k][i]
<1> DEFINE s == slots[k]
           n == size[k]
           m == IF n = 0 THEN 1 ELSE n
           f == [i \in 1 .. m |-> NoHandler]
           b == IF Full(k) THEN s \o f ELSE s
           T == Handlers \cup {NoHandler}
<1>1. s \in Seq(T) /\ n \in Nat /\ n <= Len(s) /\ Len(s) \in Nat /\ m \in Nat /\ m >= 1
  BY DEF TypeOK
<1>2. f \in Seq(T) /\ Len(f) = m
  <2>1. f \in [1 .. m -> T]
    OBVIOUS
  <2> QED
    BY <1>1, <2>1, FunctionIsSeq
<1>3. PushBack(k, h) = [b EXCEPT ![n + 1] = h]
  BY DEF PushBack, Grown
<1>4. Full(k) <=> n = Len(s)
  BY DEF Full
<1> HIDE DEF s, n, m, f, T
<1>5. b \in Seq(T) /\ n + 1 <= Len(b) /\ Len(s) <= Len(b) /\ \A i \in 1 .. Len(s) : b[i] = s[i]
  <2>1. CASE Full(k)
    <3>1. s \o f \in Seq(T) /\ Len(s \o f) = Len(s) + m /\ \A i \in 1 .. Len(s) : (s \o f)[i] = s[i]
      <4>1. /\ s \o f \in Seq(T) /\ Len(s \o f) = Len(s) + Len(f)
            /\ \A i \in 1 .. Len(s) + Len(f) :
                 (s \o f)[i] = IF i <= Len(s) THEN s[i] ELSE f[i - Len(s)]
        BY <1>1, <1>2, ConcatProperties
      <4>2. \A i \in 1 .. Len(s) : i \in 1 .. Len(s) + m /\ i <= Len(s)
        BY <1>1
      <4> QED
        BY <1>2, <4>1, <4>2
    <3> QED
      BY <1>1, <1>4, <2>1, <3>1
  <2>2. CASE ~Full(k)
    BY <1>1, <1>4, <2>2
  <2> QED
    BY <2>1, <2>2
<1> HIDE DEF b
<1>6. /\ [b EXCEPT ![n + 1] = h] \in Seq(T) /\ Len([b EXCEPT ![n + 1] = h]) = Len(b)
      /\ \A i \in 1 .. Len(b) : [b EXCEPT ![n + 1] = h][i] = IF i = n + 1 THEN h ELSE b[i]
  <2>1. h \in T /\ n + 1 \in 1 .. Len(b)
    BY <1>1, <1>5 DEF T
  <2> QED
    BY <1>5, <2>1, ExceptSeq
<1> QED
  BY <1>1, <1>3, <1>5, <1>6 DEF s, n, T

\* erase closes the gap and leaves the buffer as long as it was.
LEMMA ErasedMoves ==
  ASSUME TypeOK, NEW k \in Kinds, NEW i \in 1 .. size[k]
  PROVE  /\ Erased(k, i) \in Seq(Handlers \cup {NoHandler})
         /\ Len(Erased(k, i)) = Len(slots[k])
         /\ \A j \in 1 .. Len(slots[k]) :
              Erased(k, i)[j] = IF j \in i .. size[k] - 1 THEN slots[k][j + 1] ELSE slots[k][j]
<1> DEFINE s == slots[k]
           T == Handlers \cup {NoHandler}
<1>1. s \in Seq(T) /\ Len(s) \in Nat /\ size[k] \in Nat /\ size[k] <= Len(s) /\ DOMAIN s = 1 .. Len(s)
  BY DEF TypeOK
<1>2. \A j \in 1 .. Len(s) : s[j] \in T
  BY <1>1, ElementOfSeq
<1>3. Erased(k, i) = [j \in 1 .. Len(s) |-> IF j \in i .. size[k] - 1 THEN s[j + 1] ELSE s[j]]
  BY <1>1 DEF Erased
<1> HIDE DEF s, T
<1>4. Erased(k, i) \in [1 .. Len(s) -> T]
  BY <1>1, <1>2, <1>3
<1> QED
  BY <1>1, <1>3, <1>4, FunctionIsSeq DEF s, T

\* A handler that exists is found in the vector of its type and erased from it.
LEMMA UnregisterFinds ==
  ASSUME VectorInv, NEW h \in Handlers, Unregister(h)
  PROVE  /\ alive /\ type[h] \in Kinds
         /\ UNCHANGED <<alive, loop, started, called>>
         /\ type' = [type EXCEPT ![h] = "freed"]
         /\ size' = [size EXCEPT ![type[h]] = @ - 1]
         /\ \E i \in 1 .. size[type[h]] :
              /\ slots[type[h]][i] = h /\ slots' = [slots EXCEPT ![type[h]] = Erased(type[h], i)]
              /\ Noted(type[h], i, h)
<1> DEFINE k == type[h]
           r == Registered(k)
           i == Position(r, h)
<1>1. /\ alive /\ k \in Kinds /\ UNCHANGED <<alive, loop, started, called>>
      /\ IF i = 0 THEN UNCHANGED <<type, slots, size, stayed, passed, ahead>>
         ELSE /\ slots' = [slots EXCEPT ![k] = Erased(k, i)]
              /\ size' = [size EXCEPT ![k] = @ - 1]
              /\ type' = [type EXCEPT ![h] = "freed"]
              /\ Noted(k, i, h)
  BY DEF Unregister, SelectInSeq, Position, VectorInv, TypeOK
<1>2. TypeOK /\ Exact(k)
  BY <1>1 DEF VectorInv, Registry
<1>3. r \in Seq(Handlers \cup {NoHandler}) /\ Len(r) = size[k] /\ \A j \in 1 .. size[k] : r[j] = slots[k][j]
  BY <1>1, <1>2, Contents
<1> HIDE DEF r
<1>4. \E j \in 1 .. Len(r) : r[j] = h
  BY <1>2, <1>3 DEF Exact
<1>5. i \in 1 .. size[k] /\ slots[k][i] = h
  BY <1>3, <1>4, FirstPosition
<1>6. i # 0
  BY <1>2, <1>5 DEF TypeOK
<1> QED
  BY <1>1, <1>5, <1>6

----------------------------------------------------------------------------
(* Steps *)

\* Nothing is registered and no loop runs at first.
LEMMA VectorInit == Init => VectorInv /\ Course
<1> SUFFICES ASSUME Init PROVE VectorInv /\ Course
  OBVIOUS
<1>1. /\ slots \in [Kinds -> Seq(Handlers \cup {NoHandler})]
      /\ started \in Seq(Handlers) /\ called \in Seq(Handlers)
  BY DEF Init
<1>2. size \in [Kinds -> Nat] /\ \A k \in Kinds : size[k] <= Len(slots[k])
  BY DEF Init
<1>3. TypeOK
  <2>1. ahead \in BOOLEAN
    BY DEF Init
  <2>2. stayed \subseteq Handlers /\ passed \in 0 .. 2
    BY DEF Init
  <2> QED
    BY <1>1, <1>2, <2>1, <2>2 DEF Init, TypeOK, NoLoop
<1>4. Registry
  BY VectorsAssumption DEF Init, Registry, Exact, VectorsAssumption
<1> QED
  BY <1>3, <1>4 DEF Init, VectorInv, Reach, Course, Counts, InPlace, OneBehind, NobodyPassed, ToCome, NoLoop

\* Registering adds a handler to its vector, and only to that.
LEMMA RegisterInv ==
  ASSUME VectorInv, NEW k \in Kinds, Register(k)
  PROVE  VectorInv'
<1>1. PICK h \in Handlers : /\ type[h] = "freed" /\ type' = [type EXCEPT ![h] = k]
                            /\ slots' = [slots EXCEPT ![k] = PushBack(k, h)]
  BY DEF Register
<1>2. /\ alive /\ size' = [size EXCEPT ![k] = @ + 1]
      /\ loop' = [loop EXCEPT !.stale = @ \/ (loop.kind = k /\ Full(k))]
      /\ UNCHANGED <<alive, history>>
  BY DEF Register
<1> DEFINE p == PushBack(k, h)
           n == size[k]
<1>3. TypeOK /\ n \in Nat /\ n <= Len(slots[k]) /\ Len(slots[k]) \in Nat
  BY DEF VectorInv, TypeOK
<1>4. /\ p \in Seq(Handlers \cup {NoHandler}) /\ n + 1 <= Len(p) /\ Len(slots[k]) <= Len(p)
      /\ p[n + 1] = h /\ \A i \in 1 .. Len(slots[k]) : i # n + 1 => p[i] = slots[k][i]
  BY <1>3, PushBackKeeps
<1>5. slots'[k] = p /\ size'[k] = n + 1 /\ type'[h] = k
  BY <1>1, <1>2, <1>3 DEF TypeOK
<1>6. \A k2 \in Kinds \ {k} : slots'[k2] = slots[k2] /\ size'[k2] = size[k2]
  BY <1>1, <1>2, <1>3 DEF TypeOK
<1>7. \A g \in Handlers \ {h} : type'[g] = type[g]
  BY <1>1, <1>3 DEF TypeOK
<1> HIDE DEF p, n
<1>8. /\ loop' \in [kind : Kinds \cup {"none"}, at : Nat, end : Nat, stale : BOOLEAN,
                    running : Handlers \cup {NoHandler}]
      /\ loop'.kind = loop.kind /\ loop'.at = loop.at /\ loop'.end = loop.end
      /\ loop'.running = loop.running
  <2>1. loop \in [kind : Kinds \cup {"none"}, at : Nat, end : Nat, stale : BOOLEAN,
                  running : Handlers \cup {NoHandler}]
    BY <1>3 DEF TypeOK
  <2>2. PICK b \in BOOLEAN : loop' = [loop EXCEPT !.stale = b]
    BY <1>2, <2>1
  <2> QED
    BY <2>1, <2>2
<1>9. TypeOK'
  <2>1. slots' \in [Kinds -> Seq(Handlers \cup {NoHandler})]
    <3>1. slots \in [Kinds -> Seq(Handlers \cup {NoHandler})]
      BY <1>3 DEF TypeOK
    <3> QED
      BY <1>1, <1>4, <3>1 DEF p
  <2>2. size' \in [Kinds -> Nat]
    BY <1>2, <1>3 DEF TypeOK
  <2>3. \A k2 \in Kinds : size'[k2] <= Len(slots'[k2])
    BY <1>3, <1>4, <1>5, <1>6 DEF TypeOK
  <2>4. type' \in [Handlers -> Kinds \cup {"freed"}]
    BY <1>1, <1>3 DEF TypeOK
  <2> QED
    BY <1>2, <1>3, <1>8, <2>1, <2>2, <2>3, <2>4 DEF TypeOK, history
<1>10. Exact(k)'
  <2>1. Exact(k)
    BY <1>2 DEF VectorInv, Registry
  <2>2. \A i \in 1 .. n + 1 : p[i] = IF i = n + 1 THEN h ELSE slots[k][i]
    BY <1>3, <1>4
  <2>3. \A i \in 1 .. n : slots[k][i] \in Handlers \ {h}
    BY <1>1, <2>1, VectorsAssumption DEF Exact, VectorsAssumption, n
  <2>4. \A i \in 1 .. n + 1 : i = n + 1 \/ i \in 1 .. n
    BY <1>3
  <2>5. \A i, j \in 1 .. n + 1 : p[i] = p[j] => i = j
    BY <2>1, <2>2, <2>3, <2>4 DEF Exact, n
  <2>6. \A i \in 1 .. n + 1 : p[i] \in Handlers /\ type'[p[i]] = k
    BY <1>5, <1>7, <2>1, <2>2, <2>3, <2>4 DEF Exact, n
  <2>7. \A g \in Handlers : type'[g] = k => \E i \in 1 .. n + 1 : p[i] = g
    <3> SUFFICES ASSUME NEW g \in Handlers, type'[g] = k PROVE \E i \in 1 .. n + 1 : p[i] = g
      OBVIOUS
    <3>1. CASE g = h
      BY <1>3, <1>4, <3>1
    <3>2. CASE g # h
      <4>1. PICK i \in 1 .. n : slots[k][i] = g
        BY <1>7, <2>1, <3>2 DEF Exact, n
      <4> QED
        BY <1>3, <2>2, <4>1
    <3> QED
      BY <3>1, <3>2
  <2> QED
    BY <1>5, <2>5, <2>6, <2>7 DEF Exact
<1>11. \A k2 \in Kinds \ {k} : Exact(k2)'
  <2>1. \A k2 \in Kinds : Exact(k2)
    BY <1>2 DEF VectorInv, Registry
  <2> QED
    BY <1>1, <1>5, <1>6, <1>7, <2>1, VectorsAssumption DEF Exact, VectorsAssumption
<1>12. Reach'
  <2>1. CASE loop.kind = "none"
    <3>1. loop = NoLoop /\ k # "none"
      BY <2>1, VectorsAssumption DEF VectorInv, Reach, VectorsAssumption
    <3>2. loop'.stale = FALSE
      BY <1>2, <3>1 DEF NoLoop
    <3>3. loop' = NoLoop
      BY <1>2, <3>1, <3>2 DEF NoLoop
    <3> QED
      BY <3>3 DEF Reach, NoLoop
  <2>2. CASE loop.kind = k
    <3>1. /\ loop.end \in Nat /\ loop.end <= Len(slots[k]) /\ loop.at >= 1 /\ k # "none"
          /\ \A j \in 1 .. loop.end : slots[k][j] \in Handlers
      BY <1>3, <2>2, VectorsAssumption DEF VectorInv, Reach, TypeOK, VectorsAssumption
    <3>2. loop.end <= Len(p)
      BY <1>3, <1>4, <3>1
    <3>3. \A j \in 1 .. loop.end : p[j] \in Handlers
      BY <1>3, <1>4, <3>1
    <3> QED
      BY <1>2, <1>5, <1>8, <2>2, <3>1, <3>2, <3>3 DEF Reach
  <2>3. CASE loop.kind # "none" /\ loop.kind # k
    BY <1>2, <1>6, <1>8, <2>3 DEF VectorInv, Reach
  <2> QED
    BY <2>1, <2>2, <2>3
<1> QED
  BY <1>2, <1>9, <1>10, <1>11, <1>12 DEF VectorInv, Registry

\* Unregistering takes a handler out of its vector, and only out of that.
LEMMA UnregisterInv ==
  ASSUME VectorInv, NEW h \in Handlers, Unregister(h)
  PROVE  VectorInv'
<1>0. PICK k \in Kinds : k = type[h]
  BY UnregisterFinds
<1> DEFINE n == size[k]
<1>1. /\ alive /\ UNCHANGED <<alive, loop, started, called>>
      /\ type' = [type EXCEPT ![h] = "freed"] /\ size' = [size EXCEPT ![k] = @ - 1]
  BY <1>0, UnregisterFinds
<1>2. PICK i \in 1 .. n : /\ slots[k][i] = h /\ slots' = [slots EXCEPT ![k] = Erased(k, i)]
                         /\ Noted(k, i, h)
  BY <1>0, UnregisterFinds
<1> DEFINE e == Erased(k, i)
<1>3. /\ TypeOK /\ n \in Nat /\ n <= Len(slots[k]) /\ Len(slots[k]) \in Nat
      /\ \A k2 \in Kinds : Exact(k2)
  BY <1>1 DEF VectorInv, TypeOK, Registry
<1>4. /\ e \in Seq(Handlers \cup {NoHandler}) /\ Len(e) = Len(slots[k])
      /\ \A j \in 1 .. Len(slots[k]) :
           e[j] = IF j \in i .. n - 1 THEN slots[k][j + 1] ELSE slots[k][j]
  BY <1>1, <1>3, ErasedMoves
<1>5. /\ slots'[k] = e /\ size'[k] = n - 1 /\ type'[h] = "freed" /\ n - 1 \in Nat
      /\ \A k2 \in Kinds \ {k} : slots'[k2] = slots[k2] /\ size'[k2] = size[k2]
      /\ \A g \in Handlers \ {h} : type'[g] = type[g]
  BY <1>1, <1>2, <1>3 DEF TypeOK
<1>6. k # "freed" /\ k # "none"
  BY VectorsAssumption DEF VectorsAssumption
<1> HIDE DEF e
<1>7. TypeOK'
  <2>1. stayed' \subseteq Handlers /\ passed' \in 0 .. 2 /\ ahead' \in BOOLEAN
    BY <1>2, <1>3 DEF Noted, TypeOK
  <2> QED
    BY <1>1, <1>2, <1>3, <1>4, <1>5, <2>1 DEF TypeOK
<1>8. Exact(k)'
  <2> DEFINE old(j) == IF j < i THEN j ELSE j + 1
  <2>1. \A j \in 1 .. n - 1 : old(j) \in 1 .. n /\ old(j) # i /\ e[j] = slots[k][old(j)]
    BY <1>3, <1>4
  <2>2. \A a, b \in 1 .. n - 1 : old(a) = old(b) => a = b
    OBVIOUS
  <2>3. \A j \in 1 .. n : j # i => \E a \in 1 .. n - 1 : old(a) = j
    <3> TAKE j \in 1 .. n
    <3>1. CASE j < i
      BY <1>3, <3>1
    <3>2. CASE j > i
      <4>1. j - 1 \in 1 .. n - 1 /\ old(j - 1) = j
        BY <1>3, <3>2
      <4> QED
        BY <4>1
    <3> QED
      BY <3>1, <3>2
  <2> HIDE DEF old, n
  <2>4. Exact(k)
    BY <1>3
  <2>5. \A a, b \in 1 .. n - 1 : e[a] = e[b] => a = b
    BY <2>1, <2>2, <2>4 DEF Exact, n
  <2>6. \A j \in 1 .. n - 1 : e[j] \in Handlers \ {h} /\ type[e[j]] = k
    BY <1>2, <2>1, <2>4 DEF Exact, n
  <2>7. \A g \in Handlers \ {h} : type[g] = k => \E j \in 1 .. n - 1 : e[j] = g
    <3> SUFFICES ASSUME NEW g \in Handlers \ {h}, type[g] = k PROVE \E j \in 1 .. n - 1 : e[j] = g
      OBVIOUS
    <3>1. PICK j \in 1 .. n : slots[k][j] = g
      BY <2>4 DEF Exact, n
    <3>2. PICK a \in 1 .. n - 1 : old(a) = j
      BY <1>2, <2>3, <3>1
    <3> QED
      BY <2>1, <3>1, <3>2
  <2>8. \A j \in 1 .. n - 1 : type'[e[j]] = k
    BY <1>5, <2>6
  <2>9. \A g \in Handlers : type'[g] = k => \E j \in 1 .. n - 1 : e[j] = g
    BY <1>5, <1>6, <2>7
  <2> QED
    BY <1>5, <2>5, <2>6, <2>8, <2>9 DEF Exact
<1>9. ASSUME NEW k2 \in Kinds \ {k} PROVE Exact(k2)'
  <2>1. Exact(k2) /\ slots'[k2] = slots[k2] /\ size'[k2] = size[k2] /\ k2 # "freed"
    BY <1>3, <1>5, VectorsAssumption DEF VectorsAssumption
  <2>2. \A j \in 1 .. size[k2] : slots[k2][j] \in Handlers \ {h}
    BY <1>0, <2>1 DEF Exact
  <2> QED
    BY <1>5, <2>1, <2>2 DEF Exact
<1>10. Reach'
  <2>1. CASE loop.kind = k
    <3>1. \A j \in 1 .. n : slots[k][j] \in Handlers
      BY <1>3 DEF Exact
    <3>2. /\ loop.end \in Nat /\ loop.end <= Len(slots[k]) /\ loop.at >= 1
          /\ \A j \in 1 .. loop.end : slots[k][j] \in Handlers
      BY <1>3, <1>6, <2>1 DEF VectorInv, Reach, TypeOK
    <3>3. \A j \in 1 .. loop.end : e[j] \in Handlers
      BY <1>3, <1>4, <3>1, <3>2
    <3> QED
      BY <1>1, <1>4, <1>5, <1>6, <2>1, <3>2, <3>3 DEF Reach
  <2>2. CASE loop.kind # k
    BY <1>1, <1>5, <2>2 DEF VectorInv, Reach
  <2> QED
    BY <2>1, <2>2
<1> QED
  BY <1>1, <1>7, <1>8, <1>9, <1>10 DEF VectorInv, Registry

\* The destructor finds every handler in a vector.
LEMMA DestroyInv ==
  ASSUME VectorInv, Destroy
  PROVE  VectorInv'
<1>1. /\ alive /\ loop = NoLoop /\ alive' = FALSE
      /\ type' = [h \in Handlers |->
                    IF \E k \in Kinds : Contains(Registered(k), h) THEN "freed" ELSE type[h]]
      /\ UNCHANGED <<slots, size, loop, history>>
  BY DEF Destroy
<1>2. TypeOK /\ \A k \in Kinds : Exact(k)
  BY <1>1 DEF VectorInv, Registry
<1>3. ASSUME NEW h \in Handlers PROVE type'[h] = "freed"
  <2>1. CASE type[h] \in Kinds
    <3>1. PICK i \in 1 .. size[type[h]] : slots[type[h]][i] = h
      BY <1>2, <2>1 DEF Exact
    <3>2. Contains(Registered(type[h]), h)
      BY <1>2, <2>1, <3>1, Contents DEF Contains
    <3> QED
      BY <1>1, <2>1, <3>2
  <2>2. CASE type[h] = "freed"
    BY <1>1, <2>2
  <2> QED
    BY <1>2, <2>1, <2>2 DEF TypeOK
<1>4. TypeOK'
  <2>1. type' \in [Handlers -> Kinds \cup {"freed"}]
    BY <1>1, <1>3
  <2> QED
    BY <1>1, <1>2, <2>1 DEF TypeOK, history
<1> QED
  BY <1>1, <1>3, <1>4 DEF VectorInv, Registry, Reach, NoLoop, history

\* The loop does not touch the vectors.
LEMMA LoopInv ==
  ASSUME VectorInv, (\E k \in Kinds : Dispatch(k)) \/ CallHandler \/ HandlerReturns \/ DispatchEnds
  PROVE  VectorInv'
<1>1. UNCHANGED <<alive, type, slots, size>> /\ Registry'
  <2>1. UNCHANGED <<alive, type, slots, size>>
    BY DEF Dispatch, CallHandler, HandlerReturns, DispatchEnds
  <2> QED
    BY <2>1 DEF VectorInv, Registry, Exact
<1>2. TypeOK
  BY DEF VectorInv
<1>3. ASSUME NEW k \in Kinds, Dispatch(k) PROVE TypeOK' /\ Reach'
  <2>1. /\ alive /\ loop = NoLoop /\ started' = Registered(k) /\ called' = <<>>
        /\ stayed' = ToSet(Registered(k)) /\ passed' = 0 /\ ahead' = FALSE
        /\ loop' = [kind |-> k, at |-> 1, end |-> size[k], stale |-> FALSE, running |-> NoHandler]
    BY <1>3 DEF Dispatch, NoLoop
  <2>2. \A i \in 1 .. size[k] : slots[k][i] \in Handlers
    BY <2>1 DEF VectorInv, Registry, Exact
  <2>3. Registered(k) \in Seq(Handlers)
    <3>1. /\ Registered(k) \in Seq(Handlers \cup {NoHandler}) /\ Len(Registered(k)) = size[k]
          /\ \A i \in 1 .. size[k] : Registered(k)[i] = slots[k][i]
      BY <1>2, Contents
    <3>2. \A i \in 1 .. Len(Registered(k)) : Registered(k)[i] \in Handlers
      BY <2>2, <3>1
    <3>3. Registered(k) \in [1 .. Len(Registered(k)) -> Handlers] /\ Len(Registered(k)) \in Nat
      BY <3>1, <3>2, LenProperties
    <3> QED
      BY <3>3, FunctionIsSeq
  <2>4. size[k] \in Nat /\ size[k] <= Len(slots[k])
    BY <1>2 DEF TypeOK
  <2>5. k # "none"
    BY VectorsAssumption DEF VectorsAssumption
  <2>6. loop' \in [kind : Kinds \cup {"none"}, at : Nat, end : Nat, stale : BOOLEAN,
                   running : Handlers \cup {NoHandler}]
    BY <2>1, <2>4
  <2>7. TypeOK'
    <3>1. stayed' \subseteq Handlers /\ passed' \in 0 .. 2
      BY <2>1, <2>3 DEF ToSet
    <3>2. ahead' \in BOOLEAN
      BY <2>1
    <3> QED
      BY <1>1, <1>2, <2>1, <2>3, <2>6, <3>1, <3>2 DEF TypeOK
  <2> QED
    BY <1>1, <2>1, <2>2, <2>4, <2>5, <2>7 DEF Reach
<1>4. ASSUME CallHandler PROVE TypeOK' /\ Reach'
  <2> DEFINE h == slots[loop.kind][loop.at]
  <2>1. /\ loop.kind # "none" /\ loop.at <= loop.end /\ UNCHANGED <<started, stayed, passed, ahead>>
        /\ loop' = [loop EXCEPT !.running = h] /\ called' = Append(called, h)
    BY <1>4 DEF CallHandler, Reads
  <2>2. h \in Handlers
    BY <1>2, <2>1 DEF VectorInv, Reach, TypeOK
  <2> HIDE DEF h
  <2>3. called' \in Seq(Handlers)
    BY <1>2, <2>1, <2>2 DEF TypeOK
  <2>4. loop' \in [kind : Kinds \cup {"none"}, at : Nat, end : Nat, stale : BOOLEAN,
                   running : Handlers \cup {NoHandler}]
    BY <1>2, <2>1, <2>2 DEF TypeOK
  <2>5. TypeOK'
    BY <1>1, <1>2, <2>1, <2>3, <2>4 DEF TypeOK
  <2> QED
    BY <1>1, <1>2, <2>1, <2>5 DEF VectorInv, Reach, TypeOK
<1>5. ASSUME HandlerReturns PROVE TypeOK' /\ Reach'
  <2>1. /\ loop.running # NoHandler
        /\ loop' = [loop EXCEPT !.running = NoHandler, !.at = @ + 1]
        /\ UNCHANGED <<started, called, stayed, passed, ahead>>
    BY <1>5 DEF HandlerReturns, history
  <2>2. loop.kind # "none"
    BY <2>1 DEF VectorInv, Reach, NoLoop
  <2>3. loop' \in [kind : Kinds \cup {"none"}, at : Nat, end : Nat, stale : BOOLEAN,
                   running : Handlers \cup {NoHandler}]
    <3>1. loop.at \in Nat /\ loop.at + 1 \in Nat
      BY <1>2 DEF TypeOK
    <3> QED
      BY <1>2, <2>1, <3>1 DEF TypeOK
  <2>4. TypeOK'
    BY <1>1, <1>2, <2>1, <2>3 DEF TypeOK
  <2>5. loop'.kind = loop.kind /\ loop'.at = loop.at + 1 /\ loop'.end = loop.end
    BY <1>2, <2>1 DEF TypeOK
  <2>6. loop.at \in Nat /\ loop.at >= 1 => loop'.at >= 1
    BY <2>5
  <2>7. /\ alive /\ loop.kind \in Kinds /\ loop.at \in Nat /\ loop.at >= 1
        /\ loop.end <= Len(slots[loop.kind])
        /\ \A j \in 1 .. loop.end : slots[loop.kind][j] \in Handlers
    BY <1>2, <2>2 DEF VectorInv, Reach, TypeOK
  <2>8. Reach'
    BY <1>1, <2>2, <2>5, <2>6, <2>7 DEF Reach
  <2> QED
    BY <2>4, <2>8
<1>6. ASSUME DispatchEnds PROVE TypeOK' /\ Reach'
  <2>1. /\ loop' = NoLoop /\ started' = <<>> /\ called' = <<>>
        /\ stayed' = {} /\ passed' = 0 /\ ahead' = FALSE
    BY <1>6 DEF DispatchEnds
  <2>2. loop' \in [kind : Kinds \cup {"none"}, at : Nat, end : Nat, stale : BOOLEAN,
                   running : Handlers \cup {NoHandler}]
    BY <2>1 DEF NoLoop
  <2>3. <<>> \in Seq(Handlers) /\ stayed' \subseteq Handlers /\ passed' \in 0 .. 2
    BY <2>1
  <2>4. ahead' \in BOOLEAN
    BY <2>1
  <2> QED
    BY <1>1, <1>2, <2>1, <2>2, <2>3, <2>4 DEF TypeOK, Reach, NoLoop
<1> QED
  BY <1>1, <1>3, <1>4, <1>5, <1>6 DEF VectorInv

\* Every step keeps the invariant.
LEMMA VectorStep == VectorInv /\ [Next]_vars => VectorInv'
<1> SUFFICES ASSUME VectorInv, [Next]_vars PROVE VectorInv'
  OBVIOUS
<1>1. CASE UNCHANGED vars
  BY <1>1 DEF vars, history, VectorInv, TypeOK, Registry, Exact, Reach
<1> QED
  BY <1>1, RegisterInv, UnregisterInv, DestroyInv, LoopInv DEF Next

THEOREM VectorInvCorrect == Spec => []VectorInv
BY VectorInit, VectorStep, PTL DEF Spec

\* The loop never leaves the buffers and never takes a handler for what is none.
THEOREM TypeCorrect == Spec => []TypeOK
<1>1. VectorInv => TypeOK
  BY DEF VectorInv
<1> QED
  BY <1>1, VectorInvCorrect, PTL

\* Whatever is registered and removed, by whomever and in the middle of whatever
\* dispatch, the vectors hold the handlers that exist, each in the one of its
\* type; nothing that was deleted; and the client takes them all with it.
THEOREM RegistryExact == Spec => []RegistryIsExact
<1>1. VectorInv => RegistryIsExact
  <2> SUFFICES ASSUME VectorInv, alive, NEW k \in Kinds
               PROVE  /\ IsInjective(Registered(k))
                      /\ ToSet(Registered(k)) = {h \in Handlers : type[h] = k}
    BY DEF RegistryIsExact, VectorInv, Registry
  <2>1. Exact(k) /\ TypeOK
    BY DEF VectorInv, Registry
  <2> DEFINE r == Registered(k)
  <2>2. /\ DOMAIN r = 1 .. size[k] /\ \A i \in 1 .. size[k] : r[i] = slots[k][i]
    BY <2>1, Contents, LenProperties
  <2> HIDE DEF r
  <2>3. IsInjective(r)
    BY <2>1, <2>2 DEF IsInjective, Exact
  <2>4. ToSet(r) = {h \in Handlers : type[h] = k}
    BY <2>1, <2>2 DEF ToSet, Exact
  <2> QED
    BY <2>3, <2>4 DEF r
<1> QED
  BY <1>1, VectorInvCorrect, PTL

----------------------------------------------------------------------------
(* The course of a dispatch *)

\* What is known of a loop whose vector a step leaves as it is.
LEMMA CourseKept ==
  ASSUME VectorInv, Course, UNCHANGED <<started, called, passed, ahead>>,
         /\ loop'.kind = loop.kind /\ loop'.at = loop.at /\ loop'.end = loop.end
         /\ loop'.running = loop.running,
         loop.kind \in Kinds => slots'[loop.kind] = slots[loop.kind] /\ size'[loop.kind] = size[loop.kind],
         stayed' \subseteq stayed
  PROVE  Course'
<1>1. loop.kind # "none" => loop.kind \in Kinds
  BY DEF VectorInv, Reach
<1>2. ToCome' <=> ToCome
  BY DEF ToCome
<1>3. Counts'
  BY DEF Course, Counts
<1>4. InPlace'
  BY <1>1, <1>2 DEF Course, InPlace, ToCome
<1>5. OneBehind'
  BY <1>1, <1>2 DEF Course, OneBehind, ToCome
<1>6. NobodyPassed'
  BY <1>1 DEF Course, NobodyPassed, InReach
<1> QED
  BY <1>3, <1>4, <1>5, <1>6 DEF Course

\* A handler that is added comes behind those the loop will visit.
LEMMA RegisterCourse ==
  ASSUME VectorInv, Course, NEW k \in Kinds, Register(k)
  PROVE  Course'
<1>1. PICK h \in Handlers : slots' = [slots EXCEPT ![k] = PushBack(k, h)]
  BY DEF Register
<1>2. /\ size' = [size EXCEPT ![k] = @ + 1] /\ UNCHANGED <<started, called, stayed, passed, ahead>>
      /\ loop' = [loop EXCEPT !.stale = @ \/ (loop.kind = k /\ Full(k))]
  BY DEF Register, history
<1>3. TypeOK
  BY DEF VectorInv
<1>4. /\ loop'.kind = loop.kind /\ loop'.at = loop.at /\ loop'.end = loop.end
      /\ loop'.running = loop.running
  BY <1>2, <1>3 DEF TypeOK
<1>5. CASE loop.kind # k
  <2>1. loop.kind \in Kinds => slots'[loop.kind] = slots[loop.kind] /\ size'[loop.kind] = size[loop.kind]
    BY <1>1, <1>2, <1>3, <1>5 DEF TypeOK
  <2> QED
    BY <1>2, <1>4, <2>1, CourseKept
<1>6. CASE loop.kind = k
  <2> DEFINE p == PushBack(k, h)
             n == size[k]
             e == loop.end
  <2>1. /\ n \in Nat /\ n <= Len(slots[k]) /\ Len(slots[k]) \in Nat /\ e \in Nat
        /\ e <= Len(slots[k]) /\ k # "none" /\ Len(called) \in Nat
    BY <1>3, <1>6, VectorsAssumption DEF VectorInv, Reach, TypeOK, VectorsAssumption
  <2>2. p[n + 1] = h /\ \A i \in 1 .. Len(slots[k]) : i # n + 1 => p[i] = slots[k][i]
    BY <1>3, PushBackKeeps
  <2>3. slots'[k] = p /\ size'[k] = n + 1
    BY <1>1, <1>2, <1>3 DEF TypeOK
  <2>4. \A i \in 1 .. n : p[i] = slots[k][i]
    BY <2>1, <2>2
  <2>5. loop'.kind = k /\ loop'.end = e /\ (ToCome' <=> ToCome)
    BY <1>2, <1>4, <1>6 DEF ToCome
  <2> HIDE DEF p, n, e
  <2>6. Counts'
    BY <1>2, <1>4 DEF Course, Counts
  <2>7. InPlace'
    <3>1. ASSUME passed = 0, ~ahead, ToCome
          PROVE  e <= n + 1 /\ \A i \in 1 .. e : p[i] = started[i]
      <4>1. e <= n /\ \A i \in 1 .. e : slots[k][i] = started[i]
        BY <1>6, <3>1 DEF Course, InPlace, e, n
      <4> QED
        BY <2>1, <2>4, <4>1
    <3> QED
      BY <1>2, <2>3, <2>5, <3>1 DEF Course, InPlace
  <2>8. OneBehind'
    <3>1. ASSUME ToCome, passed <= 1, ~ahead PROVE e <= n + 1
      BY <1>6, <2>1, <3>1 DEF Course, OneBehind, e, n
    <3> QED
      BY <1>2, <2>3, <2>5, <3>1 DEF OneBehind
  <2>9. NobodyPassed'
    <3> SUFFICES ASSUME passed = 0, NEW g \in stayed,
                        ~ \E i \in 1 .. Len(called) : called[i] = g
                 PROVE  \E j \in Len(called) + 1 .. e : j <= n + 1 /\ p[j] = g
      BY <1>2, <2>3, <2>5 DEF NobodyPassed, InReach
    <3>1. PICK j \in Len(called) + 1 .. e : j <= n /\ slots[k][j] = g
      BY <1>6, <2>1 DEF Course, NobodyPassed, InReach, e, n
    <3>2. j \in 1 .. n
      BY <2>1, <3>1
    <3> QED
      BY <2>1, <2>4, <3>1, <3>2
  <2> QED
    BY <2>6, <2>7, <2>8, <2>9 DEF Course
<1> QED
  BY <1>5, <1>6

\* A handler that is removed moves those behind it down by one.
LEMMA UnregisterCourse ==
  ASSUME VectorInv, Course, NEW h \in Handlers, Unregister(h)
  PROVE  Course'
<1>0. PICK k \in Kinds : k = type[h]
  BY UnregisterFinds
<1> DEFINE n == size[k]
<1>1. UNCHANGED <<loop, started, called>> /\ size' = [size EXCEPT ![k] = @ - 1]
  BY <1>0, UnregisterFinds
<1>2. PICK i \in 1 .. n : /\ slots[k][i] = h /\ slots' = [slots EXCEPT ![k] = Erased(k, i)]
                         /\ Noted(k, i, h)
  BY <1>0, UnregisterFinds
<1>3. TypeOK /\ n \in Nat /\ n <= Len(slots[k]) /\ Len(slots[k]) \in Nat
  BY DEF VectorInv, TypeOK
<1>4. stayed' = stayed \ {h} /\ (ToCome' <=> ToCome)
  BY <1>1, <1>2 DEF Noted, ToCome
<1>5. CASE loop.kind # k
  <2>1. loop.kind \in Kinds => slots'[loop.kind] = slots[loop.kind] /\ size'[loop.kind] = size[loop.kind]
    BY <1>1, <1>2, <1>3, <1>5 DEF TypeOK
  <2>2. UNCHANGED <<passed, ahead>>
    BY <1>2, <1>3, <1>5 DEF Noted, TypeOK
  <2> QED
    BY <1>1, <1>4, <2>1, <2>2, CourseKept
<1> DEFINE m == Len(called)
           e == loop.end
           s == slots[k]
           x == slots'[k]
<1>6. ASSUME loop.kind = k PROVE m \in Nat /\ e \in Nat /\ k # "none" /\ e <= Len(s)
  BY <1>3, <1>6, VectorsAssumption DEF VectorInv, Reach, TypeOK, VectorsAssumption
<1>7. CASE loop.kind = k /\ ~ToCome
  <2>1. UNCHANGED <<passed, ahead>> /\ m >= e
    BY <1>2, <1>3, <1>6, <1>7 DEF Noted, ToCome, TypeOK
  <2>2. ASSUME passed = 0, NEW g \in stayed PROVE \E a \in 1 .. m : called[a] = g
    BY <1>6, <1>7, <2>1, <2>2 DEF Course, NobodyPassed, InReach
  <2>3. NobodyPassed'
    BY <1>1, <1>4, <2>1, <2>2 DEF NobodyPassed, InReach
  <2> QED
    BY <1>1, <1>4, <1>7, <2>1, <2>3 DEF Course, Counts, InPlace, OneBehind
<1>8. CASE loop.kind = k /\ ToCome
  <2>1. /\ m \in Nat /\ e \in Nat /\ m < e /\ k # "none" /\ e <= Len(s)
        /\ loop.kind = k
    BY <1>6, <1>8 DEF ToCome
  <2>2. /\ passed' = IF i <= m /\ passed < 2 THEN passed + 1 ELSE passed
        /\ ahead' = (ahead \/ i > m)
    BY <1>2, <2>1 DEF Noted
  <2>3. \A j \in 1 .. Len(s) : x[j] = IF j \in i .. n - 1 THEN s[j + 1] ELSE s[j]
    BY <1>2, <1>3, ErasedMoves DEF TypeOK
  <2>4. size'[k] = n - 1 /\ passed \in 0 .. 2
    BY <1>1, <1>3 DEF TypeOK
  <2> HIDE DEF n, m, e, s, x
  <2>5. i \in Nat /\ i >= 1 /\ i <= n
    BY <1>3
  <2>6. Counts'
    BY <1>1 DEF Course, Counts
  <2>7. InPlace'
    <3>1. CASE i > m
      BY <2>2, <3>1 DEF InPlace
    <3>2. CASE i <= m
      <4>1. passed' # 0
        BY <2>2, <2>4, <3>2
      <4> QED
        BY <4>1 DEF InPlace
    <3> QED
      BY <2>1, <2>5, <3>1, <3>2
  <2>8. OneBehind'
    <3> SUFFICES ASSUME passed' <= 1, ~ahead'
                 PROVE  e <= n - 1 \/ (passed' = 1 /\ e = n /\ n - 1 >= 1 /\ x[e] = x[n - 1])
      BY <1>1, <1>3, <2>1, <2>4 DEF OneBehind, e, x
    <3>0. ~ahead /\ ~(i > m)
      BY <2>2
    <3>1. i <= m /\ passed = 0 /\ passed' = 1 /\ ~ahead
      BY <2>1, <2>2, <2>4, <2>5, <3>0
    <3>2. e <= n
      BY <1>8, <3>1 DEF Course, OneBehind, e, n
    <3>3. CASE e = n
      <4>1. n - 1 \in i .. n - 1 /\ n - 1 \in 1 .. Len(s) /\ n \in 1 .. Len(s) /\ n \notin i .. n - 1
        BY <1>3, <2>1, <2>5, <3>1, <3>3 DEF s, n
      <4>2. x[n - 1] = s[n - 1 + 1] /\ x[n] = s[n]
        BY <2>3, <4>1
      <4>3. n - 1 + 1 = n
        BY <1>3
      <4> QED
        BY <1>3, <2>1, <2>5, <3>1, <3>3, <4>2, <4>3
    <3> QED
      BY <1>3, <2>1, <3>2, <3>3
  <2>9. NobodyPassed'
    <3> SUFFICES ASSUME passed' = 0, NEW g \in stayed \ {h},
                        ~ \E a \in 1 .. m : called[a] = g
                 PROVE  \E j \in m + 1 .. e : j <= n - 1 /\ x[j] = g
      BY <1>1, <1>4, <2>1, <2>4 DEF NobodyPassed, InReach, m, e, x
    <3>1. i > m /\ passed = 0
      BY <2>1, <2>2, <2>4, <2>5
    <3>2. PICK j \in m + 1 .. e : j <= n /\ s[j] = g
      BY <1>8, <2>1, <3>1 DEF Course, NobodyPassed, InReach, m, e, s, n
    <3>3. j # i /\ j \in Nat
      BY <1>2, <2>1, <3>2 DEF s
    <3>4. CASE j < i
      <4>1. j \in 1 .. Len(s) /\ j \notin i .. n - 1 /\ j <= n - 1
        BY <1>3, <2>1, <2>5, <3>2, <3>4 DEF s, n
      <4> QED
        BY <2>3, <3>2, <4>1
    <3>5. CASE j > i
      <4>1. PICK b \in Nat : j = b + 1
        BY <2>5, <3>2, <3>3, <3>5
      <4>2. b \in i .. n - 1 /\ b \in 1 .. Len(s) /\ b \in m + 1 .. e /\ b <= n - 1
        BY <1>3, <2>1, <2>5, <3>1, <3>2, <3>5, <4>1 DEF s, n
      <4>3. x[b] = s[b + 1]
        BY <2>3, <4>2
      <4> QED
        BY <3>2, <4>1, <4>2, <4>3
    <3> QED
      BY <2>5, <3>3, <3>4, <3>5
  <2> QED
    BY <2>6, <2>7, <2>8, <2>9 DEF Course
<1> QED
  BY <1>5, <1>7, <1>8

\* The steps of the loop: it calls what it finds at the next position.
LEMMA LoopCourse ==
  ASSUME VectorInv, Course,
         (\E k \in Kinds : Dispatch(k)) \/ CallHandler \/ HandlerReturns \/ DispatchEnds
  PROVE  Course'
<1>1. TypeOK /\ loop.at \in Nat /\ loop.end \in Nat /\ called \in Seq(Handlers) /\ started \in Seq(Handlers)
  BY DEF VectorInv, TypeOK
<1>2. ASSUME NEW k \in Kinds, Dispatch(k) PROVE Course'
  <2>1. /\ loop' = [kind |-> k, at |-> 1, end |-> size[k], stale |-> FALSE, running |-> NoHandler]
        /\ started' = Registered(k) /\ called' = <<>> /\ stayed' = ToSet(Registered(k))
        /\ passed' = 0 /\ UNCHANGED <<slots, size>>
    BY <1>2 DEF Dispatch, NoLoop
  <2>2. Len(started') = size[k] /\ \A i \in 1 .. size[k] : slots[k][i] = started'[i]
    BY <1>1, <2>1, Contents
  <2>3. size[k] \in Nat /\ k # "none"
    BY <1>1, VectorsAssumption DEF TypeOK, VectorsAssumption
  <2>4. loop'.kind = k /\ loop'.at = 1 /\ loop'.end = size[k] /\ loop'.running = NoHandler
    BY <2>1
  <2>5. Counts' /\ InPlace' /\ OneBehind'
    BY <2>1, <2>2, <2>3, <2>4 DEF Counts, InPlace, OneBehind
  <2>6. NobodyPassed'
    <3> SUFFICES ASSUME NEW g \in ToSet(Registered(k))
                 PROVE  \E j \in 1 .. size[k] : slots[k][j] = g
      BY <2>1, <2>3, <2>4 DEF NobodyPassed, InReach
    <3> QED
      BY <1>1, Contents, LenProperties DEF ToSet
  <2> QED
    BY <2>5, <2>6 DEF Course
<1>3. ASSUME CallHandler PROVE Course'
  <2> DEFINE h == slots[loop.kind][loop.at]
  <2>1. /\ loop.kind # "none" /\ loop.running = NoHandler /\ loop.at <= loop.end
        /\ UNCHANGED <<slots, size, started, stayed, passed, ahead>>
        /\ loop' = [loop EXCEPT !.running = h] /\ called' = Append(called, h)
    BY <1>3 DEF CallHandler, Reads
  <2>2. h \in Handlers /\ loop.at >= 1 /\ h # NoHandler
    BY <1>1, <2>1, VectorsAssumption DEF VectorInv, Reach, VectorsAssumption
  <2>3. Len(called) = loop.at - 1 /\ Len(called) \in Nat /\ ToCome
    BY <1>1, <2>1 DEF Course, Counts, ToCome
  <2>4. /\ loop'.kind = loop.kind /\ loop'.at = loop.at /\ loop'.end = loop.end
        /\ loop'.running = h
    BY <1>1, <2>1 DEF TypeOK
  <2>5. /\ Len(called') = loop.at /\ called'[loop.at] = h
        /\ \A i \in 1 .. Len(called) : called'[i] = called[i]
    BY <1>1, <2>1, <2>2, <2>3
  <2>6. Counts'
    BY <1>1, <2>1, <2>2, <2>4, <2>5 DEF Course, Counts
  <2>7. InPlace'
    <3>1. ASSUME passed = 0, ~ahead
          PROVE  /\ \A i \in 1 .. loop.at : called'[i] = started[i]
                 /\ loop.end <= size[loop.kind]
                 /\ \A i \in 1 .. loop.end : slots[loop.kind][i] = started[i]
      <4>1. /\ \A i \in 1 .. Len(called) : called[i] = started[i]
            /\ loop.end <= size[loop.kind]
            /\ \A i \in 1 .. loop.end : slots[loop.kind][i] = started[i]
        BY <2>3, <3>1 DEF Course, InPlace
      <4>2. called'[loop.at] = started[loop.at]
        BY <1>1, <2>1, <2>2, <2>5, <4>1
      <4>3. \A i \in 1 .. loop.at : i = loop.at \/ i \in 1 .. Len(called)
        BY <1>1, <2>3
      <4> QED
        BY <2>5, <4>1, <4>2, <4>3
    <3> QED
      BY <2>1, <2>4, <2>5, <3>1 DEF InPlace
  <2>8. OneBehind'
    BY <2>1, <2>3, <2>4 DEF Course, OneBehind
  <2>9. NobodyPassed'
    <3> SUFFICES ASSUME passed = 0, NEW g \in stayed
                 PROVE  \/ \E i \in 1 .. loop.at : called'[i] = g
                        \/ \E j \in loop.at + 1 .. loop.end : j <= size[loop.kind] /\ slots[loop.kind][j] = g
      BY <2>1, <2>4, <2>5 DEF NobodyPassed, InReach
    <3>1. CASE \E i \in 1 .. Len(called) : called[i] = g
      BY <1>1, <2>3, <2>5, <3>1
    <3>2. CASE \E j \in Len(called) + 1 .. loop.end : j <= size[loop.kind] /\ slots[loop.kind][j] = g
      <4>1. PICK j \in Len(called) + 1 .. loop.end : j <= size[loop.kind] /\ slots[loop.kind][j] = g
        BY <3>2
      <4>2. j = loop.at \/ j \in loop.at + 1 .. loop.end
        BY <1>1, <2>3
      <4>3. loop.at \in 1 .. loop.at
        BY <1>1, <2>2
      <4> QED
        BY <2>5, <4>1, <4>2, <4>3
    <3> QED
      BY <2>1, <3>1, <3>2 DEF Course, NobodyPassed, InReach
  <2> QED
    BY <2>6, <2>7, <2>8, <2>9 DEF Course
<1>4. ASSUME HandlerReturns PROVE Course'
  <2>1. /\ loop.running # NoHandler /\ UNCHANGED <<slots, size, started, called, stayed, passed, ahead>>
        /\ loop' = [loop EXCEPT !.running = NoHandler, !.at = @ + 1]
    BY <1>4 DEF HandlerReturns, history
  <2>2. loop.kind # "none"
    BY <2>1 DEF VectorInv, Reach, NoLoop
  <2>3. /\ loop'.kind = loop.kind /\ loop'.at = loop.at + 1 /\ loop'.end = loop.end
        /\ loop'.running = NoHandler
    BY <1>1, <2>1 DEF TypeOK
  <2>4. loop.at <= loop.end /\ Len(called) = loop.at
    BY <2>1, <2>2 DEF Course, Counts
  <2>5. Counts'
    BY <1>1, <2>1, <2>2, <2>3, <2>4 DEF Course, Counts
  <2>6. InPlace' /\ OneBehind' /\ NobodyPassed'
    BY <2>1, <2>3 DEF Course, InPlace, OneBehind, NobodyPassed, InReach, ToCome
  <2> QED
    BY <2>5, <2>6 DEF Course
<1>5. ASSUME DispatchEnds PROVE Course'
  BY <1>5 DEF DispatchEnds, Course, Counts, InPlace, OneBehind, NobodyPassed, ToCome, NoLoop
<1> QED
  BY <1>2, <1>3, <1>4, <1>5

\* Every step keeps the course of the loop.
LEMMA CourseStep == VectorInv /\ Course /\ [Next]_vars => Course'
<1> SUFFICES ASSUME VectorInv, Course, [Next]_vars PROVE Course'
  OBVIOUS
<1>1. CASE UNCHANGED vars \/ Destroy
  <2>1. UNCHANGED <<slots, size, loop, started, called, stayed, passed, ahead>>
    BY <1>1 DEF vars, history, Destroy
  <2> QED
    BY <2>1, CourseKept
<1> QED
  BY <1>1, RegisterCourse, UnregisterCourse, LoopCourse DEF Next

LEMMA CourseCorrect == Spec => [](VectorInv /\ Course)
<1>1. VectorInv /\ Course /\ [Next]_vars => Course'
  BY CourseStep
<1> QED
  BY <1>1, VectorInit, VectorStep, PTL DEF Spec

\* The range-for, which looks up neither the buffer nor the end of the vector again,
\* finds live handlers, also after the one that runs, or one before it, was removed
\* and the elements have moved; in every program, for each message of which the
\* vector stayed in its buffer, no handler to come was removed and one before it at
\* most.
THEOREM ReadsLiveHandlers == Spec => []LoopReadsLiveHandlers
<1>1. VectorInv /\ Course => LoopReadsLiveHandlers
  <2> SUFFICES ASSUME VectorInv, Course, Reads, ~ahead, passed <= 1
               PROVE  FindsHandler
    BY DEF LoopReadsLiveHandlers
  <2> DEFINE k == loop.kind
             n == size[k]
             a == loop.at
             e == loop.end
             s == slots[k]
  <2>1. /\ a \in Nat /\ e \in Nat /\ a >= 1 /\ alive /\ k \in Kinds /\ e <= Len(s)
        /\ Len(s) \in Nat /\ a <= e /\ n \in Nat /\ loop.running = NoHandler /\ k # "none"
    BY DEF VectorInv, TypeOK, Reach, Reads
  <2>2. /\ \A i \in 1 .. n : s[i] \in Handlers /\ type[s[i]] = k
        /\ ToCome
    BY <2>1 DEF VectorInv, Registry, Exact, Course, Counts, ToCome
  <2>3. e <= n \/ (e = n + 1 /\ n >= 1 /\ s[e] = s[n])
    BY <2>2 DEF Course, OneBehind
  <2> HIDE DEF k, n, a, e, s
  <2>4. s[a] \in Handlers /\ type[s[a]] = k
    <3>1. CASE a <= n
      <4>1. a \in 1 .. n
        BY <2>1, <3>1
      <4> QED
        BY <2>2, <4>1
    <3>2. CASE a > n
      <4>1. a = e /\ s[e] = s[n] /\ n \in 1 .. n
        BY <2>1, <2>3, <3>2
      <4> QED
        BY <2>2, <4>1
    <3> QED
      BY <2>1, <3>1, <3>2
  <2>5. a <= Len(s)
    BY <2>1
  <2> QED
    BY <2>4, <2>5 DEF FindsHandler, k, a, s
<1> QED
  BY <1>1, CourseCorrect, PTL

\* Whatever is registered and removed meanwhile, in every program, a handler is
\* skipped only when one that the loop has passed was removed.
THEOREM EverybodyIsCalled == Spec => []NobodySkipped
<1>1. VectorInv /\ Course => NobodySkipped
  <2> SUFFICES ASSUME VectorInv, Course, AtTheEnd, passed = 0, NEW h \in stayed
               PROVE  h \in ToSet(called)
    BY DEF NobodySkipped
  <2>1. /\ loop.kind # "none" /\ loop.at > loop.end /\ loop.at \in Nat /\ loop.end \in Nat
        /\ Len(called) = loop.at - 1 /\ called \in Seq(Handlers)
    BY DEF VectorInv, TypeOK, AtTheEnd, Course, Counts
  <2>2. \E i \in 1 .. Len(called) : called[i] = h
    BY <2>1 DEF Course, NobodyPassed, InReach
  <2> QED
    BY <2>1, <2>2, LenProperties DEF ToSet
<1> QED
  BY <1>1, CourseCorrect, PTL

\* In every program, a message of which no handler is removed while others are to
\* come reaches exactly the handlers that were registered when it arrived, each once
\* and in their order, whatever is registered meanwhile.
THEOREM HandlersInOrder == Spec => []EachHandlerInOrder
<1>1. VectorInv /\ Course => EachHandlerInOrder
  <2> SUFFICES ASSUME VectorInv, Course, passed = 0, ~ahead
               PROVE  IsPrefix(called, started) /\ (AtTheEnd => called = started)
    BY DEF EachHandlerInOrder
  <2>1. /\ called \in Seq(Handlers) /\ started \in Seq(Handlers)
        /\ loop.at \in Nat /\ loop.end \in Nat /\ Len(called) \in Nat /\ Len(started) \in Nat
    BY DEF VectorInv, TypeOK
  <2>2. \A i \in 1 .. Len(called) : called[i] = started[i]
    BY DEF Course, InPlace
  <2>3. Len(called) <= Len(started)
    BY <2>1 DEF Course, Counts
  <2>4. SubSeq(called, 1, Len(called)) = SubSeq(started, 1, Len(called))
    BY <2>1, <2>2
  <2>5. ASSUME AtTheEnd PROVE called = started
    <3>1. Len(called) = Len(started)
      BY <2>1, <2>5 DEF Course, Counts, AtTheEnd
    <3> QED
      BY <2>1, <2>2, <3>1, SeqEqual
  <2> QED
    BY <2>3, <2>4, <2>5 DEF IsPrefix
<1> QED
  BY <1>1, CourseCorrect, PTL
=============================================================================
