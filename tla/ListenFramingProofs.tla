------------------------ MODULE ListenFramingProofs ------------------------
(***************************************************************************)
(* That listen() cuts the stream of MessageStream: whatever the hub sends  *)
(* and however the reads cut it, the lines listen() gathers are the        *)
(* messages of the stream, each with its own bytes and its own text.       *)
(***************************************************************************)
EXTENDS ListenFraming, SequenceLemmas

----------------------------------------------------------------------------
(* Joining sequences *)

\* What FlattenSeq returns, here and in the specification of the stream.
LEMMA FlattenSeqIs ==
  ASSUME NEW s, Len(s) \in Nat
  PROVE  IF Len(s) = 0 THEN FlattenSeq(s) = s /\ Stream!FlattenSeq(s) = s
         ELSE \E f : /\ Flattens(f, s, Len(s)) 
                     /\ FlattenSeq(s) = f[Len(s)] /\ Stream!FlattenSeq(s) = f[Len(s)]
<1>1. CASE Len(s) = 0
  BY <1>1 DEF FlattenSeq, Stream!FlattenSeq
<1>2. CASE Len(s) # 0
  <2> DEFINE f == CHOOSE f : Flattens(f, s, Len(s))
  <2>1. Flattens(f, s, Len(s))
    BY <1>2, FlattenExists
  <2>2. FlattenSeq(s) = f[Len(s)]
    BY <1>2 DEF FlattenSeq, Flattens
  <2>3. Stream!FlattenSeq(s) = f[Len(s)]
    BY <1>2 DEF Stream!FlattenSeq, Flattens
  <2> QED
    BY <1>2, <2>1, <2>2, <2>3
<1> QED
  BY <1>1, <1>2

\* Further elements that are empty, and one that need not be.
LEMMA FlattenExtend ==
  ASSUME NEW S, NEW s \in Seq(Seq(S)), NEW t \in Seq(Seq(S)), Len(s) < Len(t),
         \A i \in 1 .. Len(s) : t[i] = s[i],
         \A i \in Len(s) + 1 .. Len(t) - 1 : t[i] = <<>>
  PROVE  /\ FlattenSeq(s) \in Seq(S)
         /\ FlattenSeq(t) = FlattenSeq(s) \o t[Len(t)]
         /\ Stream!FlattenSeq(t) = FlattenSeq(s) \o t[Len(t)]
<1>1. PICK n \in Nat : n = Len(s)
  BY LenProperties
<1>2. PICK m \in Nat : m = Len(t)
  BY LenProperties
<1>3. n < m /\ m # 0
  BY <1>1, <1>2
<1>4. PICK g : Flattens(g, t, m) /\ FlattenSeq(t) = g[m] /\ Stream!FlattenSeq(t) = g[m]
  BY <1>2, <1>3, FlattenSeqIs
<1>5. /\ g[1] = t[1]
      /\ \A i \in 2 .. m : g[i] = g[i - 1] \o t[i]
  <2>1. \A i \in 1 .. m : g[i] = IF i = 1 THEN t[i] ELSE g[i - 1] \o t[i]
    BY <1>4 DEF Flattens
  <2>2. 1 \in 1 .. m /\ \A i \in 2 .. m : i \in 1 .. m /\ i # 1
    BY <1>3
  <2> QED
    BY <2>1, <2>2
<1>6. \A i \in 1 .. m : t[i] \in Seq(S)
  BY <1>2, ElementOfSeq
<1>7. \A i \in 1 .. m : g[i] \in Seq(S)
  <2> DEFINE B == {i \in 1 .. m : g[i] \notin Seq(S)}
  <2>1. \A i \in B : i - 1 \in B
    <3> SUFFICES ASSUME NEW i \in 1 .. m, g[i] \notin Seq(S)
                 PROVE  i - 1 \in 1 .. m /\ g[i - 1] \notin Seq(S)
      OBVIOUS
    <3>1. i # 1
      BY <1>5, <1>6
    <3>2. i \in 2 .. m /\ i - 1 \in 1 .. m
      BY <3>1
    <3>3. ASSUME g[i - 1] \in Seq(S) PROVE FALSE
      <4>1. g[i - 1] \o t[i] \in Seq(S)
        BY <1>6, <3>3, ConcatProperties
      <4> QED
        BY <1>5, <3>2, <4>1
    <3> QED
      BY <3>2, <3>3
  <2>2. B \subseteq Nat
    OBVIOUS
  <2>3. B = {}
    <3> HIDE DEF B
    <3> QED
      BY <2>1, <2>2, NoFirst
  <2> QED
    BY <2>3
<1>8. CASE n = 0
  <2>1. s = <<>> /\ FlattenSeq(s) = <<>>
    <3>1. s = <<>>
      BY <1>1, <1>8, EmptySeq
    <3>2. FlattenSeq(s) = s
      BY <1>1, <1>8, FlattenSeqIs
    <3> QED
      BY <3>1, <3>2
  <2>2. CASE m = 1
    <3>1. t[1] \in Seq(S)
      BY <1>6, <2>2
    <3>2. <<>> \o t[1] = t[1]
      BY <3>1, ConcatEmptySeq
    <3> QED
      BY <1>2, <1>4, <1>5, <2>1, <2>2, <3>2, EmptySeq
  <2>3. CASE m # 1
    <3> DEFINE B == {i \in 1 .. m - 1 : g[i] # <<>>}
    <3>1. \A i \in B : i - 1 \in B
      <4> SUFFICES ASSUME NEW i \in 1 .. m - 1, g[i] # <<>>
                   PROVE  i - 1 \in 1 .. m - 1 /\ g[i - 1] # <<>>
        OBVIOUS
      <4>1. t[i] = <<>>
        BY <1>1, <1>2, <1>8
      <4>2. i # 1
        BY <1>5, <4>1
      <4>3. i \in 2 .. m /\ i - 1 \in 1 .. m - 1
        BY <4>2
      <4>4. g[i] = g[i - 1] \o <<>>
        BY <1>5, <4>1, <4>3
      <4>5. <<>> \o <<>> = <<>>
        BY EmptySeq, ConcatEmptySeq
      <4> QED
        BY <4>3, <4>4, <4>5
    <3>2. B \subseteq Nat
      OBVIOUS
    <3>3. B = {}
      <4> HIDE DEF B
      <4> QED
        BY <3>1, <3>2, NoFirst
    <3>4. m - 1 \in 1 .. m - 1 /\ m \in 2 .. m
      BY <1>3, <2>3
    <3>5. g[m - 1] = <<>> /\ g[m] = g[m - 1] \o t[m]
      BY <1>5, <3>3, <3>4
    <3> QED
      BY <1>2, <1>4, <2>1, <3>5, EmptySeq
  <2> QED
    BY <2>2, <2>3
<1>9. CASE n # 0
  <2>1. PICK f : Flattens(f, s, n) /\ FlattenSeq(s) = f[n]
    BY <1>1, <1>9, FlattenSeqIs
  <2>2. /\ f[1] = s[1]
        /\ \A i \in 2 .. n : f[i] = f[i - 1] \o s[i]
    <3>1. \A i \in 1 .. n : f[i] = IF i = 1 THEN s[i] ELSE f[i - 1] \o s[i]
      BY <2>1 DEF Flattens
    <3>2. 1 \in 1 .. n /\ \A i \in 2 .. n : i \in 1 .. n /\ i # 1
      BY <1>9
    <3> QED
      BY <3>1, <3>2
  <2>3. \A i \in 1 .. n : f[i] = g[i]
    <3> DEFINE B == {i \in 1 .. n : f[i] # g[i]}
    <3>1. \A i \in B : i - 1 \in B
      <4> SUFFICES ASSUME NEW i \in 1 .. n, f[i] # g[i]
                   PROVE  i - 1 \in 1 .. n /\ f[i - 1] # g[i - 1]
        OBVIOUS
      <4>1. t[i] = s[i]
        BY <1>1
      <4>2. i # 1
        BY <1>5, <2>2, <4>1
      <4>3. i \in 2 .. n /\ i \in 2 .. m /\ i - 1 \in 1 .. n
        BY <1>3, <4>2
      <4> QED
        BY <1>5, <2>2, <4>1, <4>3
    <3>2. B \subseteq Nat
      OBVIOUS
    <3>3. B = {}
      <4> HIDE DEF B
      <4> QED
        BY <3>1, <3>2, NoFirst
    <3> QED
      BY <3>3
  <2>4. n \in 1 .. n /\ n \in 1 .. m
    BY <1>3, <1>9
  <2>5. g[n] = FlattenSeq(s) /\ g[n] \in Seq(S)
    BY <1>7, <2>1, <2>3, <2>4
  <2>6. \A i \in n .. m - 1 : g[i] = g[n]
    <3> DEFINE B == {i \in n .. m - 1 : g[i] # g[n]}
    <3>1. \A i \in B : i - 1 \in B
      <4> SUFFICES ASSUME NEW i \in n .. m - 1, g[i] # g[n]
                   PROVE  i - 1 \in n .. m - 1 /\ g[i - 1] # g[n]
        OBVIOUS
      <4>1. i # n
        OBVIOUS
      <4>2. i - 1 \in n .. m - 1 /\ i \in n + 1 .. m - 1 /\ i \in 2 .. m /\ i - 1 \in 1 .. m
        BY <1>9, <4>1
      <4>3. t[i] = <<>>
        BY <1>1, <1>2, <4>2
      <4>4. g[i] = g[i - 1] \o <<>> /\ g[i - 1] \in Seq(S)
        BY <1>5, <1>7, <4>2, <4>3
      <4>5. g[i] = g[i - 1]
        BY <4>4, ConcatEmptySeq
      <4> QED
        BY <4>2, <4>5
    <3>2. B \subseteq Nat
      OBVIOUS
    <3>3. B = {}
      <4> HIDE DEF B
      <4> QED
        BY <3>1, <3>2, NoFirst
    <3> QED
      BY <3>3
  <2>7. m - 1 \in n .. m - 1 /\ m \in 2 .. m
    BY <1>3, <1>9
  <2>8. g[m] = g[n] \o t[m]
    BY <1>5, <2>6, <2>7
  <2> QED
    BY <1>2, <1>4, <2>5, <2>8
<1> QED
  BY <1>8, <1>9

----------------------------------------------------------------------------
(* Lines *)

\* The first newline of a message.
LEMMA FirstNewline ==
  ASSUME NEW raw
  PROVE  Stream!SelectInSeq(raw, Stream!IsNewline) = Position(raw, "nl")
BY DEF Stream!SelectInSeq, Stream!IsNewline, Position, Stream!Min, Min

\* Every line begins at the beginning or behind a newline.
LEMMA LineBegins ==
  ASSUME NEW S, NEW raw \in Seq(S), NEW e \in 1 .. Len(raw)
  PROVE  \E b \in 0 .. e - 1 :
           /\ b = 0 \/ raw[b] = "nl"
           /\ \A i \in b + 1 .. e - 1 : raw[i] # "nl"
<1> DEFINE D == {k \in 1 .. e - 1 : raw[e - k] = "nl"}
<1>1. e \in Nat /\ 1 <= e
  BY LenProperties
<1>2. CASE D = {}
  <2>1. \A i \in 1 .. e - 1 : raw[i] # "nl"
    <3> SUFFICES ASSUME NEW i \in 1 .. e - 1, raw[i] = "nl" PROVE FALSE
      OBVIOUS
    <3>1. e - i \in 1 .. e - 1 /\ e - (e - i) = i
      BY <1>1
    <3>2. raw[e - (e - i)] = "nl"
      BY <3>1
    <3>3. e - i \in D
      BY <3>1, <3>2
    <3> QED
      BY <1>2, <3>3
  <2>2. 0 \in 0 .. e - 1 /\ 0 + 1 = 1
    BY <1>1
  <2>3. \A i \in 0 + 1 .. e - 1 : raw[i] # "nl"
    BY <2>1, <2>2
  <2> QED
    BY <2>2, <2>3
<1>3. CASE D # {}
  <2>1. D \subseteq Nat
    OBVIOUS
  <2>2. PICK k \in D : \A j \in D : k <= j
    <3> HIDE DEF D
    <3> QED
      BY <1>3, <2>1, MinIsSmallest
  <2>3. e - k \in 0 .. e - 1 /\ raw[e - k] = "nl"
    BY <1>1
  <2>4. \A i \in e - k + 1 .. e - 1 : raw[i] # "nl"
    <3> SUFFICES ASSUME NEW i \in e - k + 1 .. e - 1, raw[i] = "nl" PROVE FALSE
      OBVIOUS
    <3>1. e - i \in 1 .. e - 1 /\ e - (e - i) = i /\ e - i < k
      BY <1>1
    <3>2. raw[e - (e - i)] = "nl"
      BY <3>1
    <3>3. e - i \in D
      BY <3>1, <3>2
    <3>4. k <= e - i
      BY <2>2, <3>3
    <3> QED
      BY <1>1, <3>1, <3>4
  <2> QED
    BY <2>3, <2>4
<1> QED
  BY <1>2, <1>3

\* The line between two newlines.
LEMMA LineIs ==
  ASSUME NEW S, NEW raw \in Seq(S), NEW e \in 1 .. Len(raw), NEW b \in 0 .. e - 1,
         b = 0 \/ raw[b] = "nl", \A i \in b + 1 .. e - 1 : raw[i] # "nl"
  PROVE  Stream!LineTo(raw, e) = Stream!Chomp(SubSeq(raw, b + 1, e - 1))
<1> DEFINE I == {i \in 1 .. e - 1 : raw[i] = "nl"}
<1> DEFINE before == IF I # {} THEN Max(I) ELSE 0
<1>1. e \in Nat /\ 1 <= e
  BY LenProperties
<1>2. \A i \in I : i <= b
  <2> SUFFICES ASSUME NEW i \in 1 .. e - 1, raw[i] = "nl", ~ (i <= b) PROVE FALSE
    OBVIOUS
  <2>1. i \in b + 1 .. e - 1
    BY <1>1
  <2> QED
    BY <2>1
<1>3. CASE b = 0
  <2>1. I = {}
    BY <1>1, <1>2, <1>3
  <2> QED
    BY <1>3, <2>1 DEF Stream!LineTo, Stream!SelectLastInSubSeq, Stream!IsNewline, Stream!Max, Max
<1>4. CASE b # 0
  <2>1. b \in I
    BY <1>1, <1>4
  <2>2. I \subseteq Nat
    OBVIOUS
  <2>3. Max(I) = b
    <3> HIDE DEF I
    <3>1. \A x \in I : (\A y \in I : x >= y) => x = b
      BY <1>2, <2>1, <2>2
    <3>2. b \in I /\ \A y \in I : b >= y
      BY <1>2, <2>1, <2>2
    <3> QED
      BY <3>1, <3>2 DEF Max
  <2> QED
    BY <2>1, <2>3 DEF Stream!LineTo, Stream!SelectLastInSubSeq, Stream!IsNewline, Stream!Max, Max
<1> QED
  BY <1>3, <1>4

\* A line depends on nothing behind it.
LEMMA LineOfPrefix ==
  ASSUME NEW S, NEW r \in Seq(S), NEW s \in Seq(S), NEW e \in 1 .. Len(r), e <= Len(s),
         \A i \in 1 .. e : r[i] = s[i]
  PROVE  Stream!LineTo(r, e) = Stream!LineTo(s, e)
<1>1. PICK b \in 0 .. e - 1 :
           /\ b = 0 \/ r[b] = "nl"
           /\ \A i \in b + 1 .. e - 1 : r[i] # "nl"
  BY LineBegins
<1>2. e \in Nat /\ 1 <= e /\ e \in 1 .. Len(s) /\ Len(r) \in Nat /\ Len(s) \in Nat
  BY LenProperties
<1>3. /\ b = 0 \/ s[b] = "nl"
      /\ \A i \in b + 1 .. e - 1 : s[i] # "nl"
  <2>1. b # 0 => b \in 1 .. e
    BY <1>2
  <2>2. \A i \in b + 1 .. e - 1 : i \in 1 .. e
    BY <1>2
  <2> QED
    BY <1>1, <2>1, <2>2
<1>4. SubSeq(r, b + 1, e - 1) = SubSeq(s, b + 1, e - 1)
  <2> DEFINE u == SubSeq(r, b + 1, e - 1)
             v == SubSeq(s, b + 1, e - 1)
  <2>2. b \in Nat /\ e - 1 \in Nat /\ b <= e - 1 /\ e - 1 <= Len(r) /\ e - 1 <= Len(s)
    BY <1>2
  <2>3. /\ u \in Seq(S) /\ Len(u) = e - 1 - b
        /\ \A i \in 1 .. e - 1 - b : u[i] = r[b + i]
    BY <2>2, PartOf
  <2>4. /\ v \in Seq(S) /\ Len(v) = e - 1 - b
        /\ \A i \in 1 .. e - 1 - b : v[i] = s[b + i]
    BY <2>2, PartOf
  <2> HIDE DEF u, v
  <2>5. \A i \in 1 .. e - 1 - b : b + i \in 1 .. e
    BY <1>2
  <2>6. \A i \in 1 .. Len(u) : u[i] = v[i]
    BY <2>3, <2>4, <2>5
  <2>7. Len(u) = Len(v)
    BY <2>3, <2>4
  <2>8. u = v
    BY <2>3, <2>4, <2>6, <2>7, SeqEqual
  <2> QED
    BY <2>8 DEF u, v
<1> QED
  BY <1>1, <1>2, <1>3, <1>4, LineIs

\* A line without its carriage return is a sequence of the same units.
LEMMA ChompType ==
  ASSUME NEW S, NEW l \in Seq(S)
  PROVE  Stream!Chomp(l) \in Seq(S)
<1>1. Len(l) \in Nat
  BY LenProperties
<1>2. CASE l # <<>>
  <2>1. Len(l) - 1 \in 0 .. Len(l)
    BY <1>1, <1>2, EmptySeq
  <2>2. SubSeq(l, 1, Len(l) - 1) \in Seq(S)
    BY <2>1, PrefixOf
  <2> QED
    BY <2>2 DEF Stream!Chomp, Stream!Front
<1> QED
  BY <1>2 DEF Stream!Chomp

\* So is the line that a newline ends.
LEMMA LineType ==
  ASSUME NEW S, NEW raw \in Seq(S), NEW e \in 1 .. Len(raw)
  PROVE  Stream!LineTo(raw, e) \in Seq(S)
<1>1. PICK b \in 0 .. e - 1 :
           /\ b = 0 \/ raw[b] = "nl"
           /\ \A i \in b + 1 .. e - 1 : raw[i] # "nl"
  BY LineBegins
<1>2. b \in Nat /\ e - 1 \in Nat /\ b <= e - 1 /\ e - 1 <= Len(raw)
  BY LenProperties
<1>3. SubSeq(raw, b + 1, e - 1) \in Seq(S)
  BY <1>2, PartOf
<1> QED
  BY <1>1, <1>3, LineIs, ChompType

----------------------------------------------------------------------------
(* Blocks *)

\* What listen() has gathered of a block: whole lines, of which the first opens
\* it and no other ends it.
Block(raw) ==
  /\ raw # <<>> /\ raw[Len(raw)] = "nl"
  /\ Stream!Opens(Stream!LineTo(raw, Position(raw, "nl")))
  /\ \A e \in Position(raw, "nl") + 1 .. Len(raw) :
       raw[e] = "nl" => ~Stream!EndsBlock(Stream!LineTo(raw, e))

\* The text of a line in the middle of a block.
Piece(raw, e) ==
  IF e > Position(raw, "nl") /\ Stream!Closes(Stream!LineTo(raw, e))
    THEN Stream!LineTo(raw, e)
    ELSE Append(Stream!LineTo(raw, e), "nl")

\* The parts of the text of such lines.
Pieces(raw) == [e \in 1 .. Len(raw) |-> IF raw[e] = "nl" THEN Piece(raw, e) ELSE <<>>]

\* One line, as it was read.
IsLine(t) ==
  Len(t) # 0 /\ t[Len(t)] = "nl" /\ \A i \in 1 .. Len(t) - 1 : t[i] # "nl"

\* raw is the lines r, and behind them the line t.
Extends(raw, r, t) ==
  /\ raw # <<>> /\ Len(raw) = Len(r) + Len(t) /\ raw[Len(r) + Len(t)] = "nl"
  /\ \A e \in 1 .. Len(r) : /\ raw[e] = r[e]
                            /\ Stream!LineTo(raw, e) = Stream!LineTo(r, e)
  /\ \A e \in Len(r) + 1 .. Len(r) + Len(t) - 1 : raw[e] # "nl"
  /\ Stream!LineTo(raw, Len(r) + Len(t)) = Stream!Chomp(SubSeq(t, 1, Len(t) - 1))
  /\ r = <<>> => Position(raw, "nl") = Len(t)
  /\ r # <<>> => /\ Position(raw, "nl") = Position(r, "nl")
                 /\ Position(r, "nl") \in 1 .. Len(r)
                 /\ r[Position(r, "nl")] = "nl"

\* A line that is added to whole lines changes none of them.
LEMMA LineAdded ==
  ASSUME NEW S, NEW r \in Seq(S), NEW t \in Seq(S), r = <<>> \/ r[Len(r)] = "nl", IsLine(t)
  PROVE  Extends(r \o t, r, t)
<1> DEFINE raw == r \o t
<1>1. PICK n \in Nat : n = Len(r)
  BY LenProperties
<1>2. PICK m \in Nat : m = Len(t)
  BY LenProperties
<1>3. m >= 1 /\ t[m] = "nl" /\ \A i \in 1 .. m - 1 : t[i] # "nl"
  BY <1>2 DEF IsLine
<1>4. raw \in Seq(S) /\ Len(raw) = n + m
  BY <1>1, <1>2, ConcatProperties
<1>5. \A i \in 1 .. n + m : raw[i] = IF i <= n THEN r[i] ELSE t[i - n]
  BY <1>1, <1>2, ConcatProperties
<1> HIDE DEF raw
<1>6. \A e \in 1 .. n : raw[e] = r[e]
  BY <1>5
<1>7. \A j \in 1 .. m : raw[n + j] = t[j]
  <2> SUFFICES ASSUME NEW j \in 1 .. m PROVE raw[n + j] = t[j]
    OBVIOUS
  <2>1. n + j \in 1 .. n + m /\ ~ (n + j <= n) /\ n + j - n = j
    OBVIOUS
  <2> QED
    BY <1>5, <2>1
<1>8. raw[n + m] = "nl"
  BY <1>2, <1>3, <1>7
<1>9. \A e \in n + 1 .. n + m - 1 : raw[e] # "nl"
  <2> SUFFICES ASSUME NEW e \in n + 1 .. n + m - 1 PROVE raw[e] # "nl"
    OBVIOUS
  <2>1. e - n \in 1 .. m - 1 /\ e - n \in 1 .. m /\ n + (e - n) = e
    OBVIOUS
  <2>2. raw[n + (e - n)] = t[e - n]
    BY <1>7, <2>1
  <2> QED
    BY <1>3, <2>1, <2>2
<1>10. \A e \in 1 .. n : Stream!LineTo(raw, e) = Stream!LineTo(r, e)
  <2> SUFFICES ASSUME NEW e \in 1 .. n PROVE Stream!LineTo(raw, e) = Stream!LineTo(r, e)
    OBVIOUS
  <2>1. e \in 1 .. Len(r) /\ e <= Len(raw) /\ \A i \in 1 .. e : r[i] = raw[i]
    BY <1>1, <1>4, <1>6
  <2> QED
    BY <1>4, <2>1, LineOfPrefix
<1>11. Stream!LineTo(raw, n + m) = Stream!Chomp(SubSeq(t, 1, m - 1))
  <2>1. n + m \in 1 .. Len(raw) /\ n \in 0 .. n + m - 1
    BY <1>3, <1>4
  <2>2. n = 0 \/ raw[n] = "nl"
    <3>1. n # 0 => r # <<>> /\ n \in 1 .. n
      BY <1>1, EmptySeq
    <3> QED
      BY <1>1, <1>6, <3>1
  <2>3. Stream!LineTo(raw, n + m) = Stream!Chomp(SubSeq(raw, n + 1, n + m - 1))
    <3>1. PICK e \in 1 .. Len(raw) : e = n + m
      BY <2>1
    <3>2. n \in 0 .. e - 1 /\ \A i \in n + 1 .. e - 1 : raw[i] # "nl"
      BY <1>9, <2>1, <3>1
    <3>3. Stream!LineTo(raw, e) = Stream!Chomp(SubSeq(raw, n + 1, e - 1))
      BY <1>4, <2>2, <3>2, LineIs
    <3> QED
      BY <3>1, <3>3
  <2>4. PICK k \in Nat : k = n + m - 1
    BY <1>3
  <2> DEFINE u == SubSeq(raw, n + 1, k)
             v == SubSeq(t, 1, m - 1)
  <2>5. n <= k /\ k <= Len(raw) /\ m - 1 \in 0 .. Len(t) /\ k - n = m - 1
    BY <1>2, <1>3, <1>4, <2>4
  <2>6. u \in Seq(S) /\ Len(u) = k - n /\ \A i \in 1 .. k - n : u[i] = raw[n + i]
    BY <1>4, <2>5, PartOf
  <2>7. v \in Seq(S) /\ Len(v) = m - 1 /\ \A i \in 1 .. m - 1 : v[i] = t[i]
    BY <2>5, PrefixOf
  <2> HIDE DEF u, v
  <2>8. \A i \in 1 .. m - 1 : u[i] = v[i]
    <3>1. \A i \in 1 .. m - 1 : i \in 1 .. m
      OBVIOUS
    <3> QED
      BY <1>7, <2>5, <2>6, <2>7, <3>1
  <2>9. u = v
    BY <2>5, <2>6, <2>7, <2>8, SeqEqual
  <2> QED
    BY <2>3, <2>4, <2>9 DEF u, v
<1>12. ASSUME r = <<>> PROVE Position(raw, "nl") = m
  <2>1. n = 0
    BY <1>1, <1>12, EmptySeq
  <2>2. m \in 1 .. Len(raw) /\ raw[m] = "nl"
    BY <1>3, <1>4, <1>8, <2>1
  <2>3. /\ Position(raw, "nl") \in 1 .. Len(raw) /\ raw[Position(raw, "nl")] = "nl"
        /\ Position(raw, "nl") <= m
    BY <1>4, <2>2, PositionOf
  <2>4. Position(raw, "nl") \notin 1 .. m - 1
    BY <1>9, <2>1, <2>3
  <2> QED
    BY <1>4, <2>3, <2>4
<1>13. ASSUME r # <<>>
       PROVE  /\ Position(raw, "nl") = Position(r, "nl")
              /\ Position(r, "nl") \in 1 .. n
              /\ r[Position(r, "nl")] = "nl"
  <2>1. n \in 1 .. Len(r) /\ r[n] = "nl"
    BY <1>1, <1>13, EmptySeq
  <2>2. PICK p \in 1 .. n : /\ p = Position(r, "nl") /\ r[p] = "nl"
                            /\ \A j \in 1 .. n : r[j] = "nl" => p <= j
    <3>1. /\ Position(r, "nl") \in 1 .. Len(r) /\ r[Position(r, "nl")] = "nl"
          /\ \A j \in 1 .. Len(r) : r[j] = "nl" => Position(r, "nl") <= j
      BY <2>1, PositionOf
    <3> QED
      BY <1>1, <3>1
  <2>3. p \in 1 .. Len(raw) /\ raw[p] = "nl"
    BY <1>4, <1>6, <2>2
  <2>4. PICK q \in 1 .. n + m : /\ q = Position(raw, "nl") /\ raw[q] = "nl"
                                /\ \A j \in 1 .. n + m : raw[j] = "nl" => q <= j
    <3>1. /\ Position(raw, "nl") \in 1 .. Len(raw) /\ raw[Position(raw, "nl")] = "nl"
          /\ \A j \in 1 .. Len(raw) : raw[j] = "nl" => Position(raw, "nl") <= j
      BY <1>4, <2>3, PositionOf
    <3> QED
      BY <1>4, <3>1
  <2>5. q <= p /\ q \in 1 .. n
    BY <1>4, <2>3, <2>4
  <2>6. p <= q
    BY <1>6, <2>2, <2>4, <2>5
  <2> QED
    BY <2>2, <2>4, <2>5, <2>6
<1>14. raw # <<>>
  BY <1>3, <1>4, EmptySeq
<1> QED
  BY <1>1, <1>2, <1>4, <1>6, <1>8, <1>9, <1>10, <1>11, <1>12, <1>13, <1>14 DEF raw, Extends

\* The pieces of a text are sequences of units.
LEMMA PiecesType ==
  ASSUME NEW S, NEW r \in Seq(S), "nl" \in S
  PROVE  /\ Pieces(r) \in Seq(Seq(S)) /\ Len(Pieces(r)) = Len(r)
         /\ \A e \in 1 .. Len(r) :
              Pieces(r)[e] = IF r[e] = "nl" THEN Piece(r, e) ELSE <<>>
<1>1. PICK n \in Nat : n = Len(r)
  BY LenProperties
<1>2. \A e \in 1 .. n : Piece(r, e) \in Seq(S)
  <2> SUFFICES ASSUME NEW e \in 1 .. n PROVE Piece(r, e) \in Seq(S)
    OBVIOUS
  <2>1. Stream!LineTo(r, e) \in Seq(S)
    BY <1>1, LineType
  <2>2. Append(Stream!LineTo(r, e), "nl") \in Seq(S)
    BY <2>1, AppendProperties
  <2> QED
    BY <2>1, <2>2 DEF Piece
<1>3. <<>> \in Seq(S)
  BY EmptySeq
<1>4. Pieces(r) = [e \in 1 .. n |-> IF r[e] = "nl" THEN Piece(r, e) ELSE <<>>]
  BY <1>1 DEF Pieces
<1>5. Pieces(r) \in [1 .. n -> Seq(S)]
  BY <1>2, <1>3, <1>4
<1>6. Pieces(r) \in Seq(Seq(S)) /\ Len(Pieces(r)) = n
  BY <1>5, FunctionIsSeq
<1> QED
  BY <1>1, <1>4, <1>6

\* A line that does not end the block makes it longer, and its text too.
LEMMA BlockGrows ==
  ASSUME NEW S, "nl" \in S, NEW r \in Seq(S), NEW t \in Seq(S), NEW l,
         IsLine(t), l = Stream!Chomp(SubSeq(t, 1, Len(t) - 1)),
         IF r = <<>> THEN Stream!Opens(l) ELSE Block(r) /\ ~Stream!EndsBlock(l)
  PROVE  /\ Block(r \o t)
         /\ FlattenSeq(Pieces(r \o t)) = FlattenSeq(Pieces(r)) \o
              (IF r # <<>> /\ Stream!Closes(l) THEN l ELSE Append(l, "nl"))
<1> DEFINE raw == r \o t
           added == IF r # <<>> /\ Stream!Closes(l) THEN l ELSE Append(l, "nl")
<1>1. PICK n \in Nat : n = Len(r)
  BY LenProperties
<1>2. PICK m \in Nat : m = Len(t)
  BY LenProperties
<1>3. r = <<>> \/ r[Len(r)] = "nl"
  BY DEF Block
<1>4. /\ raw \in Seq(S) /\ raw # <<>> /\ Len(raw) = n + m
      /\ raw[n + m] = "nl"
      /\ \A e \in 1 .. n : raw[e] = r[e] /\ Stream!LineTo(raw, e) = Stream!LineTo(r, e)
      /\ \A e \in n + 1 .. n + m - 1 : raw[e] # "nl"
      /\ Stream!LineTo(raw, n + m) = l
      /\ r = <<>> => Position(raw, "nl") = m
      /\ r # <<>> => /\ Position(raw, "nl") = Position(r, "nl")
                     /\ Position(r, "nl") \in 1 .. n
                     /\ r[Position(r, "nl")] = "nl"
  <2>1. Extends(raw, r, t)
    BY <1>3, LineAdded
  <2>2. raw \in Seq(S)
    BY ConcatProperties
  <2> HIDE DEF raw
  <2> QED
    BY <1>1, <1>2, <2>1, <2>2 DEF Extends
<1> HIDE DEF raw, added
<1>5. r = <<>> => n = 0
  BY <1>1, EmptySeq
<1>6. m # 0 /\ n + m \in 1 .. n + m
  BY <1>2 DEF IsLine
<1>7. Block(raw)
  <2>1. CASE r = <<>>
    <3>1. n + m = Position(raw, "nl")
      BY <1>4, <1>5, <2>1
    <3>2. Stream!Opens(Stream!LineTo(raw, Position(raw, "nl")))
      BY <1>4, <2>1, <3>1
    <3> QED
      BY <1>4, <3>1, <3>2 DEF Block
  <2>2. CASE r # <<>>
    <3>1. PICK p \in 1 .. n : p = Position(r, "nl") /\ p = Position(raw, "nl")
      BY <1>4, <2>2
    <3>2. /\ Stream!Opens(Stream!LineTo(r, p))
          /\ \A e \in p + 1 .. n : r[e] = "nl" => ~Stream!EndsBlock(Stream!LineTo(r, e))
      BY <1>1, <2>2, <3>1 DEF Block
    <3>3. ASSUME NEW e \in p + 1 .. n + m, raw[e] = "nl"
          PROVE  ~Stream!EndsBlock(Stream!LineTo(raw, e))
      <4>1. CASE e \in 1 .. n
        <5>1. e \in p + 1 .. n
          BY <4>1
        <5> QED
          BY <1>4, <3>2, <3>3, <4>1, <5>1
      <4>2. CASE e = n + m
        BY <1>4, <2>2, <4>2
      <4>3. e \in 1 .. n \/ e \in n + 1 .. n + m - 1 \/ e = n + m
        OBVIOUS
      <4> QED
        BY <1>4, <3>3, <4>1, <4>2, <4>3
    <3>4. Stream!Opens(Stream!LineTo(raw, p))
      BY <1>4, <3>2
    <3> QED
      BY <1>4, <3>1, <3>3, <3>4 DEF Block
  <2> QED
    BY <2>1, <2>2
<1>8. /\ Pieces(r) \in Seq(Seq(S)) /\ Len(Pieces(r)) = n
      /\ \A e \in 1 .. n : Pieces(r)[e] = IF r[e] = "nl" THEN Piece(r, e) ELSE <<>>
  BY <1>1, PiecesType
<1>9. /\ Pieces(raw) \in Seq(Seq(S)) /\ Len(Pieces(raw)) = n + m
      /\ \A e \in 1 .. n + m : Pieces(raw)[e] = IF raw[e] = "nl" THEN Piece(raw, e) ELSE <<>>
  BY <1>4, PiecesType
<1>10. \A e \in 1 .. n : Pieces(raw)[e] = Pieces(r)[e]
  <2> SUFFICES ASSUME NEW e \in 1 .. n PROVE Pieces(raw)[e] = Pieces(r)[e]
    OBVIOUS
  <2>1. r # <<>> /\ e \in 1 .. n + m
    BY <1>5
  <2>2. Piece(raw, e) = Piece(r, e)
    <3>1. /\ Position(raw, "nl") = Position(r, "nl")
          /\ Stream!LineTo(raw, e) = Stream!LineTo(r, e)
      BY <1>4, <2>1
    <3> QED
      BY <3>1 DEF Piece
  <2>3. Pieces(r)[e] = IF r[e] = "nl" THEN Piece(r, e) ELSE <<>>
    BY <1>8
  <2>4. Pieces(raw)[e] = IF r[e] = "nl" THEN Piece(raw, e) ELSE <<>>
    BY <1>4, <1>9, <2>1
  <2> QED
    BY <2>2, <2>3, <2>4
<1>11. \A e \in n + 1 .. n + m - 1 : Pieces(raw)[e] = <<>>
  <2> SUFFICES ASSUME NEW e \in n + 1 .. n + m - 1 PROVE Pieces(raw)[e] = <<>>
    OBVIOUS
  <2>1. e \in 1 .. n + m
    OBVIOUS
  <2>2. raw[e] # "nl"
    BY <1>4
  <2> QED
    BY <1>9, <2>1, <2>2
<1>12. Pieces(raw)[n + m] = added
  <2>1. r # <<>> <=> n + m > Position(raw, "nl")
    <3>1. CASE r = <<>>
      BY <1>4, <1>5, <3>1
    <3>2. CASE r # <<>>
      <4>1. PICK p \in 1 .. n : p = Position(raw, "nl")
        BY <1>4, <3>2
      <4> QED
        BY <1>6, <3>2, <4>1
    <3> QED
      BY <3>1, <3>2
  <2>2. Piece(raw, n + m) = added
    BY <1>4, <2>1 DEF Piece, added
  <2> QED
    BY <1>4, <1>6, <1>9, <2>2
<1>13. FlattenSeq(Pieces(raw)) = FlattenSeq(Pieces(r)) \o added
  <2> DEFINE s == Pieces(r)
             u == Pieces(raw)
  <2>1. /\ s \in Seq(Seq(S)) /\ u \in Seq(Seq(S)) /\ Len(u) = n + m /\ Len(s) = n
        /\ \A i \in 1 .. n : u[i] = s[i]
        /\ \A i \in n + 1 .. n + m - 1 : u[i] = <<>>
        /\ u[n + m] = added
    BY <1>8, <1>9, <1>10, <1>11, <1>12
  <2> HIDE DEF s, u
  <2>3. Len(s) < Len(u)
    BY <1>6, <2>1
  <2>4. \A i \in 1 .. Len(s) : u[i] = s[i]
    BY <2>1
  <2>5. \A i \in Len(s) + 1 .. Len(u) - 1 : u[i] = <<>>
    BY <2>1
  <2>2. FlattenSeq(u) = FlattenSeq(s) \o u[Len(u)]
    BY <2>1, <2>3, <2>4, <2>5, FlattenExtend
  <2> QED
    BY <2>1, <2>2 DEF s, u
<1> QED
  BY <1>7, <1>13 DEF raw, added

\* Nothing gathered yet: no text.
LEMMA NoPieces == FlattenSeq(Pieces(<<>>)) = <<>>
<1> DEFINE s == Pieces(<<>>)
<1>1. s \in Seq(Seq({"nl"})) /\ Len(s) = 0
  BY PiecesType, EmptySeq
<1> HIDE DEF s
<1>2. s = <<>> /\ FlattenSeq(s) = s
  BY <1>1, EmptySeq, FlattenSeqIs
<1> QED
  BY <1>2 DEF s

\* A message of the stream, in terms of its first newline.
LEMMA IsMessageIs ==
  ASSUME NEW raw
  PROVE  Stream!IsMessage(raw) <=>
           /\ raw # <<>> /\ raw[Len(raw)] = "nl"
           /\ LET first == Position(raw, "nl")
              IN  IF Stream!Opens(Stream!LineTo(raw, first))
                    THEN /\ first < Len(raw)
                         /\ \A e \in first + 1 .. Len(raw) :
                              raw[e] = "nl" =>
                                (Stream!EndsBlock(Stream!LineTo(raw, e)) <=> e = Len(raw))
                    ELSE first = Len(raw)
BY FirstNewline DEF Stream!IsMessage, Stream!Last

\* The parts that Text joins.
Joints(raw) ==
  [e \in 1 .. Len(raw) |->
     IF raw[e] = "nl"
       THEN IF e = Len(raw) THEN Stream!LineTo(raw, e) ELSE Piece(raw, e)
       ELSE <<>>]

\* The text of a message joins these parts.
LEMMA TextIs ==
  ASSUME NEW raw
  PROVE  Stream!Text(raw) = Stream!FlattenSeq(Joints(raw))
<1> DEFINE first == Stream!SelectInSeq(raw, Stream!IsNewline)
           T(e) == IF e = Len(raw) \/ (e > first /\ Stream!Closes(Stream!LineTo(raw, e)))
                     THEN Stream!LineTo(raw, e) ELSE Append(Stream!LineTo(raw, e), "nl")
<1>1. \A e \in 1 .. Len(raw) :
        T(e) = IF e = Len(raw) THEN Stream!LineTo(raw, e) ELSE Piece(raw, e)
  <2>1. first = Position(raw, "nl")
    BY FirstNewline
  <2> HIDE DEF first
  <2> QED
    BY <2>1 DEF Piece
<1>2. Stream!Text(raw) =
        Stream!FlattenSeq([e \in 1 .. Len(raw) |-> IF raw[e] = "nl" THEN T(e) ELSE <<>>])
  BY DEF Stream!Text
<1> HIDE DEF T
<1>3. [e \in 1 .. Len(raw) |-> IF raw[e] = "nl" THEN T(e) ELSE <<>>] = Joints(raw)
  BY <1>1 DEF Joints
<1> QED
  BY <1>2, <1>3

\* A line that ends the block completes the message, and so does a line that
\* opens none.
LEMMA MessageDone ==
  ASSUME NEW S, "nl" \in S, NEW r \in Seq(S), NEW t \in Seq(S), NEW l,
         IsLine(t), l = Stream!Chomp(SubSeq(t, 1, Len(t) - 1)),
         IF r = <<>> THEN ~Stream!Opens(l) ELSE Block(r) /\ Stream!EndsBlock(l)
  PROVE  /\ Stream!IsMessage(r \o t)
         /\ Stream!Text(r \o t) = FlattenSeq(Pieces(r)) \o l
<1> DEFINE raw == r \o t
<1>1. PICK n \in Nat : n = Len(r)
  BY LenProperties
<1>2. PICK m \in Nat : m = Len(t)
  BY LenProperties
<1>3. r = <<>> \/ r[Len(r)] = "nl"
  BY DEF Block
<1>4. /\ raw \in Seq(S) /\ raw # <<>> /\ Len(raw) = n + m
      /\ raw[n + m] = "nl"
      /\ \A e \in 1 .. n : raw[e] = r[e] /\ Stream!LineTo(raw, e) = Stream!LineTo(r, e)
      /\ \A e \in n + 1 .. n + m - 1 : raw[e] # "nl"
      /\ Stream!LineTo(raw, n + m) = l
      /\ r = <<>> => Position(raw, "nl") = m
      /\ r # <<>> => /\ Position(raw, "nl") = Position(r, "nl")
                     /\ Position(r, "nl") \in 1 .. n
                     /\ r[Position(r, "nl")] = "nl"
  <2>1. Extends(raw, r, t)
    BY <1>3, LineAdded
  <2>2. raw \in Seq(S)
    BY ConcatProperties
  <2> HIDE DEF raw
  <2> QED
    BY <1>1, <1>2, <2>1, <2>2 DEF Extends
<1> HIDE DEF raw
<1>5. r = <<>> => n = 0
  BY <1>1, EmptySeq
<1>6. m # 0 /\ n + m \in 1 .. n + m
  BY <1>2 DEF IsLine
<1>7. Stream!IsMessage(raw)
  <2>1. CASE r = <<>>
    <3>1. n + m = Position(raw, "nl")
      BY <1>4, <1>5, <2>1
    <3>2. ~Stream!Opens(Stream!LineTo(raw, Position(raw, "nl")))
      BY <1>4, <2>1, <3>1
    <3> QED
      BY <1>4, <3>1, <3>2, IsMessageIs
  <2>2. CASE r # <<>>
    <3>1. PICK p \in 1 .. n : p = Position(r, "nl") /\ p = Position(raw, "nl")
      BY <1>4, <2>2
    <3>2. /\ Stream!Opens(Stream!LineTo(r, p))
          /\ \A e \in p + 1 .. n : r[e] = "nl" => ~Stream!EndsBlock(Stream!LineTo(r, e))
      BY <1>1, <2>2, <3>1 DEF Block
    <3>3. ASSUME NEW e \in p + 1 .. n + m, raw[e] = "nl"
          PROVE  Stream!EndsBlock(Stream!LineTo(raw, e)) <=> e = n + m
      <4>1. CASE e \in 1 .. n
        <5>1. e \in p + 1 .. n /\ e # n + m
          BY <1>6, <4>1
        <5> QED
          BY <1>4, <3>2, <3>3, <4>1, <5>1
      <4>2. CASE e = n + m
        BY <1>4, <2>2, <4>2
      <4>3. e \in 1 .. n \/ e \in n + 1 .. n + m - 1 \/ e = n + m
        OBVIOUS
      <4> QED
        BY <1>4, <3>3, <4>1, <4>2, <4>3
    <3>4. Stream!Opens(Stream!LineTo(raw, p)) /\ p < n + m
      BY <1>4, <1>6, <3>2
    <3> QED
      BY <1>4, <3>1, <3>3, <3>4, IsMessageIs
  <2> QED
    BY <2>1, <2>2
<1>8. /\ Pieces(r) \in Seq(Seq(S)) /\ Len(Pieces(r)) = n
      /\ \A e \in 1 .. n : Pieces(r)[e] = IF r[e] = "nl" THEN Piece(r, e) ELSE <<>>
  BY <1>1, PiecesType
<1>9. /\ Joints(raw) \in Seq(Seq(S)) /\ Len(Joints(raw)) = n + m
      /\ \A e \in 1 .. n + m :
           Joints(raw)[e] = IF raw[e] = "nl"
                              THEN IF e = n + m THEN Stream!LineTo(raw, e) ELSE Piece(raw, e)
                              ELSE <<>>
  <2>1. \A e \in 1 .. n + m : /\ Stream!LineTo(raw, e) \in Seq(S)
                              /\ raw[e] = "nl" => Piece(raw, e) \in Seq(S)
    <3> SUFFICES ASSUME NEW e \in 1 .. n + m
                 PROVE  /\ Stream!LineTo(raw, e) \in Seq(S)
                        /\ raw[e] = "nl" => Piece(raw, e) \in Seq(S)
      OBVIOUS
    <3>1. Stream!LineTo(raw, e) \in Seq(S)
      BY <1>4, LineType
    <3>2. Append(Stream!LineTo(raw, e), "nl") \in Seq(S)
      BY <3>1, AppendProperties
    <3> QED
      BY <3>1, <3>2 DEF Piece
  <2>2. <<>> \in Seq(S)
    BY EmptySeq
  <2>3. Joints(raw) =
          [e \in 1 .. n + m |->
             IF raw[e] = "nl"
               THEN IF e = n + m THEN Stream!LineTo(raw, e) ELSE Piece(raw, e)
               ELSE <<>>]
    BY <1>4 DEF Joints
  <2>4. Joints(raw) \in [1 .. n + m -> Seq(S)]
    BY <2>1, <2>2, <2>3
  <2>5. Joints(raw) \in Seq(Seq(S)) /\ Len(Joints(raw)) = n + m
    BY <2>4, FunctionIsSeq
  <2> QED
    BY <2>3, <2>5
<1>10. \A e \in 1 .. n : Joints(raw)[e] = Pieces(r)[e]
  <2> SUFFICES ASSUME NEW e \in 1 .. n PROVE Joints(raw)[e] = Pieces(r)[e]
    OBVIOUS
  <2>1. r # <<>> /\ e \in 1 .. n + m /\ e # n + m
    BY <1>5, <1>6
  <2>2. Piece(raw, e) = Piece(r, e)
    <3>1. /\ Position(raw, "nl") = Position(r, "nl")
          /\ Stream!LineTo(raw, e) = Stream!LineTo(r, e)
      BY <1>4, <2>1
    <3> QED
      BY <3>1 DEF Piece
  <2>3. Pieces(r)[e] = IF r[e] = "nl" THEN Piece(r, e) ELSE <<>>
    BY <1>8
  <2>4. Joints(raw)[e] = IF r[e] = "nl" THEN Piece(raw, e) ELSE <<>>
    BY <1>4, <1>9, <2>1
  <2> QED
    BY <2>2, <2>3, <2>4
<1>11. \A e \in n + 1 .. n + m - 1 : Joints(raw)[e] = <<>>
  <2> SUFFICES ASSUME NEW e \in n + 1 .. n + m - 1 PROVE Joints(raw)[e] = <<>>
    OBVIOUS
  <2>1. e \in 1 .. n + m
    OBVIOUS
  <2>2. raw[e] # "nl"
    BY <1>4
  <2> QED
    BY <1>9, <2>1, <2>2
<1>12. Joints(raw)[n + m] = l
  BY <1>4, <1>6, <1>9
<1>13. Stream!FlattenSeq(Joints(raw)) = FlattenSeq(Pieces(r)) \o l
  <2> DEFINE s == Pieces(r)
             u == Joints(raw)
  <2>1. /\ s \in Seq(Seq(S)) /\ u \in Seq(Seq(S)) /\ Len(u) = n + m /\ Len(s) = n
        /\ \A i \in 1 .. n : u[i] = s[i]
        /\ \A i \in n + 1 .. n + m - 1 : u[i] = <<>>
        /\ u[n + m] = l
    BY <1>8, <1>9, <1>10, <1>11, <1>12
  <2> HIDE DEF s, u
  <2>2. /\ Len(s) < Len(u)
        /\ \A i \in 1 .. Len(s) : u[i] = s[i]
        /\ \A i \in Len(s) + 1 .. Len(u) - 1 : u[i] = <<>>
    BY <1>6, <2>1
  <2>3. Stream!FlattenSeq(u) = FlattenSeq(s) \o u[Len(u)]
    BY <2>1, <2>2, FlattenExtend
  <2> QED
    BY <2>1, <2>3 DEF s, u
<1> QED
  BY <1>7, <1>13, TextIs DEF raw

\* A block that has not ended has no message at its beginning.
LEMMA BlockHasNoMessage ==
  ASSUME NEW S, NEW r \in Seq(S), Block(r), NEW e \in 1 .. Len(r)
  PROVE  ~Stream!IsMessage(SubSeq(r, 1, e))
<1> DEFINE u == SubSeq(r, 1, e)
<1> SUFFICES ASSUME Stream!IsMessage(u) PROVE FALSE
  OBVIOUS
<1>1. PICK n \in Nat : n = Len(r)
  BY LenProperties
<1>2. u \in Seq(S) /\ Len(u) = e /\ \A i \in 1 .. e : u[i] = r[i]
  <2>1. e \in 0 .. Len(r)
    BY <1>1
  <2> QED
    BY <2>1, PrefixOf
<1> HIDE DEF u
<1>3. \A i \in 1 .. e : Stream!LineTo(u, i) = Stream!LineTo(r, i)
  <2> SUFFICES ASSUME NEW i \in 1 .. e PROVE Stream!LineTo(u, i) = Stream!LineTo(r, i)
    OBVIOUS
  <2>1. i \in 1 .. Len(u) /\ i <= Len(r) /\ \A j \in 1 .. i : u[j] = r[j]
    BY <1>1, <1>2
  <2> QED
    BY <1>2, <2>1, LineOfPrefix
<1>4. u[e] = "nl" /\ e \in 1 .. e
  BY <1>1, <1>2, IsMessageIs
<1>5. PICK q \in 1 .. e : /\ q = Position(u, "nl") /\ u[q] = "nl"
                          /\ \A j \in 1 .. e : u[j] = "nl" => q <= j
  BY <1>2, <1>4, FirstPosition
<1>6. q \in 1 .. n /\ r[q] = "nl"
  BY <1>1, <1>2, <1>5
<1>7. PICK p \in 1 .. n : /\ p = Position(r, "nl") /\ r[p] = "nl"
                          /\ \A j \in 1 .. n : r[j] = "nl" => p <= j
  BY <1>1, <1>6, FirstPosition
<1>8. p = q
  <2>1. p <= q
    BY <1>6, <1>7
  <2>2. p \in 1 .. e /\ u[p] = "nl"
    BY <1>2, <1>7, <2>1
  <2> QED
    BY <1>5, <2>1, <2>2
<1>9. /\ Stream!Opens(Stream!LineTo(u, q))
      /\ \A i \in q + 1 .. n : r[i] = "nl" => ~Stream!EndsBlock(Stream!LineTo(r, i))
  BY <1>1, <1>3, <1>7, <1>8 DEF Block
<1>10. q < e /\ Stream!EndsBlock(Stream!LineTo(u, e))
  <2>1. /\ q < Len(u)
        /\ \A i \in q + 1 .. Len(u) : u[i] = "nl" =>
             (Stream!EndsBlock(Stream!LineTo(u, i)) <=> i = Len(u))
    BY <1>5, <1>9, IsMessageIs
  <2>2. q < e /\ e \in q + 1 .. e
    BY <1>2, <2>1
  <2> QED
    BY <1>2, <1>4, <2>1, <2>2
<1>11. e \in q + 1 .. n /\ r[e] = "nl"
  BY <1>1, <1>2, <1>4, <1>10
<1> QED
  BY <1>3, <1>4, <1>9, <1>10, <1>11

----------------------------------------------------------------------------
(* One turn of the loop *)

\* The line that a turn of the loop takes off buf.
LEMMA TakenFacts ==
  ASSUME TypeOK, ~Blocked
  PROVE  /\ LineEnd \in 1 .. Len(buf) /\ "nl" \in Units
         /\ Taken \in Seq(Units) /\ Len(Taken) = LineEnd /\ Taken[LineEnd] = "nl"
         /\ \A i \in 1 .. LineEnd - 1 : Taken[i] # "nl"
         /\ \A i \in 1 .. LineEnd : Taken[i] = buf[i]
         /\ currentLine \in Seq(Units)
         /\ currentLine = Stream!Chomp(SubSeq(Taken, 1, LineEnd - 1))
<1>1. buf \in Seq(Units)
  BY DEF TypeOK
<1>2. PICK n \in Nat : n = Len(buf)
  BY <1>1, LenProperties
<1>3. LineEnd = Position(buf, "nl")
  BY DEF LineEnd, SelectInSeq, Position
<1>4. PICK j \in 1 .. n : buf[j] = "nl"
  BY <1>2 DEF Blocked, Contains
<1>5. PICK m \in 1 .. n : /\ m = LineEnd /\ buf[m] = "nl"
                          /\ \A i \in 1 .. n : buf[i] = "nl" => m <= i
  BY <1>1, <1>2, <1>3, <1>4, FirstPosition
<1>6. "nl" \in Units
  BY <1>1, <1>2, <1>5, ElementOfSeq
<1> DEFINE t == SubSeq(buf, 1, m)
           v == SubSeq(t, 1, m - 1)
           w == SubSeq(buf, 1, m - 1)
<1>7. t \in Seq(Units) /\ Len(t) = m /\ \A i \in 1 .. m : t[i] = buf[i]
  <2>1. m \in 0 .. Len(buf)
    BY <1>2
  <2> QED
    BY <1>1, <2>1, PrefixOf
<1> HIDE DEF t
<1>8. v \in Seq(Units) /\ Len(v) = m - 1 /\ \A i \in 1 .. m - 1 : v[i] = t[i]
  <2>1. m - 1 \in 0 .. Len(t)
    BY <1>7
  <2> QED
    BY <1>7, <2>1, PrefixOf
<1>9. w \in Seq(Units) /\ Len(w) = m - 1 /\ \A i \in 1 .. m - 1 : w[i] = buf[i]
  <2>1. m - 1 \in 0 .. Len(buf)
    BY <1>2
  <2> QED
    BY <1>1, <2>1, PrefixOf
<1>10. v = w
  <2> HIDE DEF v, w
  <2>1. \A i \in 1 .. m - 1 : i \in 1 .. m
    OBVIOUS
  <2> QED
    BY <1>7, <1>8, <1>9, <2>1, SeqEqual
<1>11. currentLine = Stream!Chomp(w)
  <2>1. currentLine = IF m > 1 /\ buf[m - 1] = "cr" THEN SubSeq(buf, 1, m - 2) ELSE w
    BY <1>5 DEF currentLine
  <2>2. w # <<>> <=> m > 1
    <3> HIDE DEF w
    <3> QED
      BY <1>9, EmptySeq
  <2>3. m > 1 => w[Len(w)] = buf[m - 1]
    <3> HIDE DEF w
    <3>1. m > 1 => m - 1 \in 1 .. m - 1
      OBVIOUS
    <3> QED
      BY <1>9, <3>1
  <2>4. m > 1 => SubSeq(w, 1, Len(w) - 1) = SubSeq(buf, 1, m - 2)
    <3> SUFFICES ASSUME m > 1 PROVE SubSeq(w, 1, Len(w) - 1) = SubSeq(buf, 1, m - 2)
      OBVIOUS
    <3> DEFINE x == SubSeq(w, 1, m - 2)
               y == SubSeq(buf, 1, m - 2)
    <3>1. PICK k \in Nat : k = m - 2
      OBVIOUS
    <3> HIDE DEF w
    <3>2. k \in 0 .. Len(w) /\ k \in 0 .. Len(buf)
      BY <1>2, <1>9, <3>1
    <3>3. x \in Seq(Units) /\ Len(x) = k /\ \A i \in 1 .. k : x[i] = w[i]
      BY <1>9, <3>1, <3>2, PrefixOf
    <3>4. y \in Seq(Units) /\ Len(y) = k /\ \A i \in 1 .. k : y[i] = buf[i]
      BY <1>1, <3>1, <3>2, PrefixOf
    <3> HIDE DEF x, y
    <3>5. \A i \in 1 .. k : i \in 1 .. m - 1
      BY <3>1
    <3>6. \A i \in 1 .. k : x[i] = y[i]
      BY <1>9, <3>3, <3>4, <3>5
    <3>7. x = y
      BY <3>3, <3>4, <3>6, SeqEqual
    <3>8. Len(w) - 1 = m - 2
      BY <1>9
    <3> QED
      BY <3>7, <3>8 DEF x, y
  <2>5. CASE m > 1
    <3>1. Stream!Chomp(w) = IF w[Len(w)] = "cr" THEN SubSeq(w, 1, Len(w) - 1) ELSE w
      BY <2>2, <2>5 DEF Stream!Chomp, Stream!Last, Stream!Front
    <3> HIDE DEF w
    <3> QED
      BY <2>1, <2>3, <2>4, <2>5, <3>1
  <2>6. CASE ~ (m > 1)
    <3>1. Stream!Chomp(w) = w
      BY <2>2, <2>6 DEF Stream!Chomp
    <3> HIDE DEF w
    <3> QED
      BY <2>1, <2>6, <3>1
  <2> QED
    BY <2>5, <2>6
<1>12. currentLine \in Seq(Units)
  BY <1>9, <1>11, ChompType
<1>13. Taken = t
  BY <1>5 DEF Taken, t
<1>14. \A i \in 1 .. m - 1 : t[i] # "nl"
  <2> SUFFICES ASSUME NEW i \in 1 .. m - 1 PROVE t[i] # "nl"
    OBVIOUS
  <2>1. i \in 1 .. n /\ i \in 1 .. m /\ ~ (m <= i)
    OBVIOUS
  <2> QED
    BY <1>5, <1>7, <2>1
<1>15. t[m] = "nl"
  <2>1. m \in 1 .. m
    OBVIOUS
  <2> QED
    BY <1>5, <1>7, <2>1
<1>16. currentLine = Stream!Chomp(SubSeq(Taken, 1, LineEnd - 1))
  BY <1>5, <1>10, <1>11, <1>13
<1> QED
  BY <1>2, <1>5, <1>6, <1>7, <1>12, <1>13, <1>14, <1>15, <1>16

\* The tests listen() makes on a line are those of the stream.
LEMMA LineTests ==
  ASSUME currentLine \in Seq(Units)
  PROVE  /\ openPos # 0 <=> Stream!HasOpen(currentLine)
         /\ openPos # 0 /\ ~selfClosed <=> Stream!Opens(currentLine)
         /\ isClose <=> Stream!Closes(currentLine)
<1>1. PICK l \in Seq(Units) : l = currentLine
  OBVIOUS
<1>2. PICK n \in Nat : n = Len(l)
  BY LenProperties
<1>3. openPos = Position(l, "<<")
  BY <1>1 DEF openPos, SelectInSeq, Position
<1>4. openPos # 0 <=> Stream!HasOpen(l)
  BY <1>2, <1>3, FirstPosition DEF Stream!HasOpen, Stream!Contains
<1>5. isClose <=> Stream!Closes(l)
  BY <1>1 DEF isClose, Stream!Closes, IsPrefix, Stream!IsPrefix
<1>6. openPos # 0 /\ ~selfClosed <=> Stream!Opens(l)
  <2>1. CASE openPos = 0
    BY <1>4, <2>1 DEF Stream!Opens
  <2>2. CASE openPos # 0
    <3>1. PICK p \in 1 .. n : /\ p = openPos /\ l[p] = "<<"
                              /\ \A i \in 1 .. n : l[i] = "<<" => p <= i
      BY <1>2, <1>3, <2>2, FirstPosition
    <3> DEFINE u == SubSeq(l, p + 1, n)
    <3>2. p \in Nat /\ p <= n /\ n <= Len(l)
      BY <1>2
    <3>3. Len(u) = n - p /\ \A i \in 1 .. n - p : u[i] = l[p + i]
      BY <3>2, PartOf
    <3>4. selfClosed <=> \E i \in 1 .. Len(u) : u[i] = ">>"
      BY <1>1, <1>2, <2>2, <3>1 DEF selfClosed, Contains
    <3> HIDE DEF u
    <3>6. ASSUME NEW i \in 1 .. n, NEW j \in 1 .. n, i < j, l[i] = "<<", l[j] = ">>"
          PROVE  selfClosed
      <4>1. p <= i
        BY <3>1, <3>6
      <4>2. j - p \in 1 .. n - p /\ p + (j - p) = j
        BY <3>6, <4>1
      <4>3. u[j - p] = ">>"
        BY <3>3, <3>6, <4>2
      <4> QED
        BY <3>3, <3>4, <4>2, <4>3
    <3>7. ASSUME selfClosed
          PROVE  \E i, j \in 1 .. n : i < j /\ l[i] = "<<" /\ l[j] = ">>"
      <4>1. PICK i \in 1 .. n - p : u[i] = ">>"
        BY <3>3, <3>4, <3>7
      <4>2. p + i \in 1 .. n /\ p < p + i
        OBVIOUS
      <4>3. l[p + i] = ">>"
        BY <3>3, <4>1
      <4> QED
        BY <3>1, <4>2, <4>3
    <3>8. selfClosed <=> \E i, j \in 1 .. n : i < j /\ l[i] = "<<" /\ l[j] = ">>"
      BY <3>6, <3>7
    <3> QED
      BY <1>2, <1>4, <2>2, <3>8 DEF Stream!Opens
  <2> QED
    BY <2>1, <2>2
<1> QED
  BY <1>1, <1>4, <1>5, <1>6

----------------------------------------------------------------------------
(* The invariant *)

\* How many units belong to messages already delivered.
Start == Len(input) - Len(buf) - Len(rawLine)

\* What is gathered and what is left in buf are the end of the input.
TailOfInput ==
  /\ Len(rawLine) + Len(buf) <= Len(input)
  /\ \A i \in 1 .. Len(rawLine) : rawLine[i] = input[Start + i]
  /\ \A i \in 1 .. Len(buf) : buf[i] = input[Start + Len(rawLine) + i]

\* Inside a block, the lines gathered are the beginning of a block that has
\* not ended, and their text is the text so far.
BlockSoFar == multiline => Block(rawLine) /\ line = FlattenSeq(Pieces(rawLine))

Framed == TypeOK /\ TailOfInput /\ BlockSoFar

\* Before the first read nothing is gathered.
LEMMA FramedInit == Init => Framed
<1> SUFFICES ASSUME Init PROVE Framed
  OBVIOUS
<1>1. /\ buf = <<>> /\ line = <<>> /\ rawLine = <<>> /\ multiline = FALSE /\ listening = TRUE
      /\ input = <<>> /\ output = <<>>
  BY DEF Init
<1>2. Len(<<>>) = 0 /\ MaxUnits \in Nat
  BY FramingAssumption, EmptySeq DEF FramingAssumption
<1>3. TypeOK
  <2>1. /\ <<>> \in Seq(Units)
        /\ <<>> \in Seq([kind : {"message", "error"}, raw : Seq(Units), text : Seq(Units)])
    BY EmptySeq
  <2>2. output \in Seq([kind : {"message", "error"}, raw : Seq(Units), text : Seq(Units)])
    BY <1>1, <2>1
  <2>3. /\ buf \in Seq(Units) /\ line \in Seq(Units) /\ rawLine \in Seq(Units)
        /\ input \in Seq(Units) /\ Len(input) <= MaxUnits
    BY <1>1, <1>2, <2>1
  <2> QED
    BY <1>1, <2>2, <2>3 DEF TypeOK
<1>4. TailOfInput /\ BlockSoFar
  BY <1>1, <1>2 DEF TailOfInput, BlockSoFar, Start
<1> QED
  BY <1>3, <1>4 DEF Framed

\* A read adds to the end of the input and of buf what it returned, and
\* nothing else: in the specification of the stream, bytes arrive.
LEMMA ReadFramed ==
  ASSUME Framed, Read
  PROVE  Framed' /\ Stream!Arrive
<1>0. PICK n \in 1 .. MaxChunk : \E chunk \in TupleOf(Units, n) :
        /\ Len(input) + n <= MaxUnits
        /\ input' = input \o chunk
        /\ buf' = buf \o chunk
  BY DEF Read
<1>1. PICK chunk \in TupleOf(Units, n) :
        /\ Len(input) + n <= MaxUnits
        /\ input' = input \o chunk
        /\ buf' = buf \o chunk
  BY <1>0
<1>2. UNCHANGED <<line, rawLine, multiline, listening, output>> /\ TypeOK
  BY DEF Read, Framed
<1>3. chunk \in Seq(Units) /\ Len(chunk) = n /\ n \in Nat
  <2>1. n \in Nat
    BY FramingAssumption DEF FramingAssumption
  <2> QED
    BY <2>1, FunctionIsSeq DEF TupleOf
<1>4. /\ buf \in Seq(Units) /\ input \in Seq(Units) /\ rawLine \in Seq(Units)
  BY <1>2 DEF TypeOK
<1>5. PICK a \in Nat, b \in Nat, c \in Nat : a = Len(input) /\ b = Len(buf) /\ c = Len(rawLine)
  BY <1>4, LenProperties
<1>6. /\ input' \in Seq(Units) /\ Len(input') = a + n
      /\ \A i \in 1 .. a + n : input'[i] = IF i <= a THEN input[i] ELSE chunk[i - a]
  BY <1>1, <1>3, <1>4, <1>5, ConcatProperties
<1>7. /\ buf' \in Seq(Units) /\ Len(buf') = b + n
      /\ \A i \in 1 .. b + n : buf'[i] = IF i <= b THEN buf[i] ELSE chunk[i - b]
  BY <1>1, <1>3, <1>4, <1>5, ConcatProperties
<1>8. TypeOK'
  BY <1>1, <1>2, <1>5, <1>6, <1>7 DEF TypeOK
<1>9. Start = a - b - c /\ Start' = a - b - c
  BY <1>2, <1>5, <1>6, <1>7, <1>3 DEF Start
<1>10. /\ c + b <= a
       /\ \A i \in 1 .. c : rawLine[i] = input[a - b - c + i]
       /\ \A i \in 1 .. b : buf[i] = input[a - b - c + c + i]
  BY <1>5, <1>9 DEF Framed, TailOfInput
<1>11. TailOfInput'
  <2>1. \A i \in 1 .. c : rawLine'[i] = input'[a - b - c + i]
    <3> SUFFICES ASSUME NEW i \in 1 .. c PROVE rawLine'[i] = input'[a - b - c + i]
      OBVIOUS
    <3>1. a - b - c + i \in 1 .. a + n /\ a - b - c + i <= a
      BY <1>10
    <3> QED
      BY <1>2, <1>6, <1>10, <3>1
  <2>2. \A i \in 1 .. b + n : buf'[i] = input'[a - b - c + c + i]
    <3> SUFFICES ASSUME NEW i \in 1 .. b + n PROVE buf'[i] = input'[a - b - c + c + i]
      OBVIOUS
    <3>1. PICK j \in 1 .. a + n : j = a - b - c + c + i
      BY <1>10
    <3>2. CASE i <= b
      <4>1. j <= a /\ i \in 1 .. b
        BY <3>1, <3>2
      <4> QED
        BY <1>6, <1>7, <1>10, <3>1, <3>2, <4>1
    <3>3. CASE ~ (i <= b)
      <4>1. ~ (j <= a) /\ j - a = i - b
        BY <3>1, <3>3
      <4> QED
        BY <1>6, <1>7, <3>1, <3>3, <4>1
    <3> QED
      BY <3>2, <3>3
  <2>3. c + (b + n) <= a + n /\ Len(rawLine') = c
    BY <1>2, <1>5, <1>10
  <2> QED
    BY <1>6, <1>7, <1>9, <2>1, <2>2, <2>3 DEF TailOfInput
<1>12. BlockSoFar'
  BY <1>2 DEF Framed, BlockSoFar
<1>13. Stream!IsPrefix(input, input')
  <2>1. Len(input) <= Len(input')
    BY <1>3, <1>5, <1>6
  <2> DEFINE u == SubSeq(input, 1, a)
             v == SubSeq(input', 1, a)
  <2>2. a \in 0 .. Len(input) /\ a \in 0 .. Len(input')
    BY <1>3, <1>5, <1>6
  <2>3. u \in Seq(Units) /\ Len(u) = a /\ \A i \in 1 .. a : u[i] = input[i]
    BY <1>4, <2>2, PrefixOf
  <2>4. v \in Seq(Units) /\ Len(v) = a /\ \A i \in 1 .. a : v[i] = input'[i]
    BY <1>6, <2>2, PrefixOf
  <2> HIDE DEF u, v
  <2>5. \A i \in 1 .. a : i \in 1 .. a + n /\ i <= a
    BY <1>3
  <2>6. \A i \in 1 .. a : u[i] = v[i]
    BY <1>6, <2>3, <2>4, <2>5
  <2>7. u = v
    BY <2>3, <2>4, <2>6, SeqEqual
  <2> QED
    BY <1>5, <2>1, <2>7 DEF u, v, Stream!IsPrefix
<1>14. Stream!Arrive
  <2>1. Len(input') <= MaxUnits
    BY <1>1, <1>3, <1>5, <1>6
  <2>2. (Len(input) - Len(buf) - Len(rawLine))' = Len(input) - Len(buf) - Len(rawLine)
    BY <1>9 DEF Start
  <2> QED
    BY <1>2, <1>6, <1>13, <2>1, <2>2 DEF Stream!Arrive
<1> QED
  BY <1>8, <1>11, <1>12, <1>14 DEF Framed

\* A turn of the loop, whatever the line is.
LEMMA TurnFacts ==
  ASSUME Framed, TakeLine
  PROVE  /\ input' = input /\ listening' = listening /\ ~Blocked
         /\ buf' \in Seq(Units) /\ Len(buf') = Len(buf) - LineEnd
         /\ rawLine \o Taken \in Seq(Units) /\ rawLine \o Taken # <<>>
         /\ Len(rawLine \o Taken) = Len(rawLine) + LineEnd
         /\ \A i \in 1 .. Len(rawLine) + LineEnd : (rawLine \o Taken)[i] = input[Start + i]
         /\ \A i \in 1 .. Len(buf') : buf'[i] = input[Start + Len(rawLine) + LineEnd + i]
         /\ rawLine \o Taken =
              SubSeq(input, Start + 1, Start + Len(rawLine) + LineEnd)
<1>1. /\ input' = input /\ listening' = listening /\ ~Blocked
      /\ buf' = SubSeq(buf, LineEnd + 1, Len(buf)) /\ TypeOK
  BY DEF TakeLine, Framed
<1>2. /\ buf \in Seq(Units) /\ input \in Seq(Units) /\ rawLine \in Seq(Units)
  BY <1>1 DEF TypeOK
<1>3. PICK a \in Nat, b \in Nat, c \in Nat : a = Len(input) /\ b = Len(buf) /\ c = Len(rawLine)
  BY <1>2, LenProperties
<1>4. PICK m \in 1 .. b : m = LineEnd
  BY <1>1, <1>3, TakenFacts
<1>5. Taken \in Seq(Units) /\ Len(Taken) = m /\ \A i \in 1 .. m : Taken[i] = buf[i]
  BY <1>1, <1>4, TakenFacts
<1>6. PICK s \in Nat : s = Start /\ s + c + b = a
  <2>1. Start = a - b - c /\ c + b <= a
    BY <1>3 DEF Framed, TailOfInput, Start
  <2>2. a - b - c \in Nat /\ a - b - c + c + b = a
    BY <2>1
  <2> QED
    BY <2>1, <2>2
<1>7. /\ \A i \in 1 .. c : rawLine[i] = input[s + i]
      /\ \A i \in 1 .. b : buf[i] = input[s + c + i]
  BY <1>3, <1>6 DEF Framed, TailOfInput
<1>8. buf' \in Seq(Units) /\ Len(buf') = b - m /\ \A i \in 1 .. b - m : buf'[i] = buf[m + i]
  <2>1. m \in Nat /\ m <= b /\ b <= Len(buf)
    BY <1>3
  <2> QED
    BY <1>1, <1>2, <1>3, <1>4, <2>1, PartOf
<1> DEFINE raw == rawLine \o Taken
<1>9. /\ raw \in Seq(Units) /\ Len(raw) = c + m
      /\ \A i \in 1 .. c + m : raw[i] = IF i <= c THEN rawLine[i] ELSE Taken[i - c]
  BY <1>2, <1>3, <1>5, ConcatProperties
<1> HIDE DEF raw
<1>10. \A i \in 1 .. c + m : raw[i] = input[s + i]
  <2> SUFFICES ASSUME NEW i \in 1 .. c + m PROVE raw[i] = input[s + i]
    OBVIOUS
  <2>1. CASE i <= c
    <3>1. i \in 1 .. c
      BY <2>1
    <3> QED
      BY <1>7, <1>9, <2>1, <3>1
  <2>2. CASE ~ (i <= c)
    <3>1. PICK j \in 1 .. m : j = i - c
      BY <2>2
    <3>2. j \in 1 .. b /\ s + c + j = s + i
      BY <3>1
    <3>3. Taken[j] = buf[j] /\ buf[j] = input[s + c + j]
      BY <1>5, <1>7, <3>2
    <3>4. raw[i] = Taken[j]
      BY <1>9, <2>2, <3>1
    <3> QED
      BY <3>2, <3>3, <3>4
  <2> QED
    BY <2>1, <2>2
<1>11. \A i \in 1 .. b - m : buf'[i] = input[s + c + m + i]
  <2> SUFFICES ASSUME NEW i \in 1 .. b - m PROVE buf'[i] = input[s + c + m + i]
    OBVIOUS
  <2>1. m + i \in 1 .. b /\ s + c + (m + i) = s + c + m + i
    OBVIOUS
  <2> QED
    BY <1>7, <1>8, <2>1
<1>12. raw = SubSeq(input, s + 1, s + c + m)
  <2>1. PICK e \in Nat : e = s + c + m
    OBVIOUS
  <2> DEFINE u == SubSeq(input, s + 1, e)
  <2>2. s <= e /\ e <= Len(input) /\ e - s = c + m
    BY <1>3, <1>6, <2>1
  <2>3. u \in Seq(Units) /\ Len(u) = e - s /\ \A i \in 1 .. e - s : u[i] = input[s + i]
    BY <1>2, <2>2, PartOf
  <2> HIDE DEF u
  <2>4. u \in Seq(Units) /\ Len(u) = c + m /\ \A i \in 1 .. c + m : u[i] = raw[i]
    BY <1>10, <2>2, <2>3
  <2>5. raw = u
    BY <1>9, <2>4, SeqEqual
  <2> QED
    BY <2>1, <2>5 DEF u
<1>13. raw # <<>>
  BY <1>9, EmptySeq
<1> QED
  BY <1>1, <1>3, <1>4, <1>6, <1>8, <1>9, <1>10, <1>11, <1>12, <1>13 DEF raw

\* A line in the middle of a message: nothing is delivered.
LEMMA ContinueFramed ==
  ASSUME Framed, NEW text, Continue(text),
         IF multiline THEN ~Stream!EndsBlock(currentLine) ELSE Stream!Opens(currentLine),
         text = (IF multiline THEN line ELSE <<>>) \o
                  (IF multiline /\ Stream!Closes(currentLine)
                     THEN currentLine ELSE Append(currentLine, "nl"))
  PROVE  Framed' /\ UNCHANGED Stream!vars
<1>1. /\ TakeLine /\ rawLine' = rawLine \o Taken /\ multiline' = TRUE
      /\ line' = text /\ output' = output /\ TypeOK
  BY DEF Continue, Framed
<1>2. /\ input' = input /\ listening' = listening /\ ~Blocked
      /\ buf' \in Seq(Units) /\ Len(buf') = Len(buf) - LineEnd
      /\ rawLine' \in Seq(Units) /\ rawLine' # <<>> /\ Len(rawLine') = Len(rawLine) + LineEnd
      /\ \A i \in 1 .. Len(rawLine) + LineEnd : rawLine'[i] = input[Start + i]
      /\ \A i \in 1 .. Len(buf') : buf'[i] = input[Start + Len(rawLine) + LineEnd + i]
  BY <1>1, TurnFacts
<1>3. /\ LineEnd \in 1 .. Len(buf) /\ "nl" \in Units
      /\ Taken \in Seq(Units) /\ Len(Taken) = LineEnd /\ Taken[LineEnd] = "nl"
      /\ \A i \in 1 .. LineEnd - 1 : Taken[i] # "nl"
      /\ currentLine \in Seq(Units)
      /\ currentLine = Stream!Chomp(SubSeq(Taken, 1, LineEnd - 1))
  BY <1>1, <1>2, TakenFacts
<1>4. /\ buf \in Seq(Units) /\ input \in Seq(Units) /\ rawLine \in Seq(Units)
      /\ line \in Seq(Units) /\ multiline \in BOOLEAN
      /\ multiline <=> rawLine # <<>>
      /\ multiline => line # <<>>
  BY <1>1 DEF TypeOK
<1>5. PICK a \in Nat, b \in Nat, c \in Nat : a = Len(input) /\ b = Len(buf) /\ c = Len(rawLine)
  BY <1>4, LenProperties
<1>6. PICK m \in 1 .. b : m = LineEnd
  BY <1>3, <1>5
<1>7. Start = a - b - c /\ Start' = a - b - c /\ b + c <= a
  <2>1. Start = a - b - c /\ b + c <= a
    BY <1>5 DEF Start, Framed, TailOfInput
  <2>2. Start' = a - (b - m) - (c + m)
    BY <1>2, <1>5, <1>6 DEF Start
  <2> QED
    BY <2>1, <2>2
<1>8. TailOfInput'
  <2>1. /\ Len(rawLine') = c + m /\ Len(buf') = b - m /\ Len(input') = a
        /\ c + m + (b - m) <= a
        /\ \A i \in 1 .. c + m : rawLine'[i] = input'[Start' + i]
    BY <1>2, <1>5, <1>6, <1>7
  <2>2. \A i \in 1 .. b - m : buf'[i] = input'[Start' + (c + m) + i]
    <3>1. \A i \in 1 .. b - m : a - b - c + c + m + i = a - b - c + (c + m) + i
      OBVIOUS
    <3>2. \A i \in 1 .. b - m : buf'[i] = input'[a - b - c + c + m + i]
      BY <1>2, <1>5, <1>6, <1>7
    <3> QED
      BY <1>7, <3>1, <3>2
  <2> QED
    BY <2>1, <2>2 DEF TailOfInput
<1>9. text \in Seq(Units) /\ text # <<>>
  <2>1. Append(currentLine, "nl") \in Seq(Units) /\ Append(currentLine, "nl") # <<>>
    BY <1>3, AppendProperties
  <2> DEFINE added == IF multiline /\ Stream!Closes(currentLine)
                        THEN currentLine ELSE Append(currentLine, "nl")
  <2>2. added \in Seq(Units) /\ (~multiline => added # <<>>)
    BY <1>3, <2>1
  <2> HIDE DEF added
  <2>3. CASE multiline
    <3>1. line \o added \in Seq(Units) /\ Len(line \o added) = Len(line) + Len(added)
      BY <1>4, <2>2, ConcatProperties
    <3>2. Len(line) \in Nat \ {0} /\ Len(added) \in Nat
      BY <1>4, <2>2, <2>3, EmptySeq, LenProperties
    <3>3. line \o added # <<>>
      BY <3>1, <3>2, EmptySeq
    <3> QED
      BY <2>3, <3>1, <3>3 DEF added
  <2>4. CASE ~multiline
    <3>1. <<>> \o added = added
      BY <2>2, ConcatEmptySeq
    <3>2. text = added
      BY <2>4, <3>1 DEF added
    <3> QED
      BY <2>2, <2>4, <3>2
  <2> QED
    BY <2>3, <2>4
<1>10. Block(rawLine') /\ text = FlattenSeq(Pieces(rawLine'))
  <2>1. IF rawLine = <<>> THEN Stream!Opens(currentLine)
        ELSE Block(rawLine) /\ ~Stream!EndsBlock(currentLine)
    BY <1>4 DEF Framed, BlockSoFar
  <2>2. /\ Block(rawLine \o Taken)
        /\ FlattenSeq(Pieces(rawLine \o Taken)) = FlattenSeq(Pieces(rawLine)) \o
             (IF rawLine # <<>> /\ Stream!Closes(currentLine)
                THEN currentLine ELSE Append(currentLine, "nl"))
    <3>1. IsLine(Taken)
      BY <1>3 DEF IsLine
    <3>2. currentLine = Stream!Chomp(SubSeq(Taken, 1, Len(Taken) - 1))
      BY <1>3
    <3> QED
      BY <1>3, <1>4, <2>1, <3>1, <3>2, BlockGrows
  <2>3. FlattenSeq(Pieces(rawLine)) = IF multiline THEN line ELSE <<>>
    <3>1. CASE multiline
      BY <3>1 DEF Framed, BlockSoFar
    <3>2. CASE ~multiline
      BY <1>4, <3>2, NoPieces
    <3> QED
      BY <3>1, <3>2
  <2> QED
    BY <1>1, <1>4, <2>2, <2>3
<1>11. TypeOK'
  <2>1. output' \in Seq([kind : {"message", "error"}, raw : Seq(Units), text : Seq(Units)])
    BY <1>1 DEF TypeOK
  <2>2. /\ listening' \in BOOLEAN /\ input' \in Seq(Units) /\ Len(input') <= MaxUnits
    BY <1>1, <1>2 DEF TypeOK
  <2> QED
    BY <1>1, <1>2, <1>9, <2>1, <2>2 DEF TypeOK
<1>12. BlockSoFar'
  BY <1>1, <1>10 DEF BlockSoFar
<1>13. UNCHANGED Stream!vars
  <2>1. (Len(input) - Len(buf) - Len(rawLine))' = Len(input) - Len(buf) - Len(rawLine)
    BY <1>7 DEF Start
  <2> QED
    BY <1>1, <1>2, <2>1 DEF Stream!vars
<1> QED
  BY <1>8, <1>11, <1>12, <1>13 DEF Framed

\* The last line of a message: the message is delivered.
LEMMA CompleteFramed ==
  ASSUME Framed, NEW text, Complete(text),
         IF multiline THEN Stream!EndsBlock(currentLine) ELSE ~Stream!Opens(currentLine),
         text = (IF multiline THEN line ELSE <<>>) \o currentLine
  PROVE  Framed' /\ Stream!Frame
<1> DEFINE Rec == [kind : {"message", "error"}, raw : Seq(Units), text : Seq(Units)]
           raw == rawLine \o Taken
<1>1. /\ TakeLine /\ rawLine' = <<>> /\ multiline' = FALSE
      /\ line' = text /\ TypeOK
  BY DEF Complete, Framed
<1>2. /\ input' = input /\ listening' = listening /\ ~Blocked
      /\ buf' \in Seq(Units) /\ Len(buf') = Len(buf) - LineEnd
      /\ raw \in Seq(Units)
      /\ \A i \in 1 .. Len(buf') : buf'[i] = input[Start + Len(rawLine) + LineEnd + i]
      /\ raw = SubSeq(input, Start + 1, Start + Len(rawLine) + LineEnd)
  BY <1>1, TurnFacts
<1>3. /\ LineEnd \in 1 .. Len(buf) /\ "nl" \in Units
      /\ Taken \in Seq(Units) /\ Len(Taken) = LineEnd /\ Taken[LineEnd] = "nl"
      /\ \A i \in 1 .. LineEnd - 1 : Taken[i] # "nl"
      /\ currentLine \in Seq(Units)
      /\ currentLine = Stream!Chomp(SubSeq(Taken, 1, LineEnd - 1))
  BY <1>1, <1>2, TakenFacts
<1>4. /\ buf \in Seq(Units) /\ input \in Seq(Units) /\ rawLine \in Seq(Units)
      /\ line \in Seq(Units) /\ multiline \in BOOLEAN
      /\ multiline <=> rawLine # <<>>
      /\ output \in Seq(Rec)
  BY <1>1 DEF TypeOK
<1>5. PICK a \in Nat, b \in Nat, c \in Nat : a = Len(input) /\ b = Len(buf) /\ c = Len(rawLine)
  BY <1>4, LenProperties
<1>6. PICK m \in 1 .. b : m = LineEnd
  BY <1>3, <1>5
<1>7. PICK e \in 1 .. a : /\ e = Start + c + m /\ e = Start'
                          /\ Start + 1 \in Nat /\ e \in Start + 1 .. a
  <2>1. Start = a - b - c /\ b + c <= a
    BY <1>5 DEF Start, Framed, TailOfInput
  <2>2. Start' = a - (b - m) - 0
    BY <1>1, <1>2, <1>5, <1>6, EmptySeq DEF Start
  <2> QED
    BY <2>1, <2>2
<1>8. TailOfInput'
  <2>1. Len(rawLine') = 0 /\ Len(buf') = b - m /\ Len(input') = a
    BY <1>1, <1>2, <1>5, <1>6, EmptySeq
  <2>2. 0 + (b - m) <= a
    <3>1. b + c <= a
      BY <1>5 DEF Framed, TailOfInput
    <3> QED
      BY <3>1
  <2>3. \A i \in 1 .. b - m : buf'[i] = input'[e + 0 + i]
    BY <1>2, <1>5, <1>6, <1>7
  <2> QED
    BY <1>7, <2>1, <2>2, <2>3 DEF TailOfInput
<1>9. text \in Seq(Units)
  <2>1. line \o currentLine \in Seq(Units)
    BY <1>3, <1>4, ConcatProperties
  <2>2. <<>> \o currentLine = currentLine
    BY <1>3, ConcatEmptySeq
  <2> QED
    BY <1>3, <2>1, <2>2
<1>10. Stream!IsMessage(raw) /\ text = Stream!Text(raw)
  <2>1. IF rawLine = <<>> THEN ~Stream!Opens(currentLine)
        ELSE Block(rawLine) /\ Stream!EndsBlock(currentLine)
    BY <1>4 DEF Framed, BlockSoFar
  <2>2. /\ Stream!IsMessage(rawLine \o Taken)
        /\ Stream!Text(rawLine \o Taken) = FlattenSeq(Pieces(rawLine)) \o currentLine
    <3>1. IsLine(Taken)
      BY <1>3 DEF IsLine
    <3>2. currentLine = Stream!Chomp(SubSeq(Taken, 1, Len(Taken) - 1))
      BY <1>3
    <3> QED
      BY <1>3, <1>4, <2>1, <3>1, <3>2, MessageDone
  <2>3. FlattenSeq(Pieces(rawLine)) = IF multiline THEN line ELSE <<>>
    <3>1. CASE multiline
      BY <3>1 DEF Framed, BlockSoFar
    <3>2. CASE ~multiline
      BY <1>4, <3>2, NoPieces
    <3> QED
      BY <3>1, <3>2
  <2> QED
    BY <2>2, <2>3
<1>11. \E d \in Stream!Delivered(raw, text) : output' = output \o d /\ output' \in Seq(Rec)
  <2>1. ASSUME NEW r \in Rec
        PROVE  Append(output, r) = output \o <<r>> /\ Append(output, r) \in Seq(Rec)
    <3> HIDE DEF Rec
    <3> QED
      BY <1>4, AppendIsConcat, AppendProperties
  <2>2. CASE text = <<>>
    <3>1. output' = output /\ <<>> \in Stream!Delivered(raw, text)
      BY <2>2 DEF Complete, Stream!Delivered
    <3>2. output \o <<>> = output
      <4> HIDE DEF Rec
      <4> QED
        BY <1>4, ConcatEmptySeq
    <3> QED
      BY <1>4, <3>1, <3>2
  <2>3. CASE text # <<>>
    <3> DEFINE r == [kind |-> "message", raw |-> raw, text |-> text]
               x == [kind |-> "error", raw |-> <<>>, text |-> text]
    <3>1. r \in Rec /\ x \in Rec
      <4>1. <<>> \in Seq(Units)
        BY EmptySeq
      <4> QED
        BY <1>2, <1>9, <4>1
    <3>2. Stream!Delivered(raw, text) = {<<r>>, <<x>>}
      BY <2>3 DEF Stream!Delivered
    <3>3. output' = Append(output, r) \/ output' = Append(output, x)
      BY <2>3 DEF Complete
    <3> HIDE DEF r, x, Rec
    <3> QED
      BY <2>1, <3>1, <3>2, <3>3
  <2> QED
    BY <2>2, <2>3
<1>12. TypeOK'
  <2>1. listening' \in BOOLEAN /\ input' \in Seq(Units) /\ Len(input') <= MaxUnits
    BY <1>1, <1>2 DEF TypeOK
  <2>2. output' \in Seq(Rec) /\ <<>> \in Seq(Units)
    BY <1>11, EmptySeq
  <2> QED
    BY <1>1, <1>2, <1>9, <2>1, <2>2 DEF TypeOK
<1>13. BlockSoFar'
  BY <1>1 DEF BlockSoFar
<1>14. Stream!Frame
  <2>1. Start = Len(input) - Len(buf) - Len(rawLine)
    BY DEF Start
  <2>2. (Len(input) - Len(buf) - Len(rawLine))' = e
    BY <1>7 DEF Start
  <2>3. e \in Len(input) - Len(buf) - Len(rawLine) + 1 .. Len(input)
    BY <1>5, <1>7, <2>1
  <2>4. raw = SubSeq(input, Len(input) - Len(buf) - Len(rawLine) + 1, e)
    BY <1>2, <1>5, <1>6, <1>7, <2>1
  <2>5. \E d \in Stream!Delivered(raw, Stream!Text(raw)) : output' = output \o d
    BY <1>10, <1>11
  <2> HIDE DEF raw
  <2> QED
    BY <1>2, <1>10, <2>2, <2>3, <2>4, <2>5 DEF Stream!Frame
<1> QED
  BY <1>8, <1>12, <1>13, <1>14 DEF Framed

\* A turn delivers one message of the stream, or none.
LEMMA TurnFramed ==
  ASSUME Framed, Turn
  PROVE  Framed' /\ (Stream!Frame \/ UNCHANGED Stream!vars)
<1>1. TypeOK /\ ~Blocked
  BY DEF Framed, Turn, OpenBlock, SingleLine, BlockLine, ReopenBlock, CloseBlock, Continue,
     Complete, TakeLine
<1>2. /\ currentLine \in Seq(Units) /\ "nl" \in Units /\ multiline \in BOOLEAN
      /\ line \in Seq(Units)
  BY <1>1, TakenFacts DEF TypeOK
<1>3. /\ openPos # 0 <=> Stream!HasOpen(currentLine)
      /\ openPos # 0 /\ ~selfClosed <=> Stream!Opens(currentLine)
      /\ isClose <=> Stream!Closes(currentLine)
  BY <1>2, LineTests
<1>4. Append(currentLine, "nl") \in Seq(Units)
  BY <1>2, AppendProperties
<1>5. /\ <<>> \o Append(currentLine, "nl") = Append(currentLine, "nl")
      /\ <<>> \o currentLine = currentLine
  BY <1>2, <1>4, ConcatEmptySeq
<1>6. CASE OpenBlock
  <2>1. ~multiline /\ Continue(Append(currentLine, "nl")) /\ Stream!Opens(currentLine)
    BY <1>3, <1>6 DEF OpenBlock
  <2> QED
    BY <1>5, <2>1, ContinueFramed
<1>7. CASE SingleLine
  <2>1. ~multiline /\ Complete(currentLine) /\ ~Stream!Opens(currentLine)
    BY <1>3, <1>7 DEF SingleLine
  <2> QED
    BY <1>5, <2>1, CompleteFramed
<1>8. CASE BlockLine
  <2>1. /\ multiline /\ Continue(line \o Append(currentLine, "nl"))
        /\ ~Stream!Closes(currentLine) /\ ~Stream!EndsBlock(currentLine)
    BY <1>3, <1>8 DEF BlockLine, Stream!EndsBlock
  <2> QED
    BY <2>1, ContinueFramed
<1>9. CASE ReopenBlock
  <2>1. /\ multiline /\ Continue(line \o currentLine)
        /\ Stream!Closes(currentLine) /\ ~Stream!EndsBlock(currentLine)
    BY <1>3, <1>9 DEF ReopenBlock, Stream!EndsBlock
  <2> QED
    BY <2>1, ContinueFramed
<1>10. CASE CloseBlock
  <2>1. multiline /\ Complete(line \o currentLine) /\ Stream!EndsBlock(currentLine)
    BY <1>3, <1>10 DEF CloseBlock, Stream!EndsBlock
  <2> QED
    BY <2>1, CompleteFramed
<1> QED
  BY <1>6, <1>7, <1>8, <1>9, <1>10 DEF Turn

\* Every step keeps the invariant, and is a step of the stream or none.
LEMMA FramedStep ==
  ASSUME Framed, [Next]_vars
  PROVE  Framed' /\ [Stream!Next]_(Stream!vars)
<1>1. CASE Read
  BY <1>1, ReadFramed DEF Stream!Next
<1>2. CASE Turn
  BY <1>2, TurnFramed DEF Stream!Next
<1>3. CASE Eof \/ UNCHANGED vars
  <2>1. UNCHANGED <<local, input, output>> /\ listening' \in BOOLEAN
    BY <1>3 DEF Eof, vars, Framed, TypeOK
  <2>2. Framed'
    BY <2>1 DEF local, Framed, TypeOK, TailOfInput, Start, BlockSoFar
  <2>3. UNCHANGED Stream!vars
    BY <2>1 DEF local, Stream!vars
  <2> QED
    BY <2>2, <2>3
<1> QED
  BY <1>1, <1>2, <1>3 DEF Next

\* What is read and not delivered is the end of the input, and what listen()
\* has gathered of a block is whole lines that no message begins.
THEOREM FramedCorrect == Spec => []Framed
BY FramedInit, FramedStep, PTL DEF Spec

\* The local variables of listen() are of their types, and outside a block
\* nothing is left of the message before.
THEOREM TypeCorrect == Spec => []TypeOK
<1>1. Framed => TypeOK
  BY DEF Framed
<1> QED
  BY <1>1, FramedCorrect, PTL

\* What is gathered, with what is in buf, holds no whole message when there
\* is no newline in buf.
LEMMA NothingWaits == Framed => NoMessageWaits
<1> SUFFICES ASSUME Framed, listening, Blocked,
                    NEW e \in 1 .. Len(rawLine \o buf),
                    Stream!IsMessage(SubSeq(rawLine \o buf, 1, e))
             PROVE  FALSE
  BY DEF NoMessageWaits
<1> DEFINE rest == rawLine \o buf
           u == SubSeq(rest, 1, e)
<1>1. buf \in Seq(Units) /\ rawLine \in Seq(Units) /\ (multiline <=> rawLine # <<>>)
  BY DEF Framed, TypeOK
<1>2. PICK b \in Nat, c \in Nat : b = Len(buf) /\ c = Len(rawLine)
  BY <1>1, LenProperties
<1>3. /\ rest \in Seq(Units) /\ Len(rest) = c + b
      /\ \A i \in 1 .. c + b : rest[i] = IF i <= c THEN rawLine[i] ELSE buf[i - c]
  BY <1>1, <1>2, ConcatProperties
<1>4. e \in 1 .. c + b /\ Stream!IsMessage(u)
  BY <1>3
<1> HIDE DEF rest
<1>5. u \in Seq(Units) /\ Len(u) = e /\ \A i \in 1 .. e : u[i] = rest[i]
  <2>1. e \in 0 .. Len(rest)
    BY <1>3, <1>4
  <2> QED
    BY <1>3, <2>1, PrefixOf
<1> HIDE DEF u
<1>6. CASE e <= c
  <2> DEFINE v == SubSeq(rawLine, 1, e)
  <2>1. e \in 1 .. Len(rawLine) /\ e \in 0 .. Len(rawLine)
    BY <1>2, <1>4, <1>6
  <2>2. v \in Seq(Units) /\ Len(v) = e /\ \A i \in 1 .. e : v[i] = rawLine[i]
    BY <1>1, <2>1, PrefixOf
  <2> HIDE DEF v
  <2>3. \A i \in 1 .. e : i <= c /\ i \in 1 .. c + b
    BY <1>6
  <2>4. v \in Seq(Units) /\ Len(v) = e /\ \A i \in 1 .. e : u[i] = v[i]
    BY <1>3, <1>5, <2>2, <2>3
  <2>5. u = v
    BY <1>5, <2>4, SeqEqual
  <2>6. rawLine # <<>>
    BY <2>1, EmptySeq
  <2>7. Block(rawLine) /\ e \in 1 .. Len(rawLine)
    BY <1>1, <1>2, <1>4, <1>6, <2>6 DEF Framed, BlockSoFar
  <2>8. ~Stream!IsMessage(v)
    BY <1>1, <2>7, BlockHasNoMessage DEF v
  <2> QED
    BY <1>4, <2>5, <2>8
<1>7. CASE ~ (e <= c)
  <2>1. e - c \in 1 .. b /\ e \in 1 .. e
    BY <1>4, <1>7
  <2>2. u[e] = buf[e - c]
    BY <1>3, <1>4, <1>5, <1>7, <2>1
  <2>3. u[e] = "nl"
    BY <1>4, <1>5, IsMessageIs
  <2>4. buf[e - c] # "nl"
    BY <1>2, <2>1 DEF Blocked, Contains
  <2> QED
    BY <2>2, <2>3, <2>4
<1> QED
  BY <1>6, <1>7

\* listen() never goes back to read() with a whole message in hand.
THEOREM MessagesAreNotKept == Spec => []NoMessageWaits
BY FramedCorrect, NothingWaits, PTL

\* The initial states are those of the stream.
LEMMA StreamInit == Init => Stream!Init
<1> SUFFICES ASSUME Init PROVE Stream!Init
  OBVIOUS
<1>1. Len(<<>>) = 0 /\ 0 - 0 - 0 = 0
  BY EmptySeq
<1> QED
  BY <1>1 DEF Init, Stream!Init

\* listen() implements the stream: every message of what the hub sent is
\* delivered once, in order and whole, however the reads cut it.
THEOREM ImplementsStream == Spec => CutsTheStream
<1>1. Framed /\ [Next]_vars => [Stream!Next]_(Stream!vars)
  BY FramedStep
<1> QED
  BY <1>1, StreamInit, FramedCorrect, PTL DEF Spec, CutsTheStream, Stream!Spec

============================================================================
