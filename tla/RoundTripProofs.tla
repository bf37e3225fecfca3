-------------------------- MODULE RoundTripProofs --------------------------
(***************************************************************************)
(* Proofs about RoundTrip, for any units, names, programs and values: what *)
(* serialize() writes, line by line, and what the loop over the lines has  *)
(* made of it.  Two inductive invariants: RawInv says what the raw bytes   *)
(* of a message are, NextInv which part of the bytes is still to be read   *)
(* and that no delivered message of a response lacks its beginning.        *)
(***************************************************************************)
EXTENDS RoundTrip, SequenceLemmas

----------------------------------------------------------------------------
(* Raw bytes without the returns before their newlines *)

\* What parseRaw keeps of each byte, and of all.
KeptOf(raw) ==
  [i \in DOMAIN raw |->
     IF raw[i] = "cr" /\ i < Len(raw) /\ raw[i + 1] = "nl" THEN <<>> ELSE <<raw[i]>>]

Kept(raw) == FlattenSeq(KeptOf(raw))

\* parseRaw takes the last newline off what it keeps.
LEMMA NormalIsKept ==
  ASSUME NEW raw
  PROVE  Normal(raw) = IF Kept(raw) # <<>> /\ Last(Kept(raw)) = "nl" THEN Front(Kept(raw)) ELSE Kept(raw)
BY DEF Normal, Kept, KeptOf

\* A line without the return at its end.
Chomp(x) == IF x # <<>> /\ Last(x) = "cr" THEN Front(x) ELSE x

\* KeptOf is a sequence of texts.
LEMMA KeptOfType ==
  ASSUME NEW S, NEW s \in Seq(S)
  PROVE  /\ KeptOf(s) \in Seq(Seq(S)) /\ Len(KeptOf(s)) = Len(s)
         /\ \A i \in 1 .. Len(s) :
              KeptOf(s)[i] = IF s[i] = "cr" /\ i < Len(s) /\ s[i + 1] = "nl" THEN <<>> ELSE <<s[i]>>
<1>1. PICK n \in Nat : n = Len(s) /\ DOMAIN s = 1 .. n
  BY LenProperties
<1>2. \A i \in 1 .. n : s[i] \in S
  BY <1>1, ElementOfSeq
<1>3. KeptOf(s) = [i \in 1 .. n |-> IF s[i] = "cr" /\ i < n /\ s[i + 1] = "nl" THEN <<>> ELSE <<s[i]>>]
  BY <1>1 DEF KeptOf
<1>4. KeptOf(s) \in [1 .. n -> Seq(S)]
  <2>1. \A i \in 1 .. n : <<s[i]>> \in Seq(S) /\ <<>> \in Seq(S)
    BY <1>2, EmptySeq, Single
  <2> QED
    BY <1>3, <2>1
<1>5. KeptOf(s) \in Seq(Seq(S)) /\ Len(KeptOf(s)) = n
  BY <1>4, FunctionIsSeq
<1> QED
  BY <1>1, <1>3, <1>5

\* Bytes that do not end in a return can be looked at by themselves.
LEMMA KeptConcat ==
  ASSUME NEW S, NEW r \in Seq(S), NEW t \in Seq(S), r = <<>> \/ Last(r) # "cr"
  PROVE  Kept(r \o t) = Kept(r) \o Kept(t)
<1>1. PICK n \in Nat : n = Len(r)
  BY LenProperties
<1>2. PICK m \in Nat : m = Len(t)
  BY LenProperties
<1> DEFINE c == r \o t
           a == KeptOf(r)
           b == KeptOf(t)
           d == KeptOf(c)
           e == a \o b
<1>3. c \in Seq(S) /\ Len(c) = n + m
      /\ \A i \in 1 .. n + m : c[i] = IF i <= n THEN r[i] ELSE t[i - n]
  BY <1>1, <1>2, ConcatProperties
<1>4. a \in Seq(Seq(S)) /\ Len(a) = n
      /\ \A i \in 1 .. n : a[i] = IF r[i] = "cr" /\ i < n /\ r[i + 1] = "nl" THEN <<>> ELSE <<r[i]>>
  BY <1>1, KeptOfType
<1>5. b \in Seq(Seq(S)) /\ Len(b) = m
      /\ \A i \in 1 .. m : b[i] = IF t[i] = "cr" /\ i < m /\ t[i + 1] = "nl" THEN <<>> ELSE <<t[i]>>
  BY <1>2, KeptOfType
<1> HIDE DEF c
<1>6. d \in Seq(Seq(S)) /\ Len(d) = n + m
      /\ \A i \in 1 .. n + m :
           d[i] = IF c[i] = "cr" /\ i < n + m /\ c[i + 1] = "nl" THEN <<>> ELSE <<c[i]>>
  BY <1>3, KeptOfType
<1> HIDE DEF a, b, d
<1>7. e \in Seq(Seq(S)) /\ Len(e) = n + m
      /\ \A i \in 1 .. n + m : e[i] = IF i <= n THEN a[i] ELSE b[i - n]
  BY <1>4, <1>5, ConcatProperties
<1> HIDE DEF e
<1>8. \A i \in 1 .. n + m : d[i] = e[i]
  <2> SUFFICES ASSUME NEW i \in 1 .. n + m PROVE d[i] = e[i]
    OBVIOUS
  <2>1. CASE i < n
    <3>1. i \in 1 .. n /\ i + 1 \in 1 .. n + m /\ i <= n /\ i + 1 <= n /\ i < n + m
      BY <2>1
    <3>2. c[i] = r[i] /\ c[i + 1] = r[i + 1]
      BY <1>3, <3>1
    <3> QED
      BY <1>4, <1>6, <1>7, <2>1, <3>1, <3>2
  <2>2. CASE i = n
    <3>1. i \in 1 .. n /\ n # 0
      BY <2>2
    <3>2. r[n] # "cr" /\ c[i] = r[i]
      <4>1. r # <<>>
        BY <1>1, <3>1, EmptySeq
      <4> QED
        BY <1>1, <1>3, <2>2, <4>1 DEF Last
    <3> QED
      BY <1>4, <1>6, <1>7, <2>2, <3>1, <3>2
  <2>3. CASE i > n
    <3>1. i - n \in 1 .. m /\ ~(i <= n) /\ (i < n + m <=> i - n < m)
      BY <2>3
    <3>2. c[i] = t[i - n]
      BY <1>3, <3>1
    <3>3. ASSUME i < n + m PROVE c[i + 1] = t[(i - n) + 1]
      <4>1. i + 1 \in 1 .. n + m /\ ~(i + 1 <= n) /\ (i + 1) - n = (i - n) + 1
        BY <2>3, <3>3
      <4> QED
        BY <1>3, <4>1
    <3>4. b[i - n] = IF t[i - n] = "cr" /\ i - n < m /\ t[(i - n) + 1] = "nl"
                       THEN <<>> ELSE <<t[i - n]>>
      BY <1>5, <3>1
    <3>5. e[i] = b[i - n]
      BY <1>7, <3>1
    <3> QED
      BY <1>6, <3>1, <3>2, <3>3, <3>4, <3>5
  <2> QED
    BY <2>1, <2>2, <2>3
<1>9. d = e
  BY <1>6, <1>7, <1>8, SeqEqual
<1>10. FlattenSeq(e) = FlattenSeq(a) \o FlattenSeq(b)
  BY <1>4, <1>5, FlattenConcat DEF e
<1> QED
  BY <1>9, <1>10 DEF Kept, c, d, a, b

\* One line.
LEMMA KeptLine ==
  ASSUME NEW S, "nl" \in S, NEW x \in Seq(S), ~Contains(x, "nl")
  PROVE  Kept(Append(x, "nl")) = Append(Chomp(x), "nl") /\ Chomp(x) \in Seq(S)
<1> DEFINE y == Append(x, "nl")
           p == KeptOf(y)
<1>1. PICK n \in Nat : n = Len(x)
  BY LenProperties
<1>2. y \in Seq(S) /\ Len(y) = n + 1 /\ (\A i \in 1 .. n : y[i] = x[i]) /\ y[n + 1] = "nl"
  BY <1>1, AppendProperties
<1>3. \A i \in 1 .. n : x[i] # "nl"
  BY <1>1 DEF Contains
<1> HIDE DEF y
<1>4. p \in Seq(Seq(S)) /\ Len(p) = n + 1
      /\ \A i \in 1 .. n + 1 :
           p[i] = IF y[i] = "cr" /\ i < n + 1 /\ y[i + 1] = "nl" THEN <<>> ELSE <<y[i]>>
  BY <1>2, KeptOfType
<1> HIDE DEF p
<1>5. CASE ~(x # <<>> /\ Last(x) = "cr")
  <2> DEFINE z == [i \in 1 .. Len(y) |-> <<y[i]>>]
  <2>1. \A i \in 1 .. n + 1 : p[i] = <<y[i]>>
    <3> SUFFICES ASSUME NEW i \in 1 .. n + 1, y[i] = "cr", i < n + 1, y[i + 1] = "nl" PROVE FALSE
      BY <1>4
    <3>1. CASE i < n
      <4>1. i + 1 \in 1 .. n
        BY <3>1
      <4> QED
        BY <1>2, <1>3, <4>1
    <3>2. CASE i = n
      <4>1. n \in 1 .. n /\ x # <<>> /\ y[n] = x[n]
        BY <1>1, <1>2, <3>2, EmptySeq
      <4> QED
        BY <1>1, <1>5, <3>2, <4>1 DEF Last
    <3> QED
      BY <3>1, <3>2
  <2>2. z \in [1 .. n + 1 -> Seq(S)]
    <3>1. \A i \in 1 .. n + 1 : <<y[i]>> \in Seq(S)
      BY <1>2, ElementOfSeq, Single
    <3> QED
      BY <1>2, <3>1
  <2>3. z \in Seq(Seq(S)) /\ Len(z) = n + 1
    BY <2>2, FunctionIsSeq
  <2>4. \A i \in 1 .. n + 1 : p[i] = z[i]
    BY <1>2, <2>1
  <2>5. FlattenSeq(z) = y
    BY <1>2, FlattenSingles
  <2> HIDE DEF z
  <2>6. p = z
    BY <1>4, <2>3, <2>4, SeqEqual
  <2>7. FlattenSeq(p) = y
    BY <2>5, <2>6
  <2> QED
    BY <1>5, <2>7 DEF Kept, Chomp, p, y
<1>6. CASE x # <<>> /\ Last(x) = "cr"
  <2> DEFINE f == Front(x)
             z == [i \in 1 .. Len(f) |-> <<f[i]>>]
             w == Append(z, <<>>)
             v == Append(w, <<"nl">>)
  <2>1. f \in Seq(S) /\ Len(f) = n - 1 /\ n \in Nat \ {0} /\ x[n] = "cr"
        /\ \A i \in 1 .. n - 1 : f[i] = x[i]
    BY <1>1, <1>6, FrontAndLast
  <2>2. FlattenSeq(z) = f
    BY <2>1, FlattenSingles
  <2> HIDE DEF f
  <2>3. z \in Seq(Seq(S)) /\ Len(z) = n - 1 /\ \A i \in 1 .. n - 1 : z[i] = <<f[i]>>
    <3>1. \A i \in 1 .. n - 1 : <<f[i]>> \in Seq(S)
      BY <2>1, ElementOfSeq, Single
    <3>2. z \in [1 .. n - 1 -> Seq(S)] /\ n - 1 \in Nat
      BY <2>1, <3>1
    <3> QED
      BY <2>1, <3>2, FunctionIsSeq
  <2> HIDE DEF z
  <2> DEFINE o == <<>>
             l == <<"nl">>
  <2>4. o \in Seq(S) /\ l \in Seq(S)
    BY Single, EmptySeq
  <2>5. w \in Seq(Seq(S)) /\ FlattenSeq(w) = f \o o
        /\ Len(w) = (n - 1) + 1 /\ (\A i \in 1 .. n - 1 : w[i] = z[i]) /\ w[(n - 1) + 1] = o
    <3> HIDE DEF o
    <3>1. FlattenSeq(Append(z, o)) = FlattenSeq(z) \o o
      BY <2>3, <2>4, FlattenAppend
    <3>2. Append(z, o) \in Seq(Seq(S)) /\ Len(Append(z, o)) = Len(z) + 1
          /\ (\A i \in 1 .. Len(z) : Append(z, o)[i] = z[i]) /\ Append(z, o)[Len(z) + 1] = o
      BY <2>3, <2>4, AppendProperties
    <3>3. w = Append(z, o)
      BY DEF o
    <3> HIDE DEF w
    <3> QED
      BY <2>2, <2>3, <3>1, <3>2, <3>3
  <2> HIDE DEF w
  <2>6. v \in Seq(Seq(S)) /\ FlattenSeq(v) = FlattenSeq(w) \o l
        /\ Len(v) = n + 1 /\ (\A i \in 1 .. n : v[i] = w[i]) /\ v[n + 1] = l
    <3> HIDE DEF l
    <3>1. FlattenSeq(Append(w, l)) = FlattenSeq(w) \o l
      BY <2>4, <2>5, FlattenAppend
    <3>2. Append(w, l) \in Seq(Seq(S)) /\ Len(Append(w, l)) = Len(w) + 1
          /\ (\A i \in 1 .. Len(w) : Append(w, l)[i] = w[i]) /\ Append(w, l)[Len(w) + 1] = l
      BY <2>4, <2>5, AppendProperties
    <3>3. v = Append(w, l) /\ Len(w) = n /\ n \in Nat
      BY <2>1, <2>5 DEF l
    <3> HIDE DEF v
    <3> QED
      BY <3>1, <3>2, <3>3
  <2> HIDE DEF v
  <2>7. \A i \in 1 .. n + 1 : p[i] = v[i]
    <3> SUFFICES ASSUME NEW i \in 1 .. n + 1 PROVE p[i] = v[i]
      OBVIOUS
    <3>1. CASE i < n
      <4>1. i \in 1 .. n - 1 /\ i + 1 \in 1 .. n /\ i \in 1 .. n
        BY <3>1
      <4>2. y[i + 1] # "nl" /\ y[i] = f[i]
        BY <1>2, <1>3, <2>1, <4>1
      <4>3. p[i] = <<f[i]>>
        BY <1>4, <4>2
      <4> QED
        BY <2>3, <2>5, <2>6, <4>1, <4>3
    <3>2. CASE i = n
      <4>1. n \in 1 .. n /\ y[n] = "cr" /\ y[n + 1] = "nl" /\ n < n + 1
        BY <1>2, <2>1
      <4>2. p[n] = <<>>
        BY <1>4, <3>2, <4>1
      <4>3. (n - 1) + 1 = n
        BY <2>1
      <4> QED
        BY <2>5, <2>6, <3>2, <4>1, <4>2, <4>3
    <3>3. CASE i = n + 1
      <4>1. ~(n + 1 < n + 1)
        OBVIOUS
      <4>2. p[n + 1] = <<"nl">>
        BY <1>2, <1>4, <3>3, <4>1
      <4> QED
        BY <2>6, <3>3, <4>2
    <3> QED
      BY <3>1, <3>2, <3>3
  <2>8. p = v
    <3> DEFINE T == Seq(S)
    <3>1. p \in Seq(T) /\ v \in Seq(T) /\ Len(p) = Len(v) /\ \A i \in 1 .. Len(p) : p[i] = v[i]
      BY <1>4, <2>6, <2>7
    <3> HIDE DEF T, o, l
    <3> QED
      BY <3>1, SeqEqual
  <2>9. f \o o = f
    BY <2>1, ConcatEmptySeq
  <2>10. Append(f, "nl") = f \o l
    BY <2>1, AppendOne
  <2>11. Kept(y) = Append(f, "nl")
    BY <2>5, <2>6, <2>8, <2>9, <2>10 DEF Kept, p
  <2> QED
    BY <1>6, <2>1, <2>11 DEF Chomp, f, y
<1> QED
  BY <1>5, <1>6

----------------------------------------------------------------------------
(* The messages that calls can build *)

Keys  == ToSet(KeyOrder)
Words == ToSet(FlagOrder)

\* Args and flags the orders know, words for names, and any text for values.
Sendable ==
  [type : Types, command : Name, handle : Name, code : Name, text : Text,
   args : UNION {[K -> Text] : K \in SUBSET Keys}, flags : SUBSET Words]

\* A string up to its first zero byte is of the same units.
LEMMA CStringType ==
  ASSUME NEW S, NEW s \in Seq(S)
  PROVE  CString(s) \in Seq(S)
<1> DEFINE e == SelectInSeq(s, LAMBDA u : u = "nul")
<1>1. e = Position(s, "nul")
  BY DEF SelectInSeq, Position
<1>2. e \in 0 .. Len(s)
  BY <1>1, FirstPosition, LenProperties
<1>3. CString(s) = IF e = 0 THEN s ELSE SubSeq(s, 1, e - 1)
  BY DEF CString
<1> HIDE DEF e
<1>4. e # 0 => e - 1 \in 0 .. Len(s)
  BY <1>2, LenProperties
<1> QED
  BY <1>3, <1>4, PrefixOf

\* The empty name, and names are text.
LEMMA NoNames == <<>> \in Name /\ <<>> \in Text /\ Name \subseteq Text
<1>1. \A s \in Name : s \in Text
  BY SeqMonotonic DEF Name, Text
<1> QED
  BY <1>1, EmptySeq DEF Name, Text

\* One call.
LEMMA ApplyType ==
  ASSUME NEW m \in Sendable,
         NEW c \in [op : Ops, key : Text \cup {NullPtr}, value : Text \cup {NullPtr}],
         IsCall(c)
  PROVE  Apply(m, c) \in Sendable
<1>1. CASE ~Effective(c)
  BY <1>1 DEF Apply
<1>2. CASE Effective(c)
  <2>1. c.op \in Ops /\ c.key \in Text /\ c.value \in Text
    BY <1>2 DEF Effective
  <2> DEFINE k == CString(c.key)
             v == CString(c.value)
  <2>2. k \in Text /\ v \in Text
    BY <2>1, CStringType DEF Text
  <2>3. c.op = "arg" => k \in Keys
    BY <1>2 DEF IsCall, Keys
  <2>4. c.op = "flag" => v \in Words
    BY <1>2 DEF IsCall, Words
  <2>5. c.op \in {"command", "handle", "code"} => v \in Name
    <3> SUFFICES ASSUME c.op \in {"command", "handle", "code"} PROVE v \in Name
      OBVIOUS
    <3>1. c.op # "arg" /\ c.op # "flag" /\ c.op # "text"
      OBVIOUS
    <3>2. CString(c.value) \in Name
      BY <1>2, <3>1 DEF IsCall
    <3> QED
      BY <3>2
  <2>6. Apply(m, c) = CASE c.op = "arg"  -> [m EXCEPT !.args = Assign(@, k, v)]
                        [] c.op = "flag" -> [m EXCEPT !.flags = @ \cup {v}]
                        [] OTHER         -> [m EXCEPT ![c.op] = v]
    BY <1>2 DEF Apply
  <2> HIDE DEF k, v
  <2>7. CASE c.op = "arg"
    <3>1. PICK K \in SUBSET Keys : m.args \in [K -> Text]
      BY DEF Sendable
    <3>2. Assign(m.args, k, v) \in [K \cup {k} -> Text] /\ K \cup {k} \in SUBSET Keys
      BY <2>2, <2>3, <2>7, <3>1 DEF Assign
    <3>3. Assign(m.args, k, v) \in UNION {[L -> Text] : L \in SUBSET Keys}
      BY <3>2
    <3>4. Apply(m, c) = [m EXCEPT !.args = Assign(m.args, k, v)]
      BY <2>6, <2>7
    <3> QED
      BY <3>3, <3>4 DEF Sendable
  <2>8. CASE c.op = "flag"
    BY <2>4, <2>6, <2>8 DEF Sendable
  <2>9. CASE c.op \in {"command", "handle", "code", "text"}
    <3>1. Apply(m, c) = [m EXCEPT ![c.op] = v]
      BY <2>6, <2>9
    <3>2. CASE c.op = "command"
      BY <2>5, <3>1, <3>2 DEF Sendable
    <3>3. CASE c.op = "handle"
      BY <2>5, <3>1, <3>3 DEF Sendable
    <3>4. CASE c.op = "code"
      BY <2>5, <3>1, <3>4 DEF Sendable
    <3>5. CASE c.op = "text"
      BY <2>2, <3>1, <3>5 DEF Sendable
    <3> QED
      BY <2>9, <3>2, <3>3, <3>4, <3>5
  <2> QED
    BY <2>1, <2>7, <2>8, <2>9 DEF Ops
<1> QED
  BY <1>1, <1>2

\* What the calls of p make of the message, one after the other.
BuiltBy(p, g, S) ==
  /\ g[0] = Create(p.type) /\ g[Len(p.calls)] = Built(p)
  /\ \A i \in 1 .. Len(p.calls) : g[i] = Apply(g[i - 1], p.calls[i])
  /\ \A i \in 0 .. Len(p.calls) : g[i] \in S

\* What holds of the empty message, and still after each call, holds of what the
\* calls build.
LEMMA BuiltIn ==
  ASSUME NEW p \in Programs, NEW S, Create(p.type) \in S,
         \A i \in 1 .. Len(p.calls) : \A m \in S : Apply(m, p.calls[i]) \in S
  PROVE  Built(p) \in S /\ \E g : BuiltBy(p, g, S)
<1>1. p.calls \in Seq([op : Ops, key : Text \cup {NullPtr}, value : Text \cup {NullPtr}])
  BY RoundTripAssumption
<1>2. PICK n \in Nat : n = Len(p.calls) /\ DOMAIN p.calls = 1 .. n
  BY <1>1, LenProperties
<1>3. \A i \in 1 .. n : \A m \in S : Apply(m, p.calls[i]) \in S
  BY <1>2
<1> DEFINE Run(f) == f = [i \in 0 .. n |-> IF i = 0 THEN Create(p.type) ELSE Apply(f[i - 1], p.calls[i])]
<1>4. \E f : Run(f)
  <2> DEFINE step == [i \in 1 .. n |-> [m \in S |-> Apply(m, p.calls[i])]]
  <2>1. step \in [1 .. n -> [S -> S]]
    BY <1>3
  <2>2. \A i \in 1 .. n, m \in S : step[i][m] = Apply(m, p.calls[i])
    OBVIOUS
  <2> HIDE DEF step
  <2>3. PICK f \in [0 .. n -> S] :
          f[0] = Create(p.type) /\ \A i \in 1 .. n : f[i] = step[i][f[i - 1]]
    <3>1. PICK f : Iterates(f, step, Create(p.type), n, S)
      BY <2>1, Iteration
    <3> QED
      BY <3>1 DEF Iterates
  <2>4. \A i \in 0 .. n : i # 0 => i \in 1 .. n /\ i - 1 \in 0 .. n
    OBVIOUS
  <2>5. \A i \in 0 .. n : f[i] = IF i = 0 THEN Create(p.type) ELSE Apply(f[i - 1], p.calls[i])
    BY <2>2, <2>3, <2>4
  <2>6. Run(f)
    <3> DEFINE h == [i \in 0 .. n |-> IF i = 0 THEN Create(p.type) ELSE Apply(f[i - 1], p.calls[i])]
    <3>1. f = [i \in 0 .. n |-> f[i]]
      BY <2>3
    <3>2. DOMAIN f = 0 .. n /\ DOMAIN h = 0 .. n /\ \A i \in 0 .. n : h[i] = f[i]
      BY <2>3, <2>5
    <3>3. h = [i \in 0 .. n |-> h[i]]
      OBVIOUS
    <3> HIDE DEF h
    <3>4. f = h
      BY <3>1, <3>2, <3>3
    <3> QED
      BY <3>4 DEF h
  <2> QED
    BY <2>6
<1> DEFINE g == CHOOSE f : Run(f)
<1>5. Run(g)
  BY <1>4
<1>6. Built(p) = g[n]
  BY <1>2 DEF Built
<1> HIDE DEF g
<1>7. \A i \in 0 .. n : g[i] = IF i = 0 THEN Create(p.type) ELSE Apply(g[i - 1], p.calls[i])
  BY <1>5
<1>8. \A i \in 0 .. n : g[i] \in S
  <2> DEFINE B == {i \in 0 .. n : g[i] \notin S}
  <2>1. \A i \in B : i - 1 \in B
    <3> SUFFICES ASSUME NEW i \in 0 .. n, g[i] \notin S
                 PROVE  i - 1 \in 0 .. n /\ g[i - 1] \notin S
      OBVIOUS
    <3>1. i # 0
      BY <1>7
    <3>2. i \in 1 .. n /\ i - 1 \in 0 .. n
      BY <3>1
    <3>3. g[i] = Apply(g[i - 1], p.calls[i])
      BY <1>7, <3>1
    <3> QED
      BY <1>3, <3>2, <3>3
  <2>2. B \subseteq Nat
    OBVIOUS
  <2>3. B = {}
    <3> HIDE DEF B
    <3> QED
      BY <2>1, <2>2, NoFirst
  <2> QED
    BY <2>3
<1>9. \A i \in 1 .. n : i \in 0 .. n /\ i # 0
  OBVIOUS
<1>10. BuiltBy(p, g, S)
  <2>1. g[0] = Create(p.type)
    <3>1. 0 \in 0 .. n
      BY <1>2
    <3> QED
      BY <1>7, <3>1
  <2>2. ASSUME NEW i \in 1 .. n
        PROVE  g[i] = Apply(g[i - 1], p.calls[i])
    BY <1>7, <1>9
  <2>3. g[n] = Built(p)
    BY <1>6
  <2> HIDE DEF Run
  <2>4. (\A i \in 1 .. n : g[i] = Apply(g[i - 1], p.calls[i])) /\ \A i \in 0 .. n : g[i] \in S
    BY <2>2, <1>8
  <2>5. n = Len(p.calls)
    BY <1>2
  <2> QED
    BY ONLY <2>1, <2>3, <2>4, <2>5 DEF BuiltBy
<1> QED
  BY <1>2, <1>6, <1>8, <1>10

\* Whatever the calls, what they build can be sent.
LEMMA BuiltType ==
  ASSUME NEW p \in Programs
  PROVE  Built(p) \in Sendable
<1>1. /\ p.type \in Types
      /\ p.calls \in Seq([op : Ops, key : Text \cup {NullPtr}, value : Text \cup {NullPtr}])
      /\ \A i \in DOMAIN p.calls : IsCall(p.calls[i])
  BY RoundTripAssumption
<1>2. \A i \in 1 .. Len(p.calls) :
        /\ p.calls[i] \in [op : Ops, key : Text \cup {NullPtr}, value : Text \cup {NullPtr}]
        /\ IsCall(p.calls[i])
  BY <1>1, LenProperties, ElementOfSeq
<1>3. Create(p.type) \in Sendable
  <2>1. <<>> \in [{} -> Text] /\ {} \in SUBSET Keys
    OBVIOUS
  <2>2. <<>> \in UNION {[K -> Text] : K \in SUBSET Keys}
    BY <2>1
  <2> QED
    BY <1>1, <2>2, NoNames DEF Create, Sendable
<1>4. \A i \in 1 .. Len(p.calls) : \A m \in Sendable : Apply(m, p.calls[i]) \in Sendable
  BY <1>2, ApplyType
<1> QED
  BY <1>3, <1>4, BuiltIn

----------------------------------------------------------------------------
(* The parts of serialize() *)

\* What is written before and after the args.
Opening(m) ==
  CASE m.type = "request"  -> m.command \o Optional(m.handle # <<>>, <<"sp", "~">> \o m.handle)
    [] m.type = "response" -> (Addressed(m) \o <<"sp", "ok">>) \o serializeFlags(m.flags \ {<<"ok">>})
    [] m.type = "error"    -> ((Addressed(m) \o <<"sp", "error">>)
                                 \o Optional(m.code # <<>>, <<"sp", "code", "=">> \o m.code))
                                 \o InQuotes("what", m.text)
    [] m.type = "witness"  -> <<"witness">> \o InQuotes("body", m.text)
    [] m.type = "publish"  -> <<"publish">> \o Optional(m.command # <<>>, <<"sp">> \o m.command)

Ending(m) ==
  CASE m.type = "response" -> <<>>
    [] m.type = "error"    -> serializeFlags(m.flags) \o <<"sp", "node_error">>
    [] OTHER               -> serializeFlags(m.flags)

\* Each arg, and those from the i-th key on.
ArgAt(m, i) ==
  Optional(KeyOrder[i] \in DOMAIN m.args, serializeArg(KeyOrder[i], m.args[KeyOrder[i]]))

ArgList(m)   == [i \in DOMAIN KeyOrder |-> ArgAt(m, i)]
ArgsFrom(m, i) == FlattenSeq(SubSeq(ArgList(m), i, Len(KeyOrder)))

\* Units that are in every message.
Common == {"sp", "~", ":", "=", "dq", "witness", "publish", "ok", "error", "node_error",
           "body", "code", "what"}

\* The units of the format are there.
LEMMA UnitsHave == Marks \subseteq Units /\ Common \subseteq Units
BY RoundTripAssumption DEF Marks, Common

\* The orders hold names.
LEMMA OrdersType ==
  \A order \in {KeyOrder, FlagOrder} :
    /\ order \in Seq(Name \ {<<>>}) /\ Len(order) \in Nat /\ DOMAIN order = 1 .. Len(order)
    /\ \A i \in 1 .. Len(order) : order[i] \in Name \ {<<>>}
<1> SUFFICES ASSUME NEW order \in {KeyOrder, FlagOrder}
             PROVE  /\ order \in Seq(Name \ {<<>>}) /\ Len(order) \in Nat
                    /\ DOMAIN order = 1 .. Len(order)
                    /\ \A i \in 1 .. Len(order) : order[i] \in Name \ {<<>>}
  OBVIOUS
<1>1. order \in Seq(Name \ {<<>>})
  BY RoundTripAssumption
<1> QED
  BY <1>1, LenProperties, ElementOfSeq

\* Text without a unit.
LEMMA Without ==
  ASSUME NEW S, NEW s \in Seq(S), NEW u
  PROVE  ~Contains(s, u) <=> s \in Seq(S \ {u})
<1>1. PICK n \in Nat : n = Len(s) /\ s \in [1 .. n -> S] /\ DOMAIN s = 1 .. n
  BY LenProperties
<1>2. ASSUME ~Contains(s, u) PROVE s \in Seq(S \ {u})
  <2>1. \A i \in 1 .. n : s[i] \in S \ {u}
    BY <1>1, <1>2 DEF Contains
  <2>2. s \in [1 .. n -> S \ {u}]
    BY <1>1, <2>1
  <2> QED
    BY <2>2, FunctionIsSeq
<1>3. ASSUME s \in Seq(S \ {u}) PROVE ~Contains(s, u)
  <2>1. \A i \in 1 .. n : s[i] \in S \ {u}
    BY <1>1, <1>3, ElementOfSeq
  <2> QED
    BY <1>1, <2>1 DEF Contains
<1> QED
  BY <1>2, <1>3

\* A name is in every text that may have all units that are not marks.
LEMMA NameIn ==
  ASSUME NEW V, Units \ Marks \subseteq V, NEW s \in Name
  PROVE  s \in Seq(V)
BY SeqMonotonic DEF Name

\* Flags are written with the units of names, and spaces.
LEMMA FlagsType ==
  ASSUME NEW V, (Units \ Marks) \cup {"sp"} \subseteq V, NEW flags
  PROVE  serializeFlags(flags) \in Seq(V)
<1> DEFINE s == [i \in DOMAIN FlagOrder |->
                   Optional(FlagOrder[i] \in flags, <<"sp">> \o FlagOrder[i])]
<1>1. PICK n \in Nat : n = Len(FlagOrder) /\ DOMAIN FlagOrder = 1 .. n
                       /\ \A i \in 1 .. n : FlagOrder[i] \in Name \ {<<>>}
  BY OrdersType
<1>2. \A i \in 1 .. n : Optional(FlagOrder[i] \in flags, <<"sp">> \o FlagOrder[i]) \in Seq(V)
  <2> SUFFICES ASSUME NEW i \in 1 .. n PROVE Optional(FlagOrder[i] \in flags, <<"sp">> \o FlagOrder[i]) \in Seq(V)
    OBVIOUS
  <2>1. FlagOrder[i] \in Seq(V) /\ <<"sp">> \in Seq(V)
    BY <1>1, NameIn, Single
  <2>2. <<"sp">> \o FlagOrder[i] \in Seq(V) /\ <<>> \in Seq(V)
    BY <2>1, ConcatProperties, EmptySeq
  <2> QED
    BY <2>2 DEF Optional
<1>3. s \in [1 .. n -> Seq(V)]
  BY <1>1, <1>2
<1>4. s \in Seq(Seq(V))
  BY <1>3, FunctionIsSeq
<1>5. FlattenSeq(s) \in Seq(V)
  <2> HIDE DEF s
  <2> QED
    BY <1>4, FlattenType
<1> QED
  BY <1>5 DEF serializeFlags

\* what and body bring their quotes.
LEMMA InQuotesType ==
  ASSUME NEW V, NEW k \in V, {"sp", "=", "dq"} \subseteq V, NEW v \in Seq(V)
  PROVE  InQuotes(k, v) \in Seq(V)
<1>1. <<"sp", k, "=", "dq">> \in Seq(V) /\ <<"dq">> \in Seq(V) /\ <<>> \in Seq(V)
  OBVIOUS
<1> DEFINE a == <<"sp", k, "=", "dq">>
           b == <<"dq">>
<1>2. a \in Seq(V) /\ b \in Seq(V)
  BY <1>1
<1>3. InQuotes(k, v) = IF v # <<>> THEN a \o v \o b ELSE <<>>
  BY DEF InQuotes, Optional
<1> HIDE DEF a, b
<1>4. a \o v \o b \in Seq(V)
  BY <1>2, ConcatProperties
<1> QED
  BY <1>1, <1>3, <1>4

\* The first token of a response.
LEMMA AddressedType ==
  ASSUME NEW V, (Units \ Marks) \cup {"~", ":"} \subseteq V,
         NEW m, m.command \in Name, m.handle \in Name
  PROVE  Addressed(m) \in Seq(V)
<1>1. m.command \in Seq(V) /\ m.handle \in Seq(V)
  BY NameIn
<1> DEFINE a == <<"~">>
           b == <<":">>
           h == m.handle
           c == m.command
<1>2. a \in Seq(V) /\ b \in Seq(V) /\ h \in Seq(V) /\ c \in Seq(V)
  BY <1>1
<1>3. Addressed(m) = IF h # <<>> THEN a \o h \o b \o c ELSE c
  BY DEF Addressed
<1> HIDE DEF a, b, h, c
<1>4. a \o h \in Seq(V)
  BY <1>2, ConcatProperties
<1>5. a \o h \o b \in Seq(V)
  BY <1>2, <1>4, ConcatProperties
<1>6. a \o h \o b \o c \in Seq(V)
  BY <1>2, <1>5, ConcatProperties
<1> QED
  BY <1>2, <1>3, <1>6

\* The units of the parts.
LEMMA OpeningType ==
  ASSUME NEW V, (Units \ Marks) \cup Common \subseteq V,
         NEW m \in Sendable, m.text \in Seq(V)
  PROVE  Opening(m) \in Seq(V)
<1>1. /\ m.command \in Seq(V) /\ m.handle \in Seq(V) /\ m.code \in Seq(V)
      /\ Addressed(m) \in Seq(V)
  BY NameIn, AddressedType DEF Sendable, Common
<1>2. /\ <<"sp", "~">> \in Seq(V) /\ <<"sp", "ok">> \in Seq(V) /\ <<"sp", "error">> \in Seq(V)
      /\ <<"sp", "code", "=">> \in Seq(V) /\ <<"witness">> \in Seq(V) /\ <<"publish">> \in Seq(V)
      /\ <<"sp">> \in Seq(V) /\ <<>> \in Seq(V)
  BY DEF Common
<1>3. CASE m.type = "request"
  <2>1. <<"sp", "~">> \o m.handle \in Seq(V)
    BY <1>1, <1>2, ConcatProperties
  <2>2. Optional(m.handle # <<>>, <<"sp", "~">> \o m.handle) \in Seq(V)
    BY <1>2, <2>1 DEF Optional
  <2> QED
    BY <1>1, <1>3, <2>2, ConcatProperties DEF Opening
<1>4. CASE m.type = "response"
  <2>1. Addressed(m) \o <<"sp", "ok">> \in Seq(V)
    BY <1>1, <1>2, ConcatProperties
  <2>2. serializeFlags(m.flags \ {<<"ok">>}) \in Seq(V)
    BY FlagsType DEF Common
  <2> QED
    BY <1>4, <2>1, <2>2, ConcatProperties DEF Opening
<1>5. CASE m.type = "error"
  <2>1. Addressed(m) \o <<"sp", "error">> \in Seq(V)
    BY <1>1, <1>2, ConcatProperties
  <2>2. <<"sp", "code", "=">> \o m.code \in Seq(V)
    BY <1>1, <1>2, ConcatProperties
  <2>3. Optional(m.code # <<>>, <<"sp", "code", "=">> \o m.code) \in Seq(V)
    BY <1>2, <2>2 DEF Optional
  <2>4. InQuotes("what", m.text) \in Seq(V)
    BY InQuotesType DEF Common
  <2>5. (Addressed(m) \o <<"sp", "error">>)
          \o Optional(m.code # <<>>, <<"sp", "code", "=">> \o m.code) \in Seq(V)
    BY <2>1, <2>3, ConcatProperties
  <2> QED
    BY <1>5, <2>4, <2>5, ConcatProperties DEF Opening
<1>6. CASE m.type = "witness"
  <2>1. InQuotes("body", m.text) \in Seq(V)
    BY InQuotesType DEF Common
  <2> QED
    BY <1>2, <1>6, <2>1, ConcatProperties DEF Opening
<1>7. CASE m.type = "publish"
  <2>1. <<"sp">> \o m.command \in Seq(V)
    BY <1>1, <1>2, ConcatProperties
  <2>2. Optional(m.command # <<>>, <<"sp">> \o m.command) \in Seq(V)
    BY <1>2, <2>1 DEF Optional
  <2> QED
    BY <1>2, <1>7, <2>2, ConcatProperties DEF Opening
<1> QED
  BY <1>3, <1>4, <1>5, <1>6, <1>7 DEF Sendable, Types

\* What is written behind the args.
LEMMA EndingType ==
  ASSUME NEW V, (Units \ Marks) \cup Common \subseteq V, NEW m \in Sendable
  PROVE  Ending(m) \in Seq(V)
<1>1. serializeFlags(m.flags) \in Seq(V) /\ <<"sp", "node_error">> \in Seq(V) /\ <<>> \in Seq(V)
  BY FlagsType DEF Common
<1>2. serializeFlags(m.flags) \o <<"sp", "node_error">> \in Seq(V)
  BY <1>1, ConcatProperties
<1>3. CASE m.type = "response"
  BY <1>1, <1>3 DEF Ending
<1>4. CASE m.type = "error"
  BY <1>2, <1>4 DEF Ending
<1>5. CASE m.type # "response" /\ m.type # "error"
  BY <1>1, <1>5 DEF Ending
<1> QED
  BY <1>3, <1>4, <1>5

\* An arg on one line has no units but those of its value and its quotes.
LEMMA OneLineType ==
  ASSUME NEW V, (Units \ Marks) \cup {"sp", "=", "dq", "sq"} \subseteq V,
         NEW k \in Name, NEW v \in Seq(V), ~Contains(v, "nl")
  PROVE  serializeArg(k, v) \in Seq(V)
<1> DEFINE a == <<"sp">>
           e == <<"=">>
           d == <<"dq">>
           s == <<"sq">>
<1>1. a \in Seq(V) /\ e \in Seq(V) /\ d \in Seq(V) /\ s \in Seq(V) /\ k \in Seq(V)
  BY NameIn
<1>2. Quoted(v) \in {s \o v \o s, d \o v \o d, v}
  BY DEF Quoted
<1>3. serializeArg(k, v) = ((a \o k) \o e) \o Quoted(v)
  BY DEF serializeArg
<1> HIDE DEF a, e, d, s
<1>4. s \o v \o s \in Seq(V) /\ d \o v \o d \in Seq(V)
  BY <1>1, ConcatProperties
<1>5. Quoted(v) \in Seq(V)
  BY <1>2, <1>4
<1>6. (a \o k) \o e \in Seq(V)
  BY <1>1, ConcatProperties
<1> QED
  BY <1>3, <1>5, <1>6, ConcatProperties

\* An arg on several lines.
LEMMA BlockIs ==
  ASSUME NEW V, (Units \ Marks) \cup {"sp", "=", "nl", "<<", ">>"} \subseteq V,
         NEW k \in Name, NEW v \in Seq(V), Contains(v, "nl")
  PROVE  /\ serializeArg(k, v) = ((((<<"sp">> \o k) \o <<"=">>) \o <<"<<", "nl">>) \o v) \o <<"nl", ">>">>
         /\ serializeArg(k, v) \in Seq(V)
<1> DEFINE a == <<"sp">>
           e == <<"=">>
           b == <<"<<", "nl">>
           c == <<"nl", ">>">>
<1>1. a \in Seq(V) /\ e \in Seq(V) /\ b \in Seq(V) /\ c \in Seq(V) /\ k \in Seq(V)
  BY NameIn
<1>2. serializeArg(k, v) = ((a \o k) \o e) \o ((b \o v) \o c)
  BY DEF serializeArg, Quoted
<1> HIDE DEF a, e, b, c
<1> DEFINE h == (a \o k) \o e
<1>3. h \in Seq(V)
  BY <1>1, ConcatProperties
<1>4. serializeArg(k, v) = h \o ((b \o v) \o c)
  BY <1>2
<1> HIDE DEF h
<1>5. b \o v \in Seq(V) /\ h \o b \in Seq(V)
  BY <1>1, <1>3, ConcatProperties
<1>6. (h \o b) \o v \in Seq(V)
  BY <1>5, ConcatProperties
<1>7. h \o ((b \o v) \o c) = ((h \o b) \o v) \o c
  <2>1. Same(h \o ((b \o v) \o c), ((h \o b) \o v) \o c)
    BY <1>1, <1>3, FourInARow
  <2> QED
    BY <2>1 DEF Same
<1>9. serializeArg(k, v) = ((h \o b) \o v) \o c
  BY <1>4, <1>7
<1>10. ((h \o b) \o v) \o c \in Seq(V)
  BY <1>1, <1>6, ConcatProperties
<1>11. serializeArg(k, v) \in Seq(V)
  BY <1>9, <1>10
<1> QED
  BY <1>9, <1>11 DEF h, a, e, b, c

\* The args are what each key gives, one after the other.
LEMMA ArgsType ==
  ASSUME NEW m \in Sendable
  PROVE  /\ Len(KeyOrder) \in Nat /\ DOMAIN KeyOrder = 1 .. Len(KeyOrder)
         /\ ArgList(m) \in Seq(Text) /\ Len(ArgList(m)) = Len(KeyOrder)
         /\ \A i \in 1 .. Len(KeyOrder) :
              /\ KeyOrder[i] \in Name /\ ArgList(m)[i] = ArgAt(m, i) /\ ArgAt(m, i) \in Text
              /\ KeyOrder[i] \in DOMAIN m.args => m.args[KeyOrder[i]] \in Text
<1>1. PICK n \in Nat : n = Len(KeyOrder) /\ DOMAIN KeyOrder = 1 .. n
                       /\ \A i \in 1 .. n : KeyOrder[i] \in Name \ {<<>>}
  BY OrdersType
<1>2. PICK K \in SUBSET Keys : m.args \in [K -> Text]
  BY DEF Sendable
<1>3. \A i \in 1 .. n : KeyOrder[i] \in DOMAIN m.args => m.args[KeyOrder[i]] \in Text
  BY <1>2
<1>4. ASSUME NEW i \in 1 .. n PROVE ArgAt(m, i) \in Text
  <2> DEFINE k == KeyOrder[i]
             v == m.args[k]
  <2>1. CASE k \in DOMAIN m.args
    <3>1. v \in Seq(Units) /\ k \in Name
      BY <1>1, <1>3, <2>1 DEF Text
    <3>2. Marks \subseteq Units
      BY UnitsHave
    <3>3. serializeArg(k, v) \in Seq(Units)
      <4> HIDE DEF k, v
      <4>1. CASE Contains(v, "nl")
        <5>1. (Units \ Marks) \cup {"sp", "=", "nl", "<<", ">>"} \subseteq Units
          BY <3>2 DEF Marks
        <5> QED
          BY <3>1, <4>1, <5>1, BlockIs
      <4>2. CASE ~Contains(v, "nl")
        <5>1. (Units \ Marks) \cup {"sp", "=", "dq", "sq"} \subseteq Units
          BY <3>2 DEF Marks
        <5> QED
          BY <3>1, <4>2, <5>1, OneLineType
      <4> QED
        BY <4>1, <4>2
    <3> QED
      BY <2>1, <3>3 DEF ArgAt, Optional, Text
  <2>2. CASE k \notin DOMAIN m.args
    BY <2>2, EmptySeq DEF ArgAt, Optional, Text
  <2> QED
    BY <2>1, <2>2
<1>5. ArgList(m) = [i \in 1 .. n |-> ArgAt(m, i)]
  BY <1>1 DEF ArgList
<1>6. ArgList(m) \in [1 .. n -> Text]
  BY <1>4, <1>5
<1>7. ArgList(m) \in Seq(Text) /\ Len(ArgList(m)) = n
  BY <1>6, FunctionIsSeq
<1>8. \A i \in 1 .. n : ArgList(m)[i] = ArgAt(m, i)
  BY <1>5
<1> QED
  BY <1>1, <1>3, <1>4, <1>7, <1>8

\* The args are written in their order.
LEMMA ArgsAre ==
  ASSUME NEW m \in Sendable
  PROVE  /\ serializeArgs(m.args) = ArgsFrom(m, 1)
         /\ ArgsFrom(m, Len(KeyOrder) + 1) = <<>>
         /\ \A i \in 1 .. Len(KeyOrder) + 1 : ArgsFrom(m, i) \in Text
         /\ \A i \in 1 .. Len(KeyOrder) : ArgsFrom(m, i) = ArgAt(m, i) \o ArgsFrom(m, i + 1)
<1> DEFINE s == ArgList(m)
<1>1. PICK n \in Nat : n = Len(KeyOrder)
  BY ArgsType
<1>2. s \in Seq(Seq(Units)) /\ Len(s) = n /\ \A i \in 1 .. n : s[i] = ArgAt(m, i) /\ s[i] \in Seq(Units)
  BY <1>1, ArgsType DEF Text
<1>3. serializeArgs(m.args) = FlattenSeq(s)
  BY DEF serializeArgs, ArgList, ArgAt
<1>4. \A i : ArgsFrom(m, i) = FlattenSeq(SubSeq(s, i, n))
  BY <1>1 DEF ArgsFrom
<1> HIDE DEF s
<1>5. SubSeq(s, 1, n) = s
  BY <1>2, SubSeqFull
<1>6. \A i \in 1 .. n + 1 : SubSeq(s, i, n) \in Seq(Seq(Units))
  <2> SUFFICES ASSUME NEW i \in 1 .. n + 1 PROVE SubSeq(s, i, n) \in Seq(Seq(Units))
    OBVIOUS
  <2>1. \A j \in i .. n : s[j] \in Seq(Units)
    <3> SUFFICES ASSUME NEW j \in i .. n PROVE s[j] \in Seq(Units)
      OBVIOUS
    <3>1. j \in 1 .. n
      OBVIOUS
    <3> QED
      BY <1>2, <3>1
  <2>2. i \in Int /\ n \in Int
    OBVIOUS
  <2> QED
    BY <2>1, <2>2, SubSeqProperties
<1>7. SubSeq(s, n + 1, n) = <<>>
  <2>1. n + 1 \in Int /\ n \in Int /\ n < n + 1
    OBVIOUS
  <2> QED
    BY <2>1, SubSeqEmpty
<1>8. \A i \in 1 .. n + 1 : ArgsFrom(m, i) \in Text
  <2> SUFFICES ASSUME NEW i \in 1 .. n + 1 PROVE ArgsFrom(m, i) \in Text
    OBVIOUS
  <2>1. FlattenSeq(SubSeq(s, i, n)) \in Seq(Units)
    BY <1>6, FlattenType
  <2> QED
    BY <1>4, <2>1 DEF Text
<1>9. ASSUME NEW i \in 1 .. n PROVE ArgsFrom(m, i) = ArgAt(m, i) \o ArgsFrom(m, i + 1)
  <2> DEFINE x == s[i]
             y == <<x>>
             r == SubSeq(s, i + 1, n)
  <2>1. x \in Seq(Units) /\ x = ArgAt(m, i)
    BY <1>2
  <2>2. y \in Seq(Seq(Units)) /\ FlattenSeq(y) = x
    <3> HIDE DEF x
    <3> QED
      BY <2>1, FlattenOne
  <2>3. r \in Seq(Seq(Units))
    <3>1. i + 1 \in 1 .. n + 1
      OBVIOUS
    <3> QED
      BY <1>6, <3>1
  <2>4. SubSeq(s, i, n) = y \o r
    <3>1. i \in 1 .. Len(s) /\ n \in i .. Len(s)
      BY <1>2
    <3> QED
      BY <1>2, <3>1, SubSeqRecursiveFirst
  <2> HIDE DEF y, r
  <2>5. FlattenSeq(y \o r) = FlattenSeq(y) \o FlattenSeq(r)
    BY <2>2, <2>3, FlattenConcat
  <2> QED
    BY <1>4, <2>1, <2>2, <2>4, <2>5 DEF r
<1>10. FlattenSeq(<<>>) = <<>>
  BY EmptySeq, FlattenType
<1> QED
  BY <1>1, <1>3, <1>4, <1>5, <1>7, <1>8, <1>9, <1>10

\* serialize() and its newline.
LEMMA SerializeIs ==
  ASSUME NEW m \in Sendable
  PROVE  /\ serialize(m) = Append((Opening(m) \o ArgsFrom(m, 1)) \o Ending(m), "nl")
         /\ Opening(m) \in Text /\ ArgsFrom(m, 1) \in Text /\ Ending(m) \in Text
         /\ serialize(m) \in Text
<1> DEFINE a == ArgsFrom(m, 1)
           f == serializeFlags(m.flags)
           o == Opening(m)
<1>1. Opening(m) \in Text /\ Ending(m) \in Text
  <2>1. (Units \ Marks) \cup Common \subseteq Units
    BY UnitsHave
  <2> QED
    BY <2>1, OpeningType, EndingType DEF Sendable, Text
<1>2. a \in Text /\ serializeArgs(m.args) = a
  BY ArgsAre, ArgsType
<1>3. f \in Text
  BY FlagsType, UnitsHave DEF Text, Common
<1>4. serialize(m) = Append((o \o a) \o Ending(m), "nl")
  <2> DEFINE n == <<"sp", "node_error">>
  <2>1. n \in Text
    BY UnitsHave DEF Text, Common
  <2>2. CASE m.type = "request"
    BY <1>2, <2>2 DEF serialize, serializeRequest, Opening, Ending
  <2>3. CASE m.type = "response"
    <3>1. serialize(m) = Append(o \o a, "nl") /\ Ending(m) = <<>>
      BY <1>2, <2>3 DEF serialize, serializeResponse, Opening, Ending
    <3> HIDE DEF o, a
    <3>2. o \o a \in Text
      BY <1>1, <1>2, ConcatProperties DEF Text, o
    <3>3. (o \o a) \o <<>> = o \o a
      BY <3>2, ConcatEmptySeq DEF Text
    <3> QED
      BY <3>1, <3>3
  <2>4. CASE m.type = "error"
    <3>1. serialize(m) = Append(((o \o a) \o f) \o n, "nl") /\ Ending(m) = f \o n
      BY <1>2, <2>4 DEF serialize, serializeError, Opening, Ending
    <3> HIDE DEF o, a, f, n
    <3>2. o \o a \in Text
      BY <1>1, <1>2, ConcatProperties DEF Text, o
    <3>3. ((o \o a) \o f) \o n = (o \o a) \o (f \o n)
      BY <1>3, <2>1, <3>2, ConcatAssociative DEF Text
    <3> QED
      BY <3>1, <3>3
  <2>5. CASE m.type = "witness"
    BY <1>2, <2>5 DEF serialize, serializeWitness, Opening, Ending
  <2>6. CASE m.type = "publish"
    BY <1>2, <2>6 DEF serialize, serializePublish, Opening, Ending
  <2> QED
    BY <2>2, <2>3, <2>4, <2>5, <2>6 DEF Sendable, Types
<1>5. serialize(m) \in Text
  <2>1. o \o a \in Text
    BY <1>1, <1>2, ConcatProperties DEF Text
  <2>2. (o \o a) \o Ending(m) \in Text /\ "nl" \in Units
    BY <1>1, <2>1, ConcatProperties, UnitsHave DEF Text, Marks
  <2> QED
    BY <1>4, <2>2, AppendProperties DEF Text
<1> QED
  BY <1>1, <1>2, <1>4, <1>5

----------------------------------------------------------------------------
(* A turn of the loop over the lines *)

\* The first line, and what it leaves.
LEMMA LineOf ==
  ASSUME buf \in Text, ~Listener!Blocked
  PROVE  \E x \in Text, y \in Text :
           /\ ~Contains(x, "nl") /\ Chomp(x) \in Text
           /\ Same(buf, Append(x, "nl") \o y) /\ Append(x, "nl") \in Text
           /\ Same(Listener!Taken, Append(x, "nl"))
           /\ Same(SubSeq(buf, Listener!LineEnd + 1, Len(buf)), y)
           /\ Same(Listener!currentLine, Chomp(x))
<1>1. Contains(buf, "nl") /\ "nl" \in Units
  BY UnitsHave DEF Listener!Blocked, Listener!Contains, Contains, Marks
<1>2. PICK n \in Nat : n = Len(buf)
  BY LenProperties DEF Text
<1>3. Listener!LineEnd = Position(buf, "nl") /\ buf \in Seq(Units)
  BY DEF Listener!LineEnd, Listener!SelectInSeq, Listener!Min, Min, Position, Text
<1>4. PICK x \in Seq(Units), y \in Seq(Units) : Splits(buf, "nl", x, y)
  BY <1>1, <1>3, SplitAtFirst
<1>5. PICK k \in 1 .. n : k = Listener!LineEnd /\ buf[k] = "nl" /\ Len(x) = k - 1
  BY <1>2, <1>3, <1>4 DEF Splits
<1>6. /\ ~Contains(x, "nl")
      /\ x = SubSeq(buf, 1, k - 1) /\ y = SubSeq(buf, k + 1, Len(buf))
  BY <1>3, <1>4, <1>5 DEF Splits, Same
<1>7. Append(x, "nl") \in Seq(Units)
  BY <1>1, AppendProperties
<1>8. Same(Listener!Taken, Append(x, "nl"))
  BY <1>3, <1>4 DEF Splits, Same, Listener!Taken
<1>9. Len(x) = k - 1 /\ \A i \in 1 .. k - 1 : x[i] = buf[i]
  <2>1. k - 1 \in 0 .. Len(buf)
    BY <1>2
  <2> QED
    BY <1>3, <1>5, <1>6, <2>1, PrefixOf
<1>10. Listener!currentLine = Chomp(x)
  <2>1. CASE x = <<>>
    <3>1. k = 1
      BY <1>9, <2>1, EmptySeq
    <3> QED
      BY <1>5, <1>6, <2>1, <3>1 DEF Listener!currentLine, Chomp
  <2>2. CASE x # <<>>
    <3>1. /\ Front(x) \in Seq(Units) /\ Len(Front(x)) = k - 2 /\ k - 1 \in Nat \ {0}
          /\ Last(x) = x[k - 1] /\ \A i \in 1 .. k - 2 : Front(x)[i] = x[i]
      <4>1. /\ Front(x) \in Seq(Units) /\ Len(x) \in Nat \ {0} /\ Len(Front(x)) = Len(x) - 1
            /\ Last(x) = x[Len(x)] /\ \A i \in 1 .. Len(x) - 1 : Front(x)[i] = x[i]
        BY <2>2, FrontAndLast
      <4>2. (k - 1) - 1 = k - 2
        OBVIOUS
      <4> QED
        BY <1>9, <4>1, <4>2
    <3>2. Last(x) = buf[k - 1] /\ k > 1
      BY <1>9, <3>1
    <3>3. SubSeq(buf, 1, k - 2) = Front(x)
      <4> DEFINE p == SubSeq(buf, 1, k - 2)
                 f == Front(x)
      <4>1. k - 2 \in 0 .. Len(buf)
        BY <1>2, <3>2
      <4>2. p \in Seq(Units) /\ Len(p) = k - 2 /\ \A i \in 1 .. k - 2 : p[i] = buf[i]
        BY <4>1, PrefixOf DEF Text
      <4>3. f \in Seq(Units) /\ Len(f) = k - 2 /\ \A i \in 1 .. k - 2 : f[i] = buf[i]
        <5>1. \A i \in 1 .. k - 2 : i \in 1 .. k - 1
          OBVIOUS
        <5> QED
          BY <1>9, <3>1, <5>1
      <4> HIDE DEF p, f
      <4>4. p = f
        BY <4>2, <4>3, SeqEqual
      <4> QED
        BY <4>4 DEF p, f
    <3>4. Listener!currentLine = IF k > 1 /\ buf[k - 1] = "cr" THEN SubSeq(buf, 1, k - 2)
                                                               ELSE SubSeq(buf, 1, k - 1)
      BY <1>5 DEF Listener!currentLine
    <3>5. Listener!currentLine = IF Last(x) = "cr" THEN Front(x) ELSE x
      BY <1>6, <3>2, <3>3, <3>4
    <3> QED
      BY <2>2, <3>5 DEF Chomp
  <2> QED
    BY <2>1, <2>2
<1>11. Chomp(x) \in Text
  <2>1. x # <<>> => Front(x) \in Seq(Units)
    BY FrontAndLast
  <2> QED
    BY <1>6, <2>1 DEF Chomp, Text
<1>12. SubSeq(buf, Listener!LineEnd + 1, Len(buf)) = y
  BY <1>5, <1>6
<1>13. Same(buf, Append(x, "nl") \o y)
  BY <1>4 DEF Splits
<1>14. Same(SubSeq(buf, Listener!LineEnd + 1, Len(buf)), y) /\ Same(Listener!currentLine, Chomp(x))
  BY <1>10, <1>12 DEF Same
<1> QED
  BY <1>4, <1>6, <1>7, <1>8, <1>11, <1>13, <1>14 DEF Text

\* What a turn does: the block goes on, or the message is complete, with what
\* the parser makes of it.
GoesOn(x, text) ==
  /\ multiline' = TRUE /\ rawLine' = rawLine \o Append(x, "nl")
  /\ line' = text /\ output' = output

Completes(x, text) ==
  /\ multiline' = FALSE /\ rawLine' = <<>> /\ line' = text
  /\ IF text = <<>> THEN output' = output
     ELSE output' = Append(output,
            IF Malformed(parse(text)) THEN [kind |-> "error", raw |-> <<>>, text |-> text]
            ELSE [kind |-> "message", raw |-> rawLine \o Append(x, "nl"), text |-> text])

Opens(x)  == Contains(Chomp(x), "<<")
Closes(x) == Chomp(x) = <<">>">> \/ IsPrefix(<<">>", "sp">>, Chomp(x))
SelfClosed(x) ==
  Opens(x) /\ Contains(SubSeq(Chomp(x), Position(Chomp(x), "<<") + 1, Len(Chomp(x))), ">>")

\* A turn on the line x, with y behind it.
Line(x, y) ==
  /\ Same(buf, Append(x, "nl") \o y) /\ Same(buf', y) /\ unread' = unread
  /\ \/ ~multiline /\ Opens(x) /\ ~SelfClosed(x) /\ GoesOn(x, Append(Chomp(x), "nl"))
     \/ ~multiline /\ (~Opens(x) \/ SelfClosed(x)) /\ Completes(x, Chomp(x))
     \/ multiline /\ ~Closes(x) /\ GoesOn(x, line \o Append(Chomp(x), "nl"))
     \/ multiline /\ Closes(x) /\ Opens(x) /\ GoesOn(x, line \o Chomp(x))
     \/ multiline /\ Closes(x) /\ ~Opens(x) /\ Completes(x, line \o Chomp(x))

\* A turn is one of the five things the loop does with a line.
LEMMA TurnIs ==
  ASSUME buf \in Text, rawLine \in Text, output \in Seq([kind : {"message", "error"}, raw : Text, text : Text]),
         line \in Text, Turn
  PROVE  \E x \in Text, y \in Text : ~Contains(x, "nl") /\ Chomp(x) \in Text /\ Append(x, "nl") \in Text /\ Line(x, y)
<1>1. ~Listener!Blocked /\ Listener!Turn /\ unread' = unread
  BY DEF Turn, Listener!Turn, Listener!OpenBlock, Listener!SingleLine, Listener!BlockLine,
         Listener!ReopenBlock, Listener!CloseBlock, Listener!Continue, Listener!Complete, Listener!TakeLine
<1>2. PICK x \in Text, y \in Text :
           /\ ~Contains(x, "nl") /\ Chomp(x) \in Text
           /\ Same(buf, Append(x, "nl") \o y) /\ Append(x, "nl") \in Text
           /\ Same(Listener!Taken, Append(x, "nl"))
           /\ Same(SubSeq(buf, Listener!LineEnd + 1, Len(buf)), y)
           /\ Same(Listener!currentLine, Chomp(x))
  BY <1>1, LineOf
<1> DEFINE t == Append(x, "nl")
           w == Chomp(x)
<1>3. t \in Text /\ w \in Text /\ Listener!Taken = t /\ Listener!currentLine = w
      /\ SubSeq(buf, Listener!LineEnd + 1, Len(buf)) = y
  BY <1>2 DEF Same
<1>4. Listener!openPos = Position(w, "<<")
  BY <1>3 DEF Listener!openPos, Listener!SelectInSeq, Listener!Min, Min, Position
<1>5. /\ Listener!openPos # 0 <=> Opens(x)
      /\ Listener!isClose <=> Closes(x)
      /\ Listener!selfClosed <=> SelfClosed(x)
  <2>1. Listener!openPos # 0 <=> Opens(x)
    <3>1. IF \E j \in 1 .. Len(w) : w[j] = "<<" THEN Position(w, "<<") \in 1 .. Len(w)
                                                ELSE Position(w, "<<") = 0
      BY <1>3, FirstPosition DEF Text
    <3>2. Opens(x) <=> \E j \in 1 .. Len(w) : w[j] = "<<"
      BY DEF Opens, Contains
    <3>3. Len(w) \in Nat
      BY <1>3, LenProperties DEF Text
    <3> HIDE DEF w
    <3> QED
      BY <1>4, <3>1, <3>2, <3>3
  <2>2. Listener!isClose <=> Closes(x)
    BY <1>3 DEF Listener!isClose, Listener!IsPrefix, IsPrefix, Closes
  <2>3. Listener!selfClosed <=> SelfClosed(x)
    BY <1>3, <1>4, <2>1 DEF Listener!selfClosed, Listener!Contains, Contains, SelfClosed
  <2> QED
    BY <2>1, <2>2, <2>3
<1>6. ASSUME NEW text, Listener!Continue(text) PROVE GoesOn(x, text) /\ buf' = y
  <2>1. rawLine' = rawLine \o Listener!Taken
    BY <1>6 DEF Listener!Continue
  <2>2. rawLine' = rawLine \o t
    BY <1>3, <2>1
  <2>3. GoesOn(x, text)
    BY <1>6, <2>2 DEF Listener!Continue, GoesOn
  <2> QED
    BY <1>3, <1>6, <2>3 DEF Listener!Continue, Listener!TakeLine
<1>7. ASSUME NEW text \in Text, Listener!Complete(text) PROVE Completes(x, text) /\ buf' = y
  <2>1. buf' = y /\ multiline' = FALSE /\ rawLine' = <<>> /\ line' = text
    BY <1>3, <1>7 DEF Listener!Complete, Listener!TakeLine
  <2>2. CASE text = <<>>
    BY <1>7, <2>1, <2>2 DEF Listener!Complete, Completes
  <2>3. CASE text # <<>>
    <3> DEFINE E == [kind |-> "error", raw |-> <<>>, text |-> text]
               M == [kind |-> "message", raw |-> rawLine \o t, text |-> text]
               O == [kind : {"message", "error"}, raw : Text, text : Text]
    <3>1. output' = Append(output, M) \/ output' = Append(output, E)
      BY <1>3, <1>7, <2>3 DEF Listener!Complete
    <3>2. rawLine \o t \in Text /\ <<>> \in Text
      BY <1>3, ConcatProperties, EmptySeq DEF Text
    <3>3. M \in O /\ E \in O /\ M.text = text /\ E.text = text /\ M.kind # "error" /\ E.kind = "error"
      BY <3>2
    <3>4. ASSUME NEW r \in O, output' = Append(output, r)
          PROVE  output' # output /\ Last(output') = r
      <4> HIDE DEF O
      <4>1. output' \in Seq(O) /\ Len(output') = Len(output) + 1 /\ output'[Len(output) + 1] = r
            /\ Len(output) \in Nat
        BY <3>4, AppendProperties, LenProperties DEF O
      <4> QED
        BY <4>1 DEF Last
    <3>5. output' # output => (Last(output').kind = "error" <=> Malformed(parse(Last(output').text)))
      BY DEF Turn
    <3> HIDE DEF M, E, O
    <3>6. output' = Append(output, IF Malformed(parse(text)) THEN E ELSE M)
      BY <3>1, <3>3, <3>4, <3>5
    <3> QED
      BY <2>1, <2>3, <3>6 DEF Completes, M, E
  <2> QED
    BY <2>2, <2>3
<1>8. line \o w \in Text
  BY <1>3, ConcatProperties DEF Text
<1>9. Line(x, y)
  <2>1. CASE Listener!OpenBlock
    <3>1. Listener!Continue(Append(w, "nl"))
      BY <1>3, <2>1 DEF Listener!OpenBlock
    <3>2. GoesOn(x, Append(w, "nl")) /\ Same(buf', y)
      BY <1>6, <3>1 DEF Same
    <3> QED
      BY <1>1, <1>2, <1>5, <2>1, <3>2 DEF Listener!OpenBlock, Line
  <2>2. CASE Listener!SingleLine
    BY <1>1, <1>2, <1>3, <1>5, <1>7, <2>2 DEF Listener!SingleLine, Line, Same
  <2>3. CASE Listener!BlockLine
    <3>1. Listener!Continue(line \o Append(w, "nl"))
      BY <1>3, <2>3 DEF Listener!BlockLine
    <3>2. GoesOn(x, line \o Append(w, "nl")) /\ Same(buf', y)
      BY <1>6, <3>1 DEF Same
    <3> QED
      BY <1>1, <1>2, <1>5, <2>3, <3>2 DEF Listener!BlockLine, Line
  <2>4. CASE Listener!ReopenBlock
    BY <1>1, <1>2, <1>3, <1>5, <1>6, <2>4 DEF Listener!ReopenBlock, Line, Same
  <2>5. CASE Listener!CloseBlock
    BY <1>1, <1>2, <1>3, <1>5, <1>7, <1>8, <2>5 DEF Listener!CloseBlock, Line, Same
  <2> QED
    BY <1>1, <2>1, <2>2, <2>3, <2>4, <2>5 DEF Listener!Turn
<1> QED
  BY <1>2, <1>9

----------------------------------------------------------------------------
(* The raw bytes of a message *)

Outputs == [kind : {"message", "error"}, raw : Text, text : Text]

TypeInv ==
  /\ program \in Programs /\ sent \in Sendable
  /\ unread \in Text /\ buf \in Text /\ line \in Text /\ rawLine \in Text
  /\ multiline \in BOOLEAN /\ output \in Seq(Outputs)

\* No block is opened behind the end of one.
Ordered(raw) == ~(\E j, k \in DOMAIN raw : j < k /\ raw[j] = ">>" /\ raw[k] = "<<")

\* What the handlers get is well-formed, and is what parseRaw makes of its raw
\* bytes.
Faithful(o) ==
  o.kind = "message" =>
    ~Malformed(parse(o.text)) /\ (Ordered(o.raw) => o.text = Normal(o.raw))

\* Inside a block the text so far is what parseRaw would make of it.
RawInv ==
  /\ TypeInv
  /\ ~multiline => rawLine = <<>>
  /\ multiline => /\ rawLine # <<>> /\ Last(rawLine) = "nl"
                  /\ Ordered(rawLine) => line = Kept(rawLine)
  /\ \A i \in 1 .. Len(output) : Faithful(output[i])

\* What a turn leaves has the same types.
LEMMA TurnType ==
  ASSUME TypeInv, Turn
  PROVE  TypeInv'
<1>1. PICK x \in Text, y \in Text :
        ~Contains(x, "nl") /\ Chomp(x) \in Text /\ Append(x, "nl") \in Text /\ Line(x, y)
  BY TurnIs DEF TypeInv, Outputs
<1> DEFINE t == Append(x, "nl")
           w == Chomp(x)
           O == Outputs
<1>2. t \in Text /\ w \in Text /\ "nl" \in Units /\ rawLine \in Text /\ line \in Text /\ <<>> \in Text
  BY <1>1, UnitsHave, EmptySeq DEF TypeInv, Text, Marks
<1>3. rawLine \o t \in Text /\ Append(w, "nl") \in Text /\ line \o w \in Text
  <2> HIDE DEF t, w
  <2> QED
    BY <1>2, ConcatProperties, AppendProperties DEF Text
<1>4. line \o Append(w, "nl") \in Text
  <2> DEFINE v == Append(w, "nl")
  <2>1. v \in Text
    BY <1>3
  <2> HIDE DEF v
  <2> QED
    BY <1>2, <2>1, ConcatProperties DEF Text
<1>5. buf' \in Text /\ unread' \in Text /\ program' \in Programs /\ sent' \in Sendable
  BY <1>1 DEF Line, Same, Turn, TypeInv
<1>6. ASSUME NEW text \in Text, GoesOn(x, text) PROVE TypeInv'
  BY <1>3, <1>5, <1>6 DEF GoesOn, TypeInv
<1>7. ASSUME NEW text \in Text, Completes(x, text) PROVE TypeInv'
  <2> DEFINE e == IF Malformed(parse(text)) THEN [kind |-> "error", raw |-> <<>>, text |-> text]
                  ELSE [kind |-> "message", raw |-> rawLine \o t, text |-> text]
  <2>1. e \in O
    BY <1>2, <1>3 DEF Outputs
  <2>2. output' = output \/ output' = Append(output, e)
    BY <1>7 DEF Completes
  <2>3. output \in Seq(O)
    BY DEF TypeInv
  <2> HIDE DEF e, O
  <2>4. output' \in Seq(O)
    BY <2>1, <2>2, <2>3, AppendProperties
  <2> QED
    BY <1>2, <1>5, <1>7, <2>4 DEF Completes, TypeInv, O
<1> QED
  BY <1>1, <1>2, <1>3, <1>4, <1>6, <1>7 DEF Line

\* Text with other line ends is text.
LEMMA CrLfType ==
  ASSUME NEW s \in Text
  PROVE  CrLf(s) \in Text
<1> DEFINE p == [i \in DOMAIN s |-> IF s[i] = "nl" THEN <<"cr", "nl">> ELSE <<s[i]>>]
<1>1. PICK n \in Nat : n = Len(s) /\ DOMAIN s = 1 .. n
  BY LenProperties DEF Text
<1>2. \A i \in 1 .. n : s[i] \in Units
  BY <1>1, ElementOfSeq DEF Text
<1>3. <<"cr", "nl">> \in Seq(Units) /\ \A i \in 1 .. n : <<s[i]>> \in Seq(Units)
  <2>1. "cr" \in Units /\ "nl" \in Units
    BY UnitsHave DEF Marks
  <2>2. <<"cr", "nl">> \in Seq(Units)
    BY <2>1
  <2>3. \A i \in 1 .. n : <<s[i]>> \in Seq(Units)
    BY <1>2, Single
  <2> QED
    BY <2>2, <2>3
<1>4. p \in [1 .. n -> Seq(Units)]
  <2>1. p = [i \in 1 .. n |-> IF s[i] = "nl" THEN <<"cr", "nl">> ELSE <<s[i]>>]
    BY <1>1
  <2>2. \A i \in 1 .. n : (IF s[i] = "nl" THEN <<"cr", "nl">> ELSE <<s[i]>>) \in Seq(Units)
    BY <1>3
  <2> QED
    BY <2>1, <2>2
<1>5. p \in Seq(Seq(Units))
  BY <1>4, FunctionIsSeq
<1>6. CrLf(s) = FlattenSeq(p)
  BY DEF CrLf
<1> HIDE DEF p
<1> QED
  BY <1>5, <1>6, FlattenType DEF Text

\* The message that follows, and its bytes.
LEMMA FollowerIs ==
  /\ Front(serialize(Follower)) \in Seq(Units \ {"nl", "cr", "<<"})
  /\ Front(serialize(Follower)) \in Text
  /\ Wire(Follower) = Append(Append(Front(serialize(Follower)), "nl"), "nl")
  /\ Wire(Follower) \in Text
<1> DEFINE f == Front(serialize(Follower))
<1>1. f \in Seq(Units \ {"nl", "cr", "<<"}) /\ serialize(Follower) = Append(f, "nl")
  BY FollowerAssumption
<1>2. Wire(Follower) = Append(Append(f, "nl"), "nl")
  BY <1>1 DEF Wire
<1> HIDE DEF f
<1>3. f \in Seq(Units) /\ "nl" \in Units
  BY <1>1, SeqMonotonic, UnitsHave DEF Marks
<1>4. Append(f, "nl") \in Seq(Units)
  BY <1>3, AppendProperties
<1>5. Append(Append(f, "nl"), "nl") \in Seq(Units)
  BY <1>3, <1>4, AppendProperties
<1> QED
  BY <1>1, <1>2, <1>3, <1>5 DEF f, Text

\* The bytes on their way, without the returns that the hub may put in.
Bytes == Wire(sent) \o Wire(Follower)

\* The first state.
LEMMA InitIs ==
  ASSUME Init
  PROVE  /\ TypeInv /\ Bytes \in Text /\ unread \in {Bytes, CrLf(Bytes)}
         /\ buf = <<>> /\ rawLine = <<>> /\ multiline = FALSE /\ output = <<>>
<1>1. program \in Programs /\ sent \in Sendable
  BY BuiltType DEF Init
<1>2. Wire(sent) \in Text
  BY <1>1, SerializeIs, UnitsHave, AppendProperties DEF Wire, Text, Marks
<1> DEFINE b == Bytes
<1>3. b \in Text
  BY <1>2, FollowerIs, ConcatProperties DEF Text, Bytes
<1>4. CrLf(b) \in Text
  <2> HIDE DEF b
  <2> QED
    BY <1>3, CrLfType
<1>5. unread \in {b, CrLf(b)}
  BY DEF Init, Bytes
<1>6. buf = <<>> /\ line = <<>> /\ rawLine = <<>> /\ multiline = FALSE /\ output = <<>>
  BY DEF Init, Listener!Init
<1>7. <<>> \in Text /\ <<>> \in Seq(Outputs)
  BY EmptySeq DEF Text
<1>8. unread \in Text
  BY <1>3, <1>4, <1>5
<1> QED
  BY <1>1, <1>3, <1>5, <1>6, <1>7, <1>8 DEF TypeInv

\* What a read leaves has the same types.
LEMMA ReadType ==
  ASSUME TypeInv, Read
  PROVE  TypeInv'
BY EmptySeq DEF TypeInv, Read, Text

\* So has what a step that changes nothing leaves.
LEMMA StutterType ==
  ASSUME UNCHANGED vars
  PROVE  /\ unread' = unread /\ sent' = sent /\ program' = program /\ buf' = buf /\ line' = line
         /\ rawLine' = rawLine /\ multiline' = multiline /\ output' = output
BY DEF vars, Listener!vars, Listener!local

----------------------------------------------------------------------------

\* A closing line that opens a block puts a "<<" behind a ">>".
LEMMA ReopenIsNotOrdered ==
  ASSUME NEW r \in Text, NEW x \in Text, Closes(x), Opens(x), Append(x, "nl") \in Text
  PROVE  ~Ordered(r \o Append(x, "nl"))
<1> DEFINE t == Append(x, "nl")
           w == Chomp(x)
           c == r \o t
<1>1. PICK n \in Nat : n = Len(r)
  BY LenProperties DEF Text
<1>2. PICK m \in Nat : m = Len(x)
  BY LenProperties DEF Text
<1>14. r \in Seq(Units) /\ x \in Seq(Units) /\ "nl" \in Units
  BY UnitsHave DEF Text, Marks
<1>3. t \in Seq(Units) /\ Len(t) = m + 1 /\ \A i \in 1 .. m : t[i] = x[i]
  BY <1>2, <1>14, AppendProperties
<1>13. x \in Seq(Units)
  BY DEF Text
<1>4. PICK l \in 0 .. m : Len(w) = l /\ \A i \in 1 .. l : w[i] = x[i]
  <2>1. CASE x # <<>> /\ Last(x) = "cr"
    <3>1. w = Front(x) /\ Len(Front(x)) = m - 1 /\ m \in Nat \ {0} /\ \A i \in 1 .. m - 1 : Front(x)[i] = x[i]
      <4>1. w = Front(x) /\ x # <<>>
        BY <2>1 DEF Chomp
      <4> HIDE DEF w
      <4>2. Len(Front(x)) = Len(x) - 1 /\ Len(x) \in Nat \ {0} /\ \A i \in 1 .. Len(x) - 1 : Front(x)[i] = x[i]
        BY <1>13, <4>1, FrontAndLast
      <4> QED
        BY <1>2, <4>1, <4>2
    <3>2. m - 1 \in 0 .. m
      BY <3>1
    <3> QED
      BY <3>1, <3>2
  <2>2. CASE ~(x # <<>> /\ Last(x) = "cr")
    BY <1>2, <2>2 DEF Chomp
  <2> QED
    BY <2>1, <2>2
<1>5. l # 0 /\ w[1] = ">>"
  <2>1. CASE w = <<">>">>
    BY <1>4, <2>1
  <2>2. CASE IsPrefix(<<">>", "sp">>, w)
    <3>1. Len(<<">>", "sp">>) = 2 /\ 1 \in 1 .. 2 /\ <<">>", "sp">>[1] = ">>"
      OBVIOUS
    <3> QED
      BY <1>4, <2>2, <3>1 DEF IsPrefix
  <2> QED
    BY <2>1, <2>2 DEF Closes
<1>6. PICK k \in 1 .. l : w[k] = "<<"
  BY <1>4 DEF Opens, Contains
<1>7. k # 1 /\ x[1] = ">>" /\ x[k] = "<<" /\ k \in 1 .. m /\ 1 \in 1 .. m
  BY <1>4, <1>5, <1>6
<1> HIDE DEF t, w
<1>8. c \in Seq(Units) /\ Len(c) = n + (m + 1)
      /\ \A i \in 1 .. n + (m + 1) : c[i] = IF i <= n THEN r[i] ELSE t[i - n]
  <2>1. /\ c \in Seq(Units) /\ Len(c) = Len(r) + Len(t)
        /\ \A i \in 1 .. Len(r) + Len(t) : c[i] = IF i <= Len(r) THEN r[i] ELSE t[i - Len(r)]
    BY <1>3, <1>14, ConcatProperties
  <2> HIDE DEF c
  <2> QED
    BY <1>1, <1>3, <2>1
<1>9. DOMAIN c = 1 .. n + (m + 1)
  <2> HIDE DEF c
  <2> QED
    BY <1>8, LenProperties
<1> HIDE DEF c
<1>10. /\ n + 1 \in 1 .. n + (m + 1) /\ n + k \in 1 .. n + (m + 1) /\ n + 1 < n + k
       /\ ~(n + 1 <= n) /\ ~(n + k <= n) /\ (n + 1) - n = 1 /\ (n + k) - n = k
  BY <1>7
<1>11. c[n + 1] = ">>" /\ c[n + k] = "<<"
  BY <1>3, <1>7, <1>8, <1>10
<1>12. ~Ordered(c)
  BY <1>9, <1>10, <1>11 DEF Ordered
<1> QED
  BY <1>12 DEF c, t

\* If all of it is in order, so is the beginning.
LEMMA OrderedPrefix ==
  ASSUME NEW r \in Text, NEW t \in Text, Ordered(r \o t)
  PROVE  Ordered(r)
<1> DEFINE c == r \o t
<1>1. PICK n \in Nat : n = Len(r) /\ DOMAIN r = 1 .. n
  BY LenProperties DEF Text
<1>2. PICK m \in Nat : m = Len(t)
  BY LenProperties DEF Text
<1>3. c \in Seq(Units) /\ Len(c) = n + m
      /\ \A i \in 1 .. n + m : c[i] = IF i <= n THEN r[i] ELSE t[i - n]
  BY <1>1, <1>2, ConcatProperties DEF Text
<1>4. Ordered(c)
  OBVIOUS
<1> HIDE DEF c
<1>5. DOMAIN c = 1 .. n + m
  BY <1>3, LenProperties
<1>6. \A i \in 1 .. n : i \in DOMAIN c /\ c[i] = r[i]
  BY <1>3, <1>5
<1> QED
  BY <1>1, <1>4, <1>6 DEF Ordered

\* A turn adds a line to the raw bytes and its text to the text.
LEMMA TurnRaw ==
  ASSUME RawInv, Turn
  PROVE  RawInv'
<1>1. PICK x \in Text, y \in Text :
        ~Contains(x, "nl") /\ Chomp(x) \in Text /\ Append(x, "nl") \in Text /\ Line(x, y)
  BY TurnIs DEF RawInv, TypeInv, Outputs
<1>2. TypeInv'
  BY TurnType DEF RawInv
<1> DEFINE t == Append(x, "nl")
           w == Chomp(x)
           v == Append(w, "nl")
<1>3. t \in Text /\ w \in Text /\ v \in Text /\ rawLine \in Text /\ line \in Text /\ "nl" \in Units
      /\ output \in Seq(Outputs) /\ t # <<>> /\ Last(t) = "nl" /\ v # <<>> /\ Last(v) = "nl" /\ Front(v) = w
  <2>1. "nl" \in Units /\ rawLine \in Text /\ line \in Text /\ output \in Seq(Outputs)
    BY UnitsHave DEF Marks, RawInv, TypeInv
  <2>2. t \in Text /\ w \in Text /\ v \in Text
    BY <1>1, <2>1, AppendProperties DEF Text
  <2>3. ASSUME NEW s \in Text
        PROVE  Append(s, "nl") # <<>> /\ Last(Append(s, "nl")) = "nl" /\ Front(Append(s, "nl")) = s
    BY <2>1, FrontOfAppend DEF Text
  <2> QED
    BY <1>1, <2>1, <2>2, <2>3
<1>4. Kept(t) = v
  BY <1>1, <1>3, KeptLine DEF Text
<1> HIDE DEF t, w, v
<1>5. \A s \in Text : (s = <<>> \/ Last(s) # "cr") => Kept(s \o t) = Kept(s) \o v
  <2> SUFFICES ASSUME NEW s \in Text, s = <<>> \/ Last(s) # "cr" PROVE Kept(s \o t) = Kept(s) \o v
    OBVIOUS
  <2> QED
    BY <1>3, <1>4, KeptConcat DEF Text
<1>6. ~multiline => rawLine \o t = t
  BY <1>3, ConcatEmptySeq DEF RawInv, Text
<1>7. multiline => (Ordered(rawLine \o t) => line = Kept(rawLine) /\ Kept(rawLine \o t) = line \o v)
  <2> SUFFICES ASSUME multiline, Ordered(rawLine \o t)
               PROVE  line = Kept(rawLine) /\ Kept(rawLine \o t) = line \o v
    OBVIOUS
  <2>1. line = Kept(rawLine) /\ Last(rawLine) # "cr"
    BY <1>3, OrderedPrefix DEF RawInv
  <2> QED
    BY <1>3, <1>5, <2>1
<1>8. rawLine \o t # <<>> /\ Last(rawLine \o t) = "nl"
  BY <1>3, Joined DEF Text
<1>9. ASSUME NEW text, GoesOn(x, text), Ordered(rawLine \o t) => text = Kept(rawLine \o t)
      PROVE  RawInv'
  <2>1. multiline' = TRUE /\ rawLine' = rawLine \o t /\ line' = text /\ output' = output
    BY <1>9 DEF GoesOn, t
  <2>2. \A i \in 1 .. Len(output') : Faithful(output'[i])
    BY <2>1 DEF RawInv
  <2> QED
    BY <1>2, <1>8, <1>9, <2>1, <2>2 DEF RawInv
<1>10. ASSUME NEW text, Completes(x, text), Ordered(rawLine \o t) => text = Normal(rawLine \o t)
       PROVE  RawInv'
  <2> DEFINE e == IF Malformed(parse(text)) THEN [kind |-> "error", raw |-> <<>>, text |-> text]
                  ELSE [kind |-> "message", raw |-> rawLine \o t, text |-> text]
  <2>1. multiline' = FALSE /\ rawLine' = <<>>
        /\ (output' = output \/ output' = Append(output, e))
    BY <1>10 DEF Completes, t
  <2>2. Faithful(e)
    <3>1. CASE Malformed(parse(text))
      BY <3>1 DEF Faithful
    <3>2. CASE ~Malformed(parse(text))
      BY <1>10, <3>2 DEF Faithful
    <3> QED
      BY <3>1, <3>2
  <2> HIDE DEF e
  <2>3. \A i \in 1 .. Len(output') : Faithful(output'[i])
    <3>1. CASE output' = output
      BY <3>1 DEF RawInv
    <3>2. CASE output' = Append(output, e)
      <4>1. Len(output) \in Nat /\ Len(output') = Len(output) + 1
            /\ (\A i \in 1 .. Len(output) : output'[i] = output[i]) /\ output'[Len(output) + 1] = e
        BY <1>3, <3>2, LenProperties
      <4>2. \A i \in 1 .. Len(output) : Faithful(output[i])
        BY DEF RawInv
      <4>3. \A i \in 1 .. Len(output') : i \in 1 .. Len(output) \/ i = Len(output) + 1
        BY <4>1
      <4> QED
        BY <2>2, <4>1, <4>2, <4>3
    <3> QED
      BY <2>1, <3>1, <3>2
  <2> QED
    BY <1>2, <2>1, <2>3 DEF RawInv
<1>11. CASE ~multiline /\ Opens(x) /\ GoesOn(x, Append(Chomp(x), "nl"))
  BY <1>4, <1>6, <1>9, <1>11 DEF v, w
<1>12. CASE ~multiline /\ Completes(x, Chomp(x))
  <2>1. Normal(t) = w
    BY <1>3, <1>4, NormalIsKept
  <2> QED
    BY <1>6, <1>10, <1>12, <2>1 DEF w
<1>13. CASE multiline /\ GoesOn(x, line \o Append(Chomp(x), "nl"))
  BY <1>7, <1>9, <1>13 DEF v, w
<1>14. CASE multiline /\ Closes(x) /\ Opens(x) /\ GoesOn(x, line \o Chomp(x))
  <2>1. ~Ordered(rawLine \o t)
    BY <1>1, <1>3, <1>14, ReopenIsNotOrdered DEF t
  <2> QED
    BY <1>9, <1>14, <2>1
<1>15. CASE multiline /\ Closes(x) /\ ~Opens(x) /\ Completes(x, line \o Chomp(x))
  <2>1. ASSUME Ordered(rawLine \o t) PROVE Normal(rawLine \o t) = line \o w
    <3>1. Kept(rawLine \o t) = line \o v
      BY <1>7, <1>15, <2>1
    <3>2. Same(line \o v, Append(line \o w, "nl"))
      BY <1>3, AppendToConcat DEF v, Text, Same
    <3> DEFINE z == line \o w
    <3>3. z \in Text
      BY <1>3, ConcatProperties DEF Text
    <3> HIDE DEF z
    <3>4. Append(z, "nl") # <<>> /\ Last(Append(z, "nl")) = "nl" /\ Front(Append(z, "nl")) = z
      BY <1>3, <3>3, FrontOfAppend DEF Text
    <3>5. Kept(rawLine \o t) = Append(z, "nl")
      BY <3>1, <3>2 DEF z, Same
    <3>6. Normal(rawLine \o t) = z
      BY <3>4, <3>5, NormalIsKept
    <3> QED
      BY <3>6 DEF z
  <2> QED
    BY <1>10, <1>15, <2>1 DEF w
<1> QED
  BY <1>1, <1>11, <1>12, <1>13, <1>14, <1>15 DEF Line

\* The invariant is inductive.
LEMMA RawNext == RawInv /\ [Next]_vars => RawInv'
<1> SUFFICES ASSUME RawInv, [Next]_vars PROVE RawInv'
  OBVIOUS
<1>1. CASE Read
  <2>1. TypeInv' /\ line' = line /\ rawLine' = rawLine /\ multiline' = multiline /\ output' = output
    BY <1>1, ReadType DEF RawInv, Read
  <2> QED
    BY <2>1 DEF RawInv
<1>2. CASE Turn
  BY <1>2, TurnRaw
<1>3. CASE UNCHANGED vars
  <2>1. UNCHANGED vars
    BY <1>3
  <2>2. /\ unread' = unread /\ sent' = sent /\ program' = program /\ buf' = buf /\ line' = line
        /\ rawLine' = rawLine /\ multiline' = multiline /\ output' = output
    BY <2>1, StutterType
  <2> QED
    BY <2>2 DEF RawInv, TypeInv
<1> QED
  BY <1>1, <1>2, <1>3 DEF Next

\* It holds in every state.
LEMMA RawInvHolds == Spec => []RawInv
<1>1. Init => RawInv
  <2> SUFFICES ASSUME Init PROVE RawInv
    OBVIOUS
  <2>1. TypeInv /\ rawLine = <<>> /\ multiline = FALSE /\ Len(output) = 0
    BY InitIs
  <2> QED
    BY <2>1 DEF RawInv
<1> QED
  BY <1>1, RawNext, PTL DEF Spec

\* create_from_raw and listen() make the same message of the same text.
LEMMA SameMessage ==
  ASSUME NEW text, NEW raw, text = Normal(raw), ~Malformed(parse(text))
  PROVE  FromRaw(Received(parse(text)).type, raw) = Received(parse(text))
<1> DEFINE p == parse(text)
           own == {<<"code">>, <<"what">>}
<1>1. parse(Normal(raw)) = p
  OBVIOUS
<1>2. p.type \in {"request", "response", "witness", "publish"} /\ ~Malformed(p)
  <2> HIDE DEF p
  <2>1. ~Malformed(p)
    BY DEF p
  <2> QED
    BY <2>1 DEF Malformed
<1> HIDE DEF p
<1>3. \A kind : FromRaw(kind, raw) =
        IF p.type # (IF kind = "error" THEN "response" ELSE kind) THEN [type |-> "nothing"]
        ELSE CASE kind = "error"   -> errorFromRaw(p)
               [] kind = "witness" -> witnessFromRaw(p)
               [] kind = "publish" -> publishFromRaw(p)
               [] OTHER            -> populateMessage(kind, p, {})
  BY <1>1 DEF FromRaw
<1>4. CASE p.type = "request"
  <2>1. Received(p) = requestOf(p) /\ requestOf(p).type = "request"
    BY <1>4 DEF Received, requestOf, Create
  <2>2. FromRaw("request", raw) = populateMessage("request", p, {})
    BY <1>3, <1>4
  <2>3. populateMessage("request", p, {}) = requestOf(p)
    BY DEF populateMessage, requestOf
  <2> QED
    BY <2>1, <2>2, <2>3 DEF p
<1>5. CASE p.type = "response" /\ ~HasFlag(p, "error")
  <2>1. Received(p) = responseOf(p) /\ responseOf(p).type = "response"
    BY <1>5 DEF Received, responseOf, Create
  <2>2. FromRaw("response", raw) = populateMessage("response", p, {})
    BY <1>3, <1>5
  <2>3. populateMessage("response", p, {}) = responseOf(p)
    BY DEF populateMessage, responseOf
  <2> QED
    BY <2>1, <2>2, <2>3 DEF p
<1>6. CASE p.type = "response" /\ HasFlag(p, "error")
  <2>1. Received(p) = errorOf(p) /\ errorOf(p).type = "error"
    BY <1>6 DEF Received, errorOf, Create
  <2>2. FromRaw("error", raw) = errorFromRaw(p)
    BY <1>3, <1>6
  <2>3. errorFromRaw(p) = errorOf(p)
    BY DEF errorFromRaw, populateMessage, errorOf, Create
  <2> QED
    BY <2>1, <2>2, <2>3 DEF p
<1>7. CASE p.type = "witness"
  <2>1. Received(p) = witnessOf(p) /\ witnessOf(p).type = "witness"
    BY <1>7 DEF Received, witnessOf, Create
  <2>2. FromRaw("witness", raw) = witnessFromRaw(p)
    BY <1>3, <1>7
  <2>3. witnessFromRaw(p) = witnessOf(p)
    BY DEF witnessFromRaw, witnessOf
  <2> QED
    BY <2>1, <2>2, <2>3 DEF p
<1>8. CASE p.type = "publish"
  <2>1. Received(p) = publishOf(p) /\ publishOf(p).type = "publish"
    BY <1>8 DEF Received, publishOf, Create
  <2>2. FromRaw("publish", raw) = publishFromRaw(p)
    BY <1>3, <1>8
  <2>3. publishFromRaw(p) = publishOf(p)
    BY DEF publishFromRaw, publishOf
  <2> QED
    BY <2>1, <2>2, <2>3 DEF p
<1> QED
  BY <1>2, <1>4, <1>5, <1>6, <1>7, <1>8

\* create_from_raw makes of the raw bytes of a delivered message what listen()
\* made, whatever the values contain: RawIsTheMessage, about parseRaw
\* (spore_c.cpp) and the raw line of listen() (client.cpp).
THEOREM RawBytesAreTheMessage == Spec => []RawIsTheMessage
<1>1. RawInv => RawIsTheMessage
  <2> SUFFICES ASSUME RawInv, NEW i \in DOMAIN output, output[i].kind = "message",
                      ~(\E j, k \in DOMAIN output[i].raw : j < k
                          /\ output[i].raw[j] = ">>" /\ output[i].raw[k] = "<<")
               PROVE  FromRaw(Received(parse(output[i].text)).type, output[i].raw)
                        = Received(parse(output[i].text))
    BY DEF RawIsTheMessage
  <2>1. i \in 1 .. Len(output)
    BY LenProperties DEF RawInv, TypeInv
  <2>2. Faithful(output[i]) /\ Ordered(output[i].raw)
    BY <2>1 DEF RawInv, Ordered
  <2> QED
    BY <2>2, SameMessage DEF Faithful
<1> QED
  BY <1>1, RawInvHolds, PTL

----------------------------------------------------------------------------
(* Text *)

\* The operations on text, and what they contain.
LEMMA TextOps ==
  /\ <<>> \in Text
  /\ \A u \in Units : <<u>> \in Text
  /\ \A a, b \in Text : a \o b \in Text
  /\ \A a \in Text, u \in Units : Append(a, u) \in Text
  /\ \A a \in Text, u \in Units : Same(Append(a, u), a \o <<u>>)
  /\ \A a \in Text : Same(a \o <<>>, a) /\ Same(<<>> \o a, a)
BY EmptySeq, Single, ConcatProperties, AppendProperties, AppendOne, ConcatEmptySeq DEF Text, Same

\* Three texts.
LEMMA TextAssociative == \A a, b, c \in Text : Same((a \o b) \o c, a \o (b \o c))
BY Associative DEF Text

\* What joined text contains.
LEMMA TextContains ==
  /\ \A u : ~Contains(<<>>, u)
  /\ \A v \in Units : \A u : Contains(<<v>>, u) <=> u = v
  /\ \A a, b \in Text : \A u : Contains(a \o b, u) <=> Contains(a, u) \/ Contains(b, u)
  /\ \A a \in Text, v \in Units : \A u : Contains(Append(a, v), u) <=> Contains(a, u) \/ u = v
<1>1. \A u : ~Contains(<<>>, u)
  BY EmptySeq DEF Contains
<1>2. \A v \in Units : \A u : Contains(<<v>>, u) <=> u = v
  BY Single
<1>3. \A a, b \in Text : \A u : Contains(a \o b, u) <=> Contains(a, u) \/ Contains(b, u)
  BY Joined DEF Text
<1>4. \A a \in Text, v \in Units : \A u : Contains(Append(a, v), u) <=> Contains(a, u) \/ u = v
  <2> SUFFICES ASSUME NEW a \in Text, NEW v \in Units, NEW u
               PROVE  Contains(Append(a, v), u) <=> Contains(a, u) \/ u = v
    OBVIOUS
  <2>1. Append(a, v) = a \o <<v>> /\ <<v>> \in Text
    BY TextOps DEF Same
  <2> QED
    BY <1>2, <1>3, <2>1
<1> QED
  BY <1>1, <1>2, <1>3, <1>4

\* There is one way to cut text at its first u.
LEMMA OneSplit ==
  ASSUME NEW S, NEW u \in S, NEW a \in Seq(S), NEW b \in Seq(S), NEW c \in Seq(S), NEW d \in Seq(S),
         ~Contains(a, u), ~Contains(c, u), Same(Append(a, u) \o b, Append(c, u) \o d)
  PROVE  Same(a, c) /\ Same(b, d)
<1>1. PICK n \in Nat : n = Len(a)
  BY LenProperties
<1>2. PICK m \in Nat : m = Len(c)
  BY LenProperties
<1> DEFINE p == Append(a, u)
           q == Append(c, u)
           s == p \o b
           t == q \o d
<1>3. p \in Seq(S) /\ Len(p) = n + 1 /\ (\A i \in 1 .. n : p[i] = a[i]) /\ p[n + 1] = u
  BY <1>1, AppendProperties
<1>4. q \in Seq(S) /\ Len(q) = m + 1 /\ (\A i \in 1 .. m : q[i] = c[i]) /\ q[m + 1] = u
  BY <1>2, AppendProperties
<1>5. s = t
  BY DEF Same
<1> HIDE DEF p, q
<1>6. /\ Len(b) \in Nat /\ Len(s) = n + 1 + Len(b)
      /\ \A i \in 1 .. n + 1 + Len(b) : s[i] = IF i <= n + 1 THEN p[i] ELSE b[i - (n + 1)]
  <2>1. /\ s \in Seq(S) /\ Len(s) = Len(p) + Len(b)
        /\ \A i \in 1 .. Len(p) + Len(b) : s[i] = IF i <= Len(p) THEN p[i] ELSE b[i - Len(p)]
    BY <1>3, ConcatProperties
  <2>2. Len(b) \in Nat
    BY LenProperties
  <2> HIDE DEF s
  <2> QED
    BY <1>3, <2>1, <2>2
<1>7. /\ Len(d) \in Nat /\ Len(t) = m + 1 + Len(d)
      /\ \A i \in 1 .. m + 1 + Len(d) : t[i] = IF i <= m + 1 THEN q[i] ELSE d[i - (m + 1)]
  <2>1. /\ t \in Seq(S) /\ Len(t) = Len(q) + Len(d)
        /\ \A i \in 1 .. Len(q) + Len(d) : t[i] = IF i <= Len(q) THEN q[i] ELSE d[i - Len(q)]
    BY <1>4, ConcatProperties
  <2>2. Len(d) \in Nat
    BY LenProperties
  <2> HIDE DEF t
  <2> QED
    BY <1>4, <2>1, <2>2
<1> HIDE DEF s, t
<1>8. /\ \A i \in 1 .. n : s[i] = a[i] /\ a[i] # u
      /\ s[n + 1] = u
      /\ \A i \in 1 .. Len(b) : s[n + 1 + i] = b[i]
  <2>1. \A i \in 1 .. n : s[i] = a[i] /\ a[i] # u
    <3>1. \A i \in 1 .. n : i \in 1 .. n + 1 + Len(b) /\ i <= n + 1
      BY <1>6
    <3> QED
      BY <1>1, <1>3, <1>6, <3>1 DEF Contains
  <2>2. s[n + 1] = u
    <3>1. n + 1 \in 1 .. n + 1 + Len(b) /\ n + 1 <= n + 1
      BY <1>6
    <3> QED
      BY <1>3, <1>6, <3>1
  <2>3. \A i \in 1 .. Len(b) : s[n + 1 + i] = b[i]
    <3>1. \A i \in 1 .. Len(b) : /\ n + 1 + i \in 1 .. n + 1 + Len(b) /\ ~(n + 1 + i <= n + 1)
                                 /\ (n + 1 + i) - (n + 1) = i
      BY <1>6
    <3> QED
      BY <1>6, <3>1
  <2> QED
    BY <2>1, <2>2, <2>3
<1>9. /\ \A i \in 1 .. m : t[i] = c[i] /\ c[i] # u
      /\ t[m + 1] = u
      /\ \A i \in 1 .. Len(d) : t[m + 1 + i] = d[i]
  <2>1. \A i \in 1 .. m : t[i] = c[i] /\ c[i] # u
    <3>1. \A i \in 1 .. m : i \in 1 .. m + 1 + Len(d) /\ i <= m + 1
      BY <1>7
    <3> QED
      BY <1>2, <1>4, <1>7, <3>1 DEF Contains
  <2>2. t[m + 1] = u
    <3>1. m + 1 \in 1 .. m + 1 + Len(d) /\ m + 1 <= m + 1
      BY <1>7
    <3> QED
      BY <1>4, <1>7, <3>1
  <2>3. \A i \in 1 .. Len(d) : t[m + 1 + i] = d[i]
    <3>1. \A i \in 1 .. Len(d) : /\ m + 1 + i \in 1 .. m + 1 + Len(d) /\ ~(m + 1 + i <= m + 1)
                                 /\ (m + 1 + i) - (m + 1) = i
      BY <1>7
    <3> QED
      BY <1>7, <3>1
  <2> QED
    BY <2>1, <2>2, <2>3
<1>10. n = m
  <2>1. ~(n < m)
    <3> SUFFICES ASSUME n < m PROVE FALSE
      OBVIOUS
    <3>1. n + 1 \in 1 .. m
      OBVIOUS
    <3> QED
      BY <1>5, <1>8, <1>9, <3>1
  <2>2. ~(m < n)
    <3> SUFFICES ASSUME m < n PROVE FALSE
      OBVIOUS
    <3>1. m + 1 \in 1 .. n
      OBVIOUS
    <3> QED
      BY <1>5, <1>8, <1>9, <3>1
  <2> QED
    BY <2>1, <2>2
<1>11. a = c
  <2>1. \A i \in 1 .. n : a[i] = c[i]
    BY <1>5, <1>8, <1>9, <1>10
  <2> QED
    BY <1>1, <1>2, <1>10, <2>1, SeqEqual
<1>12. b = d
  <2>1. Len(b) = Len(d)
    BY <1>5, <1>6, <1>7, <1>10
  <2>2. \A i \in 1 .. Len(b) : b[i] = d[i]
    BY <1>5, <1>8, <1>9, <1>10, <2>1
  <2> QED
    BY <2>1, <2>2, SeqEqual
<1> QED
  BY <1>11, <1>12 DEF Same

\* Text with a unit in it.
LEMMA TextSplits ==
  ASSUME NEW s \in Text, NEW u, Contains(s, u)
  PROVE  \E a, b \in Text : ~Contains(a, u) /\ u \in Units /\ Same(s, Append(a, u) \o b)
<1>1. s \in Seq(Units)
  BY DEF Text
<1>2. u \in Units /\ \E a \in Seq(Units), b \in Seq(Units) : Splits(s, u, a, b)
  BY <1>1, SplitAtFirst
<1>3. PICK a \in Seq(Units), b \in Seq(Units) : Splits(s, u, a, b)
  BY <1>2
<1>4. ~Contains(a, u) /\ Same(s, Append(a, u) \o b)
  BY <1>3 DEF Splits
<1>5. a \in Text /\ b \in Text
  BY DEF Text
<1> QED
  BY <1>2, <1>4, <1>5

\* A line without the return at its end: the same but for that return.
LEMMA ChompIs ==
  ASSUME NEW x \in Text
  PROVE  /\ Chomp(x) \in Text
         /\ \A u : u # "cr" => (Contains(Chomp(x), u) <=> Contains(x, u))
         /\ ~Contains(x, "cr") => Chomp(x) = x
         /\ x # <<>> /\ Last(x) # "cr" => Chomp(x) = x
         /\ Chomp(Append(x, "cr")) = x
         /\ \A w \in Text : Same(x, Append(w, "cr")) => Chomp(x) = w
<1>1. "cr" \in Units /\ x \in Seq(Units)
  BY UnitsHave DEF Marks, Text
<1>2. CASE x # <<>> /\ Last(x) = "cr"
  <2>1. Front(x) \in Text /\ x = Append(Front(x), "cr") /\ Chomp(x) = Front(x)
    BY <1>1, <1>2, FrontAndLast DEF Chomp, Text
  <2> DEFINE f == Front(x)
  <2>2. f \in Text /\ Same(x, Append(f, "cr")) /\ Chomp(x) = f
    BY <2>1 DEF Same
  <2> HIDE DEF f
  <2>3. \A u : Contains(x, u) <=> Contains(f, u) \/ u = "cr"
    BY <1>1, <2>2, TextContains DEF Same
  <2>4. Chomp(Append(x, "cr")) = x
    BY <1>1, FrontOfAppend DEF Chomp
  <2>5. \A w \in Text : Same(x, Append(w, "cr")) => f = w
    BY <1>1, <2>2, AppendInjective DEF Same, Text
  <2> QED
    BY <1>2, <2>2, <2>3, <2>4, <2>5
<1>3. CASE ~(x # <<>> /\ Last(x) = "cr")
  <2>1. Chomp(x) = x
    BY <1>3 DEF Chomp
  <2>2. Chomp(Append(x, "cr")) = x
    BY <1>1, FrontOfAppend DEF Chomp
  <2>3. \A w \in Text : ~Same(x, Append(w, "cr"))
    BY <1>1, <1>3, FrontOfAppend DEF Same, Text
  <2> QED
    BY <2>1, <2>2, <2>3
<1> QED
  BY <1>2, <1>3

\* A return before each newline.
LEMMA CrLfConcat ==
  ASSUME NEW a \in Text, NEW b \in Text
  PROVE  Same(CrLf(a \o b), CrLf(a) \o CrLf(b))
<1> DEFINE E(u) == IF u = "nl" THEN <<"cr", "nl">> ELSE <<u>>
           P(s) == [i \in DOMAIN s |-> E(s[i])]
           c == a \o b
           p == P(a)
           q == P(b)
           r == P(c)
           t == p \o q
           T == Seq(Units)
<1>1. PICK n \in Nat : n = Len(a) /\ DOMAIN a = 1 .. n
  BY LenProperties DEF Text
<1>2. PICK m \in Nat : m = Len(b) /\ DOMAIN b = 1 .. m
  BY LenProperties DEF Text
<1>3. \A u \in Units : E(u) \in T
  <2>1. "cr" \in Units /\ "nl" \in Units
    BY UnitsHave DEF Marks
  <2> QED
    BY <2>1
<1>4. a \in Seq(Units) /\ b \in Seq(Units)
  BY DEF Text
<1>5. c \in Seq(Units) /\ Len(c) = n + m
      /\ \A i \in 1 .. n + m : c[i] = IF i <= n THEN a[i] ELSE b[i - n]
  BY <1>1, <1>2, <1>4, ConcatProperties
<1>6. CrLf(a) = FlattenSeq(p) /\ CrLf(b) = FlattenSeq(q) /\ CrLf(c) = FlattenSeq(r)
  BY DEF CrLf
<1> HIDE DEF c, T
<1>7. DOMAIN c = 1 .. n + m
  BY <1>5, LenProperties
<1>8. (\A i \in 1 .. n : a[i] \in Units) /\ (\A i \in 1 .. m : b[i] \in Units)
      /\ (\A i \in 1 .. n + m : c[i] \in Units)
  BY <1>1, <1>2, <1>4, <1>5, ElementOfSeq
<1>9. p \in Seq(T) /\ Len(p) = n /\ \A i \in 1 .. n : p[i] = E(a[i])
  <2>1. p = [i \in 1 .. n |-> E(a[i])]
    BY <1>1
  <2>2. \A i \in 1 .. n : E(a[i]) \in T
    BY <1>3, <1>8
  <2> HIDE DEF E, p
  <2>3. p \in [1 .. n -> T] /\ \A i \in 1 .. n : p[i] = E(a[i])
    BY <2>1, <2>2
  <2> QED
    BY <2>3, FunctionIsSeq
<1>10. q \in Seq(T) /\ Len(q) = m /\ \A i \in 1 .. m : q[i] = E(b[i])
  <2>1. q = [i \in 1 .. m |-> E(b[i])]
    BY <1>2
  <2>2. \A i \in 1 .. m : E(b[i]) \in T
    BY <1>3, <1>8
  <2> HIDE DEF E, q
  <2>3. q \in [1 .. m -> T] /\ \A i \in 1 .. m : q[i] = E(b[i])
    BY <2>1, <2>2
  <2> QED
    BY <2>3, FunctionIsSeq
<1>11. r \in Seq(T) /\ Len(r) = n + m /\ \A i \in 1 .. n + m : r[i] = E(c[i])
  <2>1. r = [i \in 1 .. n + m |-> E(c[i])]
    BY <1>7
  <2>2. \A i \in 1 .. n + m : E(c[i]) \in T
    BY <1>3, <1>8
  <2> HIDE DEF E, r
  <2>3. r \in [1 .. n + m -> T] /\ \A i \in 1 .. n + m : r[i] = E(c[i])
    BY <2>1, <2>2
  <2> QED
    BY <2>3, FunctionIsSeq
<1> HIDE DEF E, P, p, q, r
<1>12. t \in Seq(T) /\ Len(t) = n + m
       /\ \A i \in 1 .. n + m : t[i] = IF i <= n THEN p[i] ELSE q[i - n]
  BY <1>9, <1>10, ConcatProperties
<1>13. FlattenSeq(t) = FlattenSeq(p) \o FlattenSeq(q)
  BY <1>9, <1>10, FlattenConcat DEF T
<1> HIDE DEF t
<1>14. \A i \in 1 .. n + m : r[i] = t[i]
  <2> SUFFICES ASSUME NEW i \in 1 .. n + m PROVE r[i] = t[i]
    OBVIOUS
  <2>1. CASE i <= n
    BY <1>5, <1>9, <1>11, <1>12, <2>1
  <2>2. CASE ~(i <= n)
    <3>1. i - n \in 1 .. m
      BY <2>2
    <3> QED
      BY <1>5, <1>10, <1>11, <1>12, <2>2, <3>1
  <2> QED
    BY <2>1, <2>2
<1>15. r = t
  BY <1>11, <1>12, <1>14, SeqEqual
<1> QED
  BY <1>6, <1>13, <1>15 DEF Same, c

\* One unit, and text without a newline.
LEMMA CrLfOne ==
  /\ CrLf(<<"nl">>) = <<"cr", "nl">>
  /\ \A u \in Units : u # "nl" => CrLf(<<u>>) = <<u>>
  /\ CrLf(<<>>) = <<>>
<1> DEFINE E(u) == IF u = "nl" THEN <<"cr", "nl">> ELSE <<u>>
<1>1. \A u \in Units : E(u) \in Seq(Units)
  <2>1. "cr" \in Units /\ "nl" \in Units
    BY UnitsHave DEF Marks
  <2> QED
    BY <2>1
<1>2. ASSUME NEW u \in Units PROVE CrLf(<<u>>) = E(u)
  <2> DEFINE s == <<u>>
             p == [i \in DOMAIN s |-> E(s[i])]
  <2>1. DOMAIN s = {1} /\ s[1] = u
    OBVIOUS
  <2> DEFINE v == E(u)
             q == <<v>>
  <2>2. v \in Seq(Units)
    BY <1>1
  <2>3. CrLf(s) = FlattenSeq(p)
    BY DEF CrLf
  <2>4. p = q
    <3>1. DOMAIN p = {1} /\ p[1] = v /\ p = [i \in {1} |-> p[i]]
      BY <2>1
    <3>2. DOMAIN q = {1} /\ q[1] = v /\ q = [i \in {1} |-> q[i]]
      OBVIOUS
    <3> HIDE DEF p, q, v
    <3> QED
      BY <3>1, <3>2
  <2>5. FlattenSeq(q) = v
    <3> HIDE DEF v
    <3> QED
      BY <2>2, FlattenOne
  <2> QED
    BY <2>3, <2>4, <2>5
<1>3. CrLf(<<>>) = <<>>
  <2> DEFINE p == [i \in DOMAIN <<>> |-> E(<<>>[i])]
  <2>1. p = <<>>
    OBVIOUS
  <2>2. CrLf(<<>>) = FlattenSeq(p)
    BY DEF CrLf
  <2> HIDE DEF p
  <2>3. <<>> \in Seq(Seq(Units)) /\ FlattenSeq(<<>>) = <<>>
    BY EmptySeq, FlattenType
  <2> QED
    BY <2>1, <2>2, <2>3
<1>4. "nl" \in Units
  BY UnitsHave DEF Marks
<1> QED
  BY <1>2, <1>3, <1>4

\* Without line ends there is nothing to change.
LEMMA CrLfPlain ==
  ASSUME NEW s \in Text, ~Contains(s, "nl")
  PROVE  CrLf(s) = s
<1> DEFINE V == Units \ {"nl"}
           G == {x \in Seq(V) : CrLf(x) = x}
<1>1. s \in Seq(V)
  BY Without DEF Text
<1>2. <<>> \in G
  BY CrLfOne, EmptySeq
<1>3. ASSUME NEW p \in Seq(V), NEW u \in V, p \in G PROVE Append(p, u) \in G
  <2>1. p \in Text /\ <<u>> \in Text /\ u \in Units /\ u # "nl"
    <3>1. p \in Seq(Units)
      BY SeqMonotonic
    <3> QED
      BY <3>1, TextOps DEF Text
  <2>2. Same(CrLf(p \o <<u>>), CrLf(p) \o CrLf(<<u>>))
    BY <2>1, CrLfConcat
  <2>3. CrLf(p) = p /\ CrLf(<<u>>) = <<u>>
    BY <1>3, <2>1, CrLfOne
  <2>4. Append(p, u) = p \o <<u>>
    BY <2>1, TextOps DEF Same
  <2>5. CrLf(Append(p, u)) = Append(p, u)
    BY <2>2, <2>3, <2>4 DEF Same
  <2>6. Append(p, u) \in Seq(V)
    BY AppendProperties
  <2> QED
    BY <2>5, <2>6
<1>4. \A x \in Seq(V) : x \in G
  <2> HIDE DEF V, G
  <2> QED
    BY <1>2, <1>3, SeqInduction
<1> QED
  BY <1>1, <1>4

----------------------------------------------------------------------------
(* What is still to be read of a message and of the one that follows *)

\* Text that begins with a space, if it is not empty.
Spaced(s) == s = <<>> \/ s[1] = "sp"

\* What is read after the last line of the message.
After == <<"nl">> \o Wire(Follower)

\* What is read from the i-th key on.
From(m, i) == ArgsFrom(m, i) \o (Append(Ending(m), "nl") \o After)

\* It is text.
LEMMA AfterType == After \in Text /\ "nl" \in Units /\ <<"nl">> \in Text
BY FollowerIs, UnitsHave, TextOps DEF After, Marks

\* What is read from one key on, and from the next.
LEMMA FromIs ==
  ASSUME NEW m \in Sendable
  PROVE  /\ \A i \in 1 .. Len(KeyOrder) + 1 : From(m, i) \in Text
         /\ \A i \in 1 .. Len(KeyOrder) : Same(From(m, i), ArgAt(m, i) \o From(m, i + 1))
         /\ Same(From(m, Len(KeyOrder) + 1), Append(Ending(m), "nl") \o After)
         /\ Same(Wire(m) \o Wire(Follower), Opening(m) \o From(m, 1))
<1> DEFINE E == Append(Ending(m), "nl")
           R == E \o After
           n == Len(KeyOrder)
<1>1. Ending(m) \in Text /\ Opening(m) \in Text /\ ArgsFrom(m, 1) \in Text /\ n \in Nat
  BY SerializeIs, ArgsType
<1>2. E \in Text /\ R \in Text
  BY <1>1, AfterType, TextOps
<1>3. \A i : From(m, i) = ArgsFrom(m, i) \o R
  BY DEF From
<1>4. \A i \in 1 .. n + 1 : ArgsFrom(m, i) \in Text
  BY ArgsAre
<1>5. \A i \in 1 .. n + 1 : From(m, i) \in Text
  <2> HIDE DEF R
  <2> QED
    BY <1>2, <1>3, <1>4, TextOps
<1>6. ASSUME NEW i \in 1 .. n PROVE Same(From(m, i), ArgAt(m, i) \o From(m, i + 1))
  <2> DEFINE a == ArgAt(m, i)
             b == ArgsFrom(m, i + 1)
  <2>1. a \in Text /\ b \in Text /\ ArgsFrom(m, i) = a \o b
    <3>1. i + 1 \in 1 .. n + 1
      BY <1>1
    <3> QED
      BY <1>4, <3>1, ArgsType, ArgsAre
  <2> HIDE DEF a, b, R
  <2>2. Same((a \o b) \o R, a \o (b \o R))
    BY <1>2, <2>1, TextAssociative
  <2>3. (a \o b) \o R = a \o (b \o R)
    BY <2>2 DEF Same
  <2>4. From(m, i) = a \o From(m, i + 1)
    BY <1>3, <2>1, <2>3 DEF b
  <2> QED
    BY <2>4 DEF a, Same
<1>7. Same(From(m, n + 1), R)
  <2>1. ArgsFrom(m, n + 1) = <<>>
    BY ArgsAre
  <2> HIDE DEF R
  <2>2. Same(<<>> \o R, R)
    BY <1>2, TextOps
  <2> QED
    BY <1>3, <2>1, <2>2
<1>8. Same(Wire(m) \o Wire(Follower), Opening(m) \o From(m, 1))
  <2> DEFINE o == Opening(m)
             a == ArgsFrom(m, 1)
             e == Ending(m)
             w == Wire(Follower)
             l == <<"nl">>
             b == o \o a
             c == b \o E
  <2>1. o \in Text /\ a \in Text /\ e \in Text /\ w \in Text /\ l \in Text /\ "nl" \in Units
    BY <1>1, FollowerIs, AfterType
  <2>2. b \in Text /\ c \in Text
    <3> HIDE DEF o, a, E
    <3>1. b \in Text
      BY <2>1, TextOps
    <3> HIDE DEF b
    <3> QED
      BY <1>2, <3>1, TextOps
  <2>3. Wire(m) = Append(Append(b \o e, "nl"), "nl")
    BY SerializeIs DEF Wire
  <2>4. Same(b \o E, Append(b \o e, "nl"))
    <3> HIDE DEF b, e
    <3>1. b \o Append(e, "nl") = Append(b \o e, "nl")
      BY <2>1, <2>2, AppendToConcat DEF Text
    <3> QED
      BY <3>1 DEF e, Same
  <2>5. Wire(m) = Append(c, "nl")
    BY <2>3, <2>4 DEF Same
  <2> HIDE DEF o, a, e, w, b, c, E, R
  <2>6. Same(Append(c, "nl"), c \o l)
    BY <2>1, <2>2, TextOps DEF l
  <2>7. Same((c \o l) \o w, c \o (l \o w))
    BY <2>1, <2>2, TextAssociative
  <2>8. l \o w = After
    BY DEF After, w
  <2>9. Same((b \o E) \o After, b \o (E \o After))
    BY <1>2, <2>2, AfterType, TextAssociative
  <2>10. Same((o \o a) \o R, o \o (a \o R))
    BY <1>2, <2>1, TextAssociative
  <2>11. Wire(m) \o w = (b \o E) \o After
    BY <2>5, <2>6, <2>7, <2>8 DEF c, Same
  <2>12. Wire(m) \o w = o \o (a \o R)
    BY <2>9, <2>10, <2>11 DEF b, R, Same
  <2> QED
    BY <1>3, <2>12 DEF w, o, a, Same
<1> QED
  BY <1>5, <1>6, <1>7, <1>8

\* Text joined to text that begins with a space.
LEMMA SpacedIs ==
  /\ Spaced(<<>>)
  /\ \A a, b \in Text : Spaced(a) /\ Spaced(b) => Spaced(a \o b)
  /\ \A a \in Text : Spaced(<<"sp">> \o a)
  /\ \A a, b \in Text : Spaced(a) /\ a # <<>> => Spaced(a \o b) /\ a \o b # <<>>
  /\ \A a \in Text, u \in Units : Spaced(a) /\ a # <<>> => Spaced(Append(a, u))
<1>1. ASSUME NEW a \in Text, NEW b \in Text, a # <<>>
      PROVE  (a \o b)[1] = a[1] /\ a \o b # <<>>
  <2> DEFINE c == a \o b
  <2>1. PICK n \in Nat \ {0} : n = Len(a)
    <3>1. Len(a) \in Nat /\ Len(a) # 0
      BY <1>1, EmptySeq, LenProperties DEF Text
    <3> QED
      BY <3>1
  <2>2. PICK k \in Nat : k = Len(b)
    BY LenProperties DEF Text
  <2>3. /\ Len(c) = n + k /\ c \in Seq(Units)
        /\ \A i \in 1 .. n + k : c[i] = IF i <= n THEN a[i] ELSE b[i - n]
    BY <2>1, <2>2, ConcatProperties DEF Text
  <2> HIDE DEF c
  <2>4. 1 \in 1 .. n + k /\ 1 <= n /\ n + k # 0
    OBVIOUS
  <2>5. c[1] = a[1] /\ c # <<>>
    BY <2>3, <2>4, EmptySeq
  <2> QED
    BY <2>5 DEF c
<1>2. \A a, b \in Text : Spaced(a) /\ Spaced(b) => Spaced(a \o b)
  <2> SUFFICES ASSUME NEW a \in Text, NEW b \in Text, Spaced(a), Spaced(b) PROVE Spaced(a \o b)
    OBVIOUS
  <2>1. CASE a = <<>>
    <3>1. Same(<<>> \o b, b)
      BY TextOps
    <3> QED
      BY <2>1, <3>1 DEF Same
  <2>2. CASE a # <<>>
    BY <1>1, <2>2 DEF Spaced
  <2> QED
    BY <2>1, <2>2
<1>3. \A a \in Text : Spaced(<<"sp">> \o a)
  <2>1. <<"sp">> \in Text /\ <<"sp">> # <<>> /\ <<"sp">>[1] = "sp"
    BY UnitsHave, Single DEF Marks, Text
  <2> QED
    BY <1>1, <2>1 DEF Spaced
<1>4. \A a, b \in Text : Spaced(a) /\ a # <<>> => Spaced(a \o b) /\ a \o b # <<>>
  BY <1>1 DEF Spaced
<1>5. \A a \in Text, u \in Units : Spaced(a) /\ a # <<>> => Spaced(Append(a, u))
  <2> SUFFICES ASSUME NEW a \in Text, NEW u \in Units, Spaced(a), a # <<>> PROVE Spaced(Append(a, u))
    OBVIOUS
  <2>1. Append(a, u) = a \o <<u>> /\ <<u>> \in Text
    BY TextOps DEF Same
  <2> QED
    BY <1>4, <2>1
<1> QED
  BY <1>2, <1>3, <1>4, <1>5 DEF Spaced

\* Text that begins with a space stays so when joined.
LEMMA FlattenSpaced ==
  ASSUME NEW s \in Seq({a \in Text : Spaced(a)})
  PROVE  Spaced(FlattenSeq(s))
<1> DEFINE S == {a \in Text : Spaced(a)}
           G == {p \in Seq(S) : FlattenSeq(p) \in S}
           T == Seq(Units)
<1>1. \A p \in Seq(S) : p \in Seq(T)
  <2>1. S \subseteq T
    BY DEF Text
  <2> HIDE DEF S, T
  <2> QED
    BY <2>1, SeqMonotonic
<1>2. <<>> \in G
  <2>1. <<>> \in Seq(T) /\ <<>> \in Seq(S)
    BY EmptySeq
  <2>2. FlattenSeq(<<>>) = <<>>
    BY <2>1, FlattenType
  <2>3. <<>> \in S
    BY TextOps, SpacedIs
  <2> QED
    BY <2>1, <2>2, <2>3
<1>3. ASSUME NEW p \in Seq(S), NEW x \in S, p \in G PROVE Append(p, x) \in G
  <2>1. p \in Seq(T) /\ x \in T
    BY <1>1 DEF Text
  <2>2. FlattenSeq(Append(p, x)) = FlattenSeq(p) \o x
    BY <2>1, FlattenAppend
  <2> DEFINE f == FlattenSeq(p)
  <2>3. f \in S
    BY <1>3
  <2> HIDE DEF f
  <2>4. f \o x \in S
    BY <2>3, TextOps, SpacedIs
  <2>5. Append(p, x) \in Seq(S)
    <3> HIDE DEF S
    <3> QED
      BY AppendProperties
  <2> QED
    BY <2>2, <2>4, <2>5 DEF f
<1>4. \A p \in Seq(S) : p \in G
  <2> HIDE DEF S, G
  <2> QED
    BY <1>2, <1>3, SeqInduction
<1> QED
  BY <1>4

\* So do flags.
LEMMA FlagsSpaced ==
  ASSUME NEW flags
  PROVE  serializeFlags(flags) \in Text /\ Spaced(serializeFlags(flags))
<1> DEFINE S == {a \in Text : Spaced(a)}
           g(i) == Optional(FlagOrder[i] \in flags, <<"sp">> \o FlagOrder[i])
           s == [i \in DOMAIN FlagOrder |-> g(i)]
<1>1. PICK n \in Nat : DOMAIN FlagOrder = 1 .. n /\ \A i \in 1 .. n : FlagOrder[i] \in Text
  <2>1. \A i \in 1 .. Len(FlagOrder) : FlagOrder[i] \in Text
    BY OrdersType, NoNames
  <2> QED
    BY <2>1, OrdersType
<1>2. \A i \in 1 .. n : g(i) \in S
  <2> SUFFICES ASSUME NEW i \in 1 .. n PROVE g(i) \in S
    OBVIOUS
  <2>1. <<"sp">> \o FlagOrder[i] \in S
    BY <1>1, SpacedIs, TextOps, UnitsHave DEF Marks
  <2>2. <<>> \in S
    BY SpacedIs, TextOps
  <2> QED
    BY <2>1, <2>2 DEF Optional
<1>3. s \in Seq(S)
  <2>1. s \in [1 .. n -> S]
    <3> HIDE DEF g, S
    <3> QED
      BY <1>1, <1>2
  <2> HIDE DEF s, S
  <2> QED
    BY <2>1, FunctionIsSeq
<1>4. Spaced(FlattenSeq(s))
  <2> HIDE DEF s
  <2> QED
    BY <1>3, FlattenSpaced
<1>5. (Units \ Marks) \cup {"sp"} \subseteq Units
  BY UnitsHave DEF Marks
<1> QED
  BY <1>4, <1>5, FlagsType DEF serializeFlags, Text

\* An arg, and what is behind the args, begin with a space.
LEMMA ArgSpaced ==
  ASSUME NEW m \in Sendable, NEW i \in 1 .. Len(KeyOrder)
  PROVE  ArgAt(m, i) \in Text /\ Spaced(ArgAt(m, i))
<1> DEFINE k == KeyOrder[i]
           v == m.args[k]
           a == <<"sp">>
           e == <<"=">>
           q == Quoted(v)
<1>1. ArgAt(m, i) \in Text /\ k \in Text
  BY ArgsType, NoNames
<1>2. a \in Text /\ e \in Text
  BY UnitsHave, TextOps DEF Marks
<1>3. CASE k \in DOMAIN m.args
  <2>1. v \in Text
    BY <1>3, ArgsType
  <2>2. q \in Text
    <3> DEFINE o == <<"<<", "nl">>
               c == <<"nl", ">>">>
               s == <<"sq">>
               d == <<"dq">>
    <3>1. o \in Text /\ c \in Text /\ s \in Text /\ d \in Text
      <4>1. "<<" \in Units /\ ">>" \in Units /\ "nl" \in Units /\ "sq" \in Units /\ "dq" \in Units
        BY UnitsHave DEF Marks
      <4> QED
        BY <4>1 DEF Text
    <3>2. q \in {o \o v \o c, s \o v \o s, d \o v \o d, v}
      BY DEF Quoted
    <3> HIDE DEF o, c, s, d, v, q
    <3>3. o \o v \in Text /\ s \o v \in Text /\ d \o v \in Text
      BY <2>1, <3>1, TextOps
    <3>4. o \o v \o c \in Text /\ s \o v \o s \in Text /\ d \o v \o d \in Text
      BY <3>1, <3>3, TextOps
    <3> QED
      BY <2>1, <3>2, <3>4
  <2>3. ArgAt(m, i) = ((a \o k) \o e) \o q
    BY <1>3 DEF ArgAt, Optional, serializeArg
  <2> HIDE DEF k, v, q, e
  <2>4. Spaced(a \o k) /\ a \o k # <<>> /\ a \o k \in Text
    <3>1. Spaced(a) /\ a # <<>>
      BY Single DEF Spaced
    <3> HIDE DEF a
    <3> QED
      BY <1>1, <1>2, <3>1, SpacedIs, TextOps
  <2> HIDE DEF a
  <2>5. Spaced((a \o k) \o e) /\ (a \o k) \o e # <<>> /\ (a \o k) \o e \in Text
    <3> DEFINE z == a \o k
    <3> HIDE DEF z
    <3>1. Spaced(z \o e) /\ z \o e # <<>> /\ z \o e \in Text
      BY <1>2, <2>4, SpacedIs, TextOps DEF z
    <3> QED
      BY <3>1 DEF z
  <2> DEFINE z == (a \o k) \o e
  <2> HIDE DEF z
  <2>6. Spaced(z \o q)
    BY <2>2, <2>5, SpacedIs DEF z
  <2> QED
    BY <1>1, <2>3, <2>6 DEF z
<1>4. CASE k \notin DOMAIN m.args
  BY <1>1, <1>4, SpacedIs DEF ArgAt, Optional
<1> QED
  BY <1>3, <1>4

\* So does the ending.
LEMMA EndingSpaced ==
  ASSUME NEW m \in Sendable
  PROVE  Ending(m) \in Text /\ Spaced(Ending(m)) /\ ~Contains(Ending(m), "nl") /\ ~Contains(Ending(m), "<<")
<1> DEFINE f == serializeFlags(m.flags)
           e == <<"sp", "node_error">>
<1>1. f \in Text /\ Spaced(f) /\ e \in Text /\ Spaced(e) /\ Ending(m) \in Text
  BY FlagsSpaced, SerializeIs, UnitsHave DEF Text, Common, Spaced
<1>2. Ending(m) \in {<<>>, f, f \o e}
  BY DEF Ending
<1>3. Spaced(Ending(m))
  <2> HIDE DEF f, e
  <2> QED
    BY <1>1, <1>2, SpacedIs
<1> DEFINE V == Units \ {"nl", "<<"}
<1>4. Ending(m) \in Seq(V)
  <2>1. (Units \ Marks) \cup Common \subseteq V
    BY UnitsHave DEF Marks, Common
  <2> QED
    BY <2>1, EndingType
<1>5. ~Contains(Ending(m), "nl") /\ ~Contains(Ending(m), "<<")
  <2>1. \A u : Contains(Ending(m), u) => u \in V
    BY <1>4, ElementOfSeq, LenProperties DEF Contains
  <2> QED
    BY <2>1
<1> QED
  BY <1>1, <1>3, <1>5

----------------------------------------------------------------------------
(* How a response begins *)

\* What says that it is one, and of which kind.
Answer(m) == Addressed(m) \o (IF m.type = "error" THEN <<"sp", "error">> ELSE <<"sp", "ok">>)

Begins(m, text) == \E w \in Text : Same(text, Answer(m) \o w) /\ Spaced(w)

\* The same, with more to come.
BeginsLong(m, text) == \E w \in Text : Same(text, Answer(m) \o w) /\ Spaced(w) /\ w # <<>>

Response(m) == m.type \in {"response", "error"}

\* The units that are in no name.
LEMMA ContainsIn ==
  ASSUME NEW V, NEW s \in Seq(V), NEW u, u \notin V
  PROVE  ~Contains(s, u)
BY ElementOfSeq, LenProperties DEF Contains

\* What it is made of.
LEMMA AnswerIs ==
  ASSUME NEW m \in Sendable, Response(m)
  PROVE  /\ Answer(m) \in Text /\ Answer(m) # <<>> /\ Last(Answer(m)) # "cr"
         /\ ~Contains(Answer(m), "<<") /\ ~Contains(Answer(m), "nl")
<1> DEFINE a == Addressed(m)
           o == IF m.type = "error" THEN <<"sp", "error">> ELSE <<"sp", "ok">>
           V == Units \ {"<<", "nl"}
<1>1. a \in Seq(V)
  <2>1. (Units \ Marks) \cup {"~", ":"} \subseteq V
    BY UnitsHave DEF Marks
  <2> HIDE DEF V
  <2> QED
    BY <2>1, AddressedType DEF Sendable
<1>2. o \in Seq(V) /\ o # <<>> /\ Last(o) # "cr"
  <2>1. "sp" \in V /\ "error" \in V /\ "ok" \in V
    BY UnitsHave DEF Common
  <2> HIDE DEF V
  <2>2. <<"sp", "error">> \in Seq(V) /\ <<"sp", "ok">> \in Seq(V)
    BY <2>1
  <2>3. Last(<<"sp", "error">>) # "cr" /\ Last(<<"sp", "ok">>) # "cr"
    BY DEF Last
  <2> QED
    BY <2>2, <2>3
<1>3. a \o o \in Seq(V) /\ a \o o # <<>> /\ Last(a \o o) # "cr"
  <2> HIDE DEF a, o, V
  <2> QED
    BY <1>1, <1>2, Joined
<1>4. Answer(m) = a \o o
  BY DEF Answer
<1>5. Answer(m) \in Seq(V)
  BY <1>3, <1>4
<1>6. Answer(m) \in Text
  <2>1. V \subseteq Units
    OBVIOUS
  <2> HIDE DEF V
  <2> QED
    BY <1>5, <2>1, SeqMonotonic DEF Text
<1>7. ~Contains(Answer(m), "<<") /\ ~Contains(Answer(m), "nl")
  <2>1. "<<" \notin V /\ "nl" \notin V
    OBVIOUS
  <2> HIDE DEF V
  <2> QED
    BY <1>5, <2>1, ContainsIn
<1> QED
  BY <1>3, <1>4, <1>6, <1>7

\* The opening of a response begins with it.
LEMMA OpeningBegins ==
  ASSUME NEW m \in Sendable, Response(m)
  PROVE  Begins(m, Opening(m))
<1>1. Answer(m) \in Text
  BY AnswerIs
<1>2. CASE m.type = "response"
  <2>1. Opening(m) = Answer(m) \o serializeFlags(m.flags \ {<<"ok">>})
    BY <1>2 DEF Opening, Answer
  <2> QED
    BY <2>1, FlagsSpaced DEF Begins, Same
<1>3. CASE m.type = "error"
  <2> DEFINE b == Optional(m.code # <<>>, <<"sp", "code", "=">> \o m.code)
             c == InQuotes("what", m.text)
  <2>1. Opening(m) = (Answer(m) \o b) \o c
    BY <1>3 DEF Opening, Answer
  <2>2. b \in Text /\ Spaced(b)
    <3> DEFINE p == <<"sp", "code", "=">>
    <3>1. p \in Text /\ m.code \in Text /\ Spaced(p) /\ p # <<>>
      BY UnitsHave, NoNames DEF Sendable, Text, Common, Spaced
    <3> HIDE DEF p
    <3>2. p \o m.code \in Text /\ Spaced(p \o m.code)
      BY <3>1, TextOps, SpacedIs
    <3> QED
      BY <3>2, TextOps, SpacedIs DEF Optional, p
  <2>3. c \in Text /\ Spaced(c)
    <3> DEFINE p == <<"sp", "what", "=", "dq">>
               d == <<"dq">>
    <3>1. p \in Text /\ d \in Text /\ m.text \in Text /\ Spaced(p) /\ p # <<>>
      BY UnitsHave DEF Sendable, Text, Common, Spaced
    <3>2. c = IF m.text # <<>> THEN (p \o m.text) \o d ELSE <<>>
      BY DEF InQuotes, Optional
    <3> HIDE DEF p, d, c
    <3>3. p \o m.text \in Text /\ Spaced(p \o m.text) /\ p \o m.text # <<>>
      BY <3>1, TextOps, SpacedIs
    <3> DEFINE z == p \o m.text
    <3> HIDE DEF z
    <3>4. z \o d \in Text /\ Spaced(z \o d)
      BY <3>1, <3>3, TextOps, SpacedIs DEF z
    <3> QED
      BY <3>2, <3>4, TextOps, SpacedIs DEF z
  <2> HIDE DEF b, c
  <2>4. Same((Answer(m) \o b) \o c, Answer(m) \o (b \o c))
    BY <1>1, <2>2, <2>3, TextAssociative
  <2>5. b \o c \in Text /\ Spaced(b \o c)
    BY <2>2, <2>3, SpacedIs, TextOps
  <2> QED
    BY <2>1, <2>4, <2>5 DEF Begins, Same
<1> QED
  BY <1>2, <1>3 DEF Response

\* The return that is lost is not what the space is followed by.
LEMMA SpacedChomp ==
  ASSUME NEW a \in Text, a # <<>>, Last(a) # "cr", NEW s \in Text, NEW v \in Text,
         Same(s, a \o v), Spaced(v)
  PROVE  \E w \in Text : Same(Chomp(s), a \o w) /\ Spaced(w)
<1> SUFFICES ASSUME s # <<>>, Last(s) = "cr" PROVE \E w \in Text : Same(Front(s), a \o w) /\ Spaced(w)
  BY DEF Chomp
<1>1. a \in Text /\ a # <<>> /\ Last(a) # "cr" /\ Same(s, a \o v) /\ Spaced(v)
  OBVIOUS
<1>2. v # <<>>
  <2> SUFFICES ASSUME v = <<>> PROVE FALSE
    OBVIOUS
  <2>1. Same(a \o <<>>, a)
    BY <1>1, TextOps
  <2> QED
    BY <1>1, <2>1 DEF Same
<1>3. Last(v) = "cr"
  <2>1. Last(a \o v) = Last(v)
    BY <1>1, <1>2, Joined DEF Text
  <2> QED
    BY <1>1, <2>1 DEF Same
<1> DEFINE f == Front(v)
<1>4. f \in Text /\ v = Append(f, "cr") /\ Len(v) \in Nat \ {0} /\ Len(f) = Len(v) - 1
      /\ \A i \in 1 .. Len(v) - 1 : f[i] = v[i]
  <2>1. f \in Seq(Units) /\ v = Append(f, Last(v)) /\ Len(v) \in Nat \ {0} /\ Len(f) = Len(v) - 1
        /\ \A i \in 1 .. Len(v) - 1 : f[i] = v[i]
    BY <1>2, FrontAndLast DEF Text
  <2> QED
    BY <1>3, <2>1 DEF Text
<1>5. Spaced(f)
  <2>1. v[1] = "sp"
    BY <1>1, <1>2 DEF Spaced
  <2>2. v[Len(v)] = "cr"
    BY <1>3 DEF Last
  <2>3. Len(v) # 1
    BY <2>1, <2>2
  <2>4. 1 \in 1 .. Len(v) - 1
    BY <1>4, <2>3
  <2> QED
    BY <1>4, <2>1, <2>4 DEF Spaced
<1> HIDE DEF f
<1>6. Same(s, Append(a \o f, "cr"))
  <2>1. "cr" \in Units /\ a \in Seq(Units) /\ f \in Seq(Units)
    BY <1>1, <1>4, UnitsHave DEF Text, Marks
  <2>2. a \o Append(f, "cr") = Append(a \o f, "cr")
    BY <2>1, AppendToConcat
  <2>3. s = a \o Append(f, "cr")
    BY <1>1, <1>4 DEF Same
  <2> QED
    BY <2>2, <2>3 DEF Same
<1> DEFINE z == a \o f
<1>7. z \in Text
  BY <1>1, <1>4, TextOps
<1>8. s = Append(z, "cr")
  BY <1>6 DEF Same
<1>9. Front(s) = z
  <2> HIDE DEF z
  <2> QED
    BY <1>7, <1>8, FrontOfAppend, UnitsHave DEF Text, Marks
<1> QED
  BY <1>4, <1>5, <1>9 DEF Same

\* What may be added to such text.
LEMMA BeginsMore ==
  ASSUME NEW m \in Sendable, Response(m), NEW s \in Text
  PROVE  /\ \A w \in Text : Begins(m, s) /\ Spaced(w) => Begins(m, s \o w)
         /\ \A w \in Text : BeginsLong(m, s) => BeginsLong(m, s \o w)
         /\ Begins(m, s) /\ Contains(s, "<<") => BeginsLong(m, s)
         /\ BeginsLong(m, s) => Begins(m, s)
         /\ Begins(m, s) => Begins(m, Chomp(s))
<1>1. Answer(m) \in Text /\ Answer(m) # <<>> /\ Last(Answer(m)) # "cr" /\ ~Contains(Answer(m), "<<")
  BY AnswerIs
<1> DEFINE a == Answer(m)
<1>2. a \in Text /\ a # <<>> /\ Last(a) # "cr" /\ ~Contains(a, "<<")
  BY <1>1
<1>3. \A x : Begins(m, x) <=> \E w \in Text : Same(x, a \o w) /\ Spaced(w)
  BY DEF Begins
<1>4. \A x : BeginsLong(m, x) <=> \E w \in Text : Same(x, a \o w) /\ Spaced(w) /\ w # <<>>
  BY DEF BeginsLong
<1> HIDE DEF a
<1>5. ASSUME NEW v \in Text, NEW w \in Text, Same(s, a \o v) PROVE Same(s \o w, a \o (v \o w)) /\ v \o w \in Text
  <2>1. Same((a \o v) \o w, a \o (v \o w))
    BY <1>2, TextAssociative
  <2> QED
    BY <1>5, <2>1, TextOps DEF Same
<1>6. \A w \in Text : Begins(m, s) /\ Spaced(w) => Begins(m, s \o w)
  <2> SUFFICES ASSUME NEW w \in Text, Begins(m, s), Spaced(w) PROVE Begins(m, s \o w)
    OBVIOUS
  <2>1. PICK v \in Text : Same(s, a \o v) /\ Spaced(v)
    BY <1>3
  <2>2. Same(s \o w, a \o (v \o w)) /\ v \o w \in Text /\ Spaced(v \o w)
    BY <1>5, <2>1, SpacedIs
  <2> QED
    BY <1>3, <2>2
<1>7. \A w \in Text : BeginsLong(m, s) => BeginsLong(m, s \o w)
  <2> SUFFICES ASSUME NEW w \in Text, BeginsLong(m, s) PROVE BeginsLong(m, s \o w)
    OBVIOUS
  <2>1. PICK v \in Text : Same(s, a \o v) /\ Spaced(v) /\ v # <<>>
    BY <1>4
  <2>2. Same(s \o w, a \o (v \o w)) /\ v \o w \in Text /\ Spaced(v \o w) /\ v \o w # <<>>
    BY <1>5, <2>1, SpacedIs
  <2> QED
    BY <1>4, <2>2
<1>8. Begins(m, s) /\ Contains(s, "<<") => BeginsLong(m, s)
  <2> SUFFICES ASSUME Begins(m, s), Contains(s, "<<") PROVE BeginsLong(m, s)
    OBVIOUS
  <2>1. PICK v \in Text : Same(s, a \o v) /\ Spaced(v)
    BY <1>3
  <2>2. Contains(v, "<<")
    BY <1>2, <2>1, TextContains DEF Same
  <2>3. v # <<>>
    BY <2>2, TextContains
  <2> QED
    BY <1>4, <2>1, <2>3
<1>9. BeginsLong(m, s) => Begins(m, s)
  BY <1>3, <1>4
<1>10. Begins(m, s) => Begins(m, Chomp(s))
  <2> SUFFICES ASSUME Begins(m, s) PROVE Begins(m, Chomp(s))
    OBVIOUS
  <2>1. PICK v \in Text : Same(s, a \o v) /\ Spaced(v)
    BY <1>3
  <2>2. \E w \in Text : Same(Chomp(s), a \o w) /\ Spaced(w)
    BY <1>2, <2>1, SpacedChomp
  <2> QED
    BY <1>3, <2>2
<1> QED
  BY <1>6, <1>7, <1>8, <1>9, <1>10

----------------------------------------------------------------------------
(* The lines of a message *)

\* Two units at the end.
LEMMA AppendTwo ==
  ASSUME NEW s \in Text, NEW u \in Units, NEW v \in Units
  PROVE  Same(s \o <<u, v>>, Append(Append(s, u), v)) /\ <<u, v>> \in Text /\ <<u>> \in Text
<1> DEFINE o == <<u>>
<1>1. o \in Seq(Units) /\ s \in Seq(Units)
  BY DEF Text
<1>2. <<u, v>> = Append(o, v)
  OBVIOUS
<1>3. Append(s, u) = s \o o
  BY <1>1, AppendOne
<1>4. <<u, v>> \in Text /\ <<u>> \in Text
  BY DEF Text
<1> HIDE DEF o
<1>5. s \o Append(o, v) = Append(s \o o, v)
  BY <1>1, AppendToConcat
<1> QED
  BY <1>2, <1>3, <1>4, <1>5 DEF Same

\* Text of a block: it does not end the block, or does it before it opens another.
BlockText(m, b) ==
  (Contains(b, ">>") => ~Contains(b, "<<")) /\ (BlocksHold(m) => ~Contains(b, ">>"))

\* What can be left to read: outside blocks, inside one, and at the end of one.
Outside(m, y) ==
  \E h \in Text, j \in 1 .. Len(KeyOrder) + 1 :
    ~Contains(h, "<<") /\ Same(y, h \o From(m, j))
      /\ (BlocksHold(m) => Same(y, Opening(m) \o From(m, 1)))

Inside(m, y) ==
  \E b \in Text, j \in 1 .. Len(KeyOrder) + 1 :
    BlockText(m, b) /\ Same(y, b \o (<<"nl", ">>">> \o From(m, j)))

Closing(m, y) == \E j \in 1 .. Len(KeyOrder) + 1 : Same(y, <<">>">> \o From(m, j))

EndsOpen(x) == \E u \in Text : ~Contains(u, "<<") /\ Same(x, Append(u, "<<"))

\* x is the first line of h and what there is from the i-th key on.
FirstLine(m, h, i, x, y) ==
  /\ ~Contains(x, "nl") /\ Same(h \o From(m, i), Append(x, "nl") \o y)
  /\ \E w \in Text : Same(x, h \o w) /\ Spaced(w)
  /\ \/ ~Contains(x, "<<") /\ Same(y, After)
     \/ EndsOpen(x) /\ Inside(m, y)

\* The text around the values opens no block and has no line end.
LEMMA OpeningPlain ==
  ASSUME NEW m \in Sendable, NoStrayBlock(m)
  PROVE  /\ Opening(m) \in Text /\ ~Contains(Opening(m), "<<")
         /\ BlocksHold(m) => ~Contains(Opening(m), "nl")
<1>1. Opening(m) \in Text
  BY SerializeIs
<1>2. m.text \in Seq(Units)
  BY DEF Sendable, Text
<1>3. ~Contains(Opening(m), "<<")
  <2> DEFINE V == Units \ {"<<"}
  <2>1. m.text \in Seq(V)
    BY <1>2, Without DEF NoStrayBlock
  <2>2. (Units \ Marks) \cup Common \subseteq V
    BY UnitsHave DEF Marks, Common
  <2>3. Opening(m) \in Seq(V)
    BY <2>1, <2>2, OpeningType
  <2> QED
    BY <2>3, ContainsIn
<1>4. ASSUME BlocksHold(m) PROVE ~Contains(Opening(m), "nl")
  <2> DEFINE V == Units \ {"nl"}
  <2>1. m.text \in Seq(V)
    BY <1>2, <1>4, Without DEF BlocksHold
  <2>2. (Units \ Marks) \cup Common \subseteq V
    BY UnitsHave DEF Marks, Common
  <2>3. Opening(m) \in Seq(V)
    BY <2>1, <2>2, OpeningType
  <2> QED
    BY <2>3, ContainsIn
<1> QED
  BY <1>1, <1>3, <1>4

\* What is written of the i-th key.
KeyText(i) == (<<"sp">> \o KeyOrder[i]) \o <<"=">>

\* An arg on several lines, around its value.
LEMMA BlockForm ==
  ASSUME NEW m \in Sendable, NEW i \in 1 .. Len(KeyOrder), KeyOrder[i] \in DOMAIN m.args,
         NEW v \in Text, v = m.args[KeyOrder[i]], Contains(v, "nl")
  PROVE  /\ KeyText(i) \in Text /\ ~Contains(KeyText(i), "nl") /\ ~Contains(KeyText(i), "<<")
         /\ Spaced(KeyText(i)) /\ KeyText(i) # <<>>
         /\ Same(ArgAt(m, i), ((KeyText(i) \o <<"<<", "nl">>) \o v) \o <<"nl", ">>">>)
<1> DEFINE k == KeyOrder[i]
           V == Units \ {"nl", "<<"}
           a == <<"sp">>
           e == <<"=">>
           s == (a \o k) \o e
<1>1. v \in Seq(Units) /\ k \in Name
  BY ArgsType DEF Text
<1>2. ArgAt(m, i) = ((s \o <<"<<", "nl">>) \o v) \o <<"nl", ">>">>
  <2>1. ArgAt(m, i) = serializeArg(k, v)
    BY DEF ArgAt, Optional
  <2>2. (Units \ Marks) \cup {"sp", "=", "nl", "<<", ">>"} \subseteq Units
    BY UnitsHave DEF Marks
  <2> HIDE DEF k
  <2> QED
    BY <1>1, <2>1, <2>2, BlockIs
<1>3. s \in Seq(V)
  <2>1. "sp" \in V /\ "=" \in V /\ Units \ Marks \subseteq V
    BY UnitsHave DEF Marks
  <2> HIDE DEF V, k
  <2>2. a \in Seq(V) /\ e \in Seq(V) /\ k \in Seq(V)
    BY <1>1, <2>1, NameIn
  <2> HIDE DEF a, e
  <2>3. a \o k \in Seq(V)
    BY <2>2, ConcatProperties
  <2> DEFINE z == a \o k
  <2> HIDE DEF z
  <2>4. z \o e \in Seq(V)
    BY <2>2, <2>3, ConcatProperties DEF z
  <2> QED
    BY <2>4 DEF z
<1>4. Spaced(s) /\ s # <<>>
  <2>1. a \in Text /\ Spaced(a) /\ a # <<>> /\ e \in Text /\ k \in Text
    BY <1>1, UnitsHave, Single, TextOps, NoNames DEF Marks, Spaced
  <2> HIDE DEF a, e, k
  <2> DEFINE z == a \o k
  <2>2. z \in Text /\ Spaced(z) /\ z # <<>>
    BY <2>1, SpacedIs, TextOps
  <2> HIDE DEF z
  <2>3. Spaced(z \o e) /\ z \o e # <<>>
    BY <2>1, <2>2, SpacedIs
  <2> QED
    BY <2>3 DEF z
<1>5. KeyText(i) = s
  BY DEF KeyText
<1> HIDE DEF s
<1>6. s \in Text /\ ~Contains(s, "nl") /\ ~Contains(s, "<<")
  <2>1. "nl" \notin V /\ "<<" \notin V /\ V \subseteq Units
    OBVIOUS
  <2> HIDE DEF V
  <2>2. ~Contains(s, "nl") /\ ~Contains(s, "<<")
    BY <1>3, <2>1, ContainsIn
  <2> QED
    BY <1>3, <2>1, <2>2, SeqMonotonic DEF Text
<1> QED
  BY <1>2, <1>4, <1>5, <1>6 DEF Same

\* An arg is on one line, or opens a block that it closes.
LEMMA ArgForm ==
  ASSUME NEW m \in Sendable, NoStrayBlock(m), NEW i \in 1 .. Len(KeyOrder)
  PROVE  \/ ~Contains(ArgAt(m, i), "nl") /\ ~Contains(ArgAt(m, i), "<<")
         \/ \E s \in Text, v \in Text :
              /\ ~Contains(s, "nl") /\ ~Contains(s, "<<") /\ Spaced(s) /\ s # <<>> /\ BlockText(m, v)
              /\ Same(ArgAt(m, i), ((s \o <<"<<", "nl">>) \o v) \o <<"nl", ">>">>)
<1> DEFINE k == KeyOrder[i]
           v == m.args[k]
           V == Units \ {"nl", "<<"}
<1>1. (Units \ Marks) \cup {"sp", "=", "dq", "sq"} \subseteq V
  BY UnitsHave DEF Marks
<1>2. CASE k \notin DOMAIN m.args
  BY <1>2, TextContains DEF ArgAt, Optional
<1>3. CASE k \in DOMAIN m.args /\ ~Contains(v, "nl")
  <2>1. ~Contains(v, "<<") /\ v \in Seq(Units) /\ k \in Name
    BY <1>3, ArgsType DEF NoStrayBlock, Text
  <2>2. v \in Seq(Units \ {"nl"})
    BY <1>3, <2>1, Without
  <2>3. v \in Seq((Units \ {"nl"}) \ {"<<"})
    BY <2>1, <2>2, Without
  <2>4. V = (Units \ {"nl"}) \ {"<<"}
    OBVIOUS
  <2>5. v \in Seq(V)
    BY <2>3, <2>4
  <2> DEFINE a == serializeArg(k, v)
  <2>6. ArgAt(m, i) = a
    BY <1>3 DEF ArgAt, Optional
  <2>7. "nl" \notin V /\ "<<" \notin V
    OBVIOUS
  <2>8. a \in Seq(V)
    <3> HIDE DEF k, v, V
    <3> QED
      BY <1>1, <1>3, <2>1, <2>5, OneLineType
  <2> HIDE DEF a, V
  <2> QED
    BY <2>6, <2>7, <2>8, ContainsIn
<1>4. CASE k \in DOMAIN m.args /\ Contains(v, "nl")
  <2>1. PICK w \in Text : w = v
    BY <1>4, ArgsType
  <2>2. BlockText(m, w)
    BY <1>4, <2>1 DEF NoStrayBlock, BlocksHold, BlockText
  <2>3. /\ KeyText(i) \in Text /\ ~Contains(KeyText(i), "nl") /\ ~Contains(KeyText(i), "<<")
        /\ Spaced(KeyText(i)) /\ KeyText(i) # <<>>
        /\ Same(ArgAt(m, i), ((KeyText(i) \o <<"<<", "nl">>) \o w) \o <<"nl", ">>">>)
    BY <1>4, <2>1, BlockForm
  <2> QED
    BY <2>2, <2>3
<1> QED
  BY <1>2, <1>3, <1>4

\* The text of an arg on one line is part of the line.
LEMMA FirstLineStep ==
  ASSUME NEW m \in Sendable, NEW i \in 1 .. Len(KeyOrder), NEW h \in Text,
         NEW x \in Text, NEW y \in Text, FirstLine(m, h \o ArgAt(m, i), i + 1, x, y)
  PROVE  FirstLine(m, h, i, x, y)
<1> DEFINE a == ArgAt(m, i)
           F == From(m, i + 1)
<1>1. a \in Text /\ Spaced(a) /\ F \in Text /\ Same(From(m, i), a \o F)
  <2>1. Len(KeyOrder) \in Nat
    BY ArgsType
  <2>2. i + 1 \in 1 .. Len(KeyOrder) + 1
    BY <2>1
  <2> QED
    BY <2>2, ArgSpaced, FromIs
<1>2. PICK w \in Text : Same(x, (h \o a) \o w) /\ Spaced(w)
  BY DEF FirstLine
<1>3. Same((h \o a) \o F, Append(x, "nl") \o y)
  BY DEF FirstLine
<1> HIDE DEF a, F
<1>4. Same((h \o a) \o F, h \o (a \o F)) /\ Same((h \o a) \o w, h \o (a \o w))
  BY <1>1, TextAssociative
<1>5. Same(h \o From(m, i), Append(x, "nl") \o y)
  BY <1>1, <1>3, <1>4 DEF Same
<1>6. Same(x, h \o (a \o w)) /\ a \o w \in Text /\ Spaced(a \o w)
  BY <1>1, <1>2, <1>4, TextOps, SpacedIs DEF Same
<1> QED
  BY <1>5, <1>6 DEF FirstLine

\* A block begins on the line and goes on behind it.
LEMMA FirstLineBlock ==
  ASSUME NEW m \in Sendable, NEW i \in 1 .. Len(KeyOrder), NEW h \in Text, NEW s \in Text, NEW v \in Text,
         ~Contains(h, "nl"), ~Contains(h, "<<"),
         ~Contains(s, "nl"), ~Contains(s, "<<"), Spaced(s), s # <<>>, BlockText(m, v),
         Same(ArgAt(m, i), ((s \o <<"<<", "nl">>) \o v) \o <<"nl", ">>">>)
  PROVE  \E x, y \in Text : FirstLine(m, h, i, x, y)
<1> DEFINE o == <<"<<", "nl">>
           c == <<"nl", ">>">>
           F == From(m, i + 1)
           u == h \o s
           x == Append(u, "<<")
           y == v \o (c \o F)
<1>1. "nl" \in Units /\ "<<" \in Units /\ ">>" \in Units
  BY UnitsHave DEF Marks
<1>2. i + 1 \in 1 .. Len(KeyOrder) + 1
  BY ArgsType
<1>3. F \in Text /\ Same(From(m, i), ArgAt(m, i) \o F)
  BY <1>2, FromIs
<1>4. o \in Text /\ c \in Text
  BY <1>1 DEF Text
<1>5. u \in Text /\ ~Contains(u, "nl") /\ ~Contains(u, "<<")
  BY TextOps, TextContains
<1>6. Same(u \o o, Append(x, "nl")) /\ x \in Text /\ ~Contains(x, "nl") /\ EndsOpen(x)
  <2> HIDE DEF u
  <2>1. x \in Text /\ ~Contains(x, "nl")
    BY <1>1, <1>5, TextOps, TextContains
  <2>2. EndsOpen(x)
    BY <1>5 DEF EndsOpen, Same
  <2> QED
    BY <1>1, <1>5, <2>1, <2>2, AppendTwo
<1>7. c \o F \in Text /\ y \in Text
  <2> HIDE DEF c, F
  <2> QED
    BY <1>3, <1>4, TextOps
<1> HIDE DEF o, F
<1>8. Same(h \o From(m, i), Append(x, "nl") \o y)
  <2> HIDE DEF c
  <2> DEFINE a == s \o o
  <2>1. a \in Text
    BY <1>4, TextOps
  <2> HIDE DEF a
  <2>2. Same((a \o v) \o (c \o F), ((a \o v) \o c) \o F) /\ Same(a \o (v \o (c \o F)), ((a \o v) \o c) \o F)
    BY <1>3, <1>4, <2>1, FourInARow DEF Text
  <2>3. From(m, i) = a \o y
    BY <1>3, <2>2 DEF Same, a, c, o
  <2> HIDE DEF y, x
  <2>4. Same(h \o (a \o y), (h \o a) \o y)
    <3>1. Same((h \o a) \o y, h \o (a \o y))
      BY <1>7, <2>1, TextAssociative
    <3> QED
      BY <3>1 DEF Same
  <2>5. Same((h \o s) \o o, h \o (s \o o))
    BY <1>4, TextAssociative
  <2> QED
    BY <1>6, <2>3, <2>4, <2>5 DEF Same, a, u
<1>9. Inside(m, y)
  <2>1. Same(y, v \o (<<"nl", ">>">> \o From(m, i + 1)))
    BY DEF Same, F
  <2> QED
    BY <1>2, <2>1 DEF Inside
<1>10. \E w \in Text : Same(x, h \o w) /\ Spaced(w)
  <2> DEFINE w == Append(s, "<<")
  <2>1. w \in Text /\ Spaced(w)
    BY <1>1, TextOps, SpacedIs
  <2>2. h \o Append(s, "<<") = Append(h \o s, "<<")
    BY <1>1, AppendToConcat DEF Text
  <2> HIDE DEF w
  <2> QED
    BY <2>1, <2>2 DEF Same, w
<1> QED
  BY <1>6, <1>7, <1>8, <1>9, <1>10 DEF FirstLine

\* There is a first line, and it ends the message or opens a block.
LEMMA FirstLineIs ==
  ASSUME NEW m \in Sendable, NoStrayBlock(m)
  PROVE  \A i \in 1 .. Len(KeyOrder) + 1 : \A h \in Text :
           ~Contains(h, "nl") /\ ~Contains(h, "<<") => \E x, y \in Text : FirstLine(m, h, i, x, y)
<1> DEFINE Good(i) == \A h \in Text : ~Contains(h, "nl") /\ ~Contains(h, "<<") =>
                        \E x, y \in Text : FirstLine(m, h, i, x, y)
<1>1. PICK n \in Nat : n = Len(KeyOrder)
  BY ArgsType
<1>2. Good(n + 1)
  <2> SUFFICES ASSUME NEW h \in Text, ~Contains(h, "nl"), ~Contains(h, "<<")
               PROVE  \E x, y \in Text : FirstLine(m, h, n + 1, x, y)
    OBVIOUS
  <2> DEFINE e == Ending(m)
             x == h \o e
  <2>1. e \in Text /\ Spaced(e) /\ ~Contains(e, "nl") /\ ~Contains(e, "<<") /\ "nl" \in Units /\ After \in Text
    BY EndingSpaced, AfterType
  <2>2. From(m, n + 1) = Append(e, "nl") \o After
    BY <1>1, FromIs DEF Same
  <2> HIDE DEF e
  <2>3. x \in Text /\ ~Contains(x, "nl") /\ ~Contains(x, "<<")
    BY <2>1, TextOps, TextContains
  <2> DEFINE E == Append(e, "nl")
  <2>4. E \in Text
    BY <2>1, TextOps
  <2>5. Same(h \o E, Append(x, "nl"))
    <3>1. h \o Append(e, "nl") = Append(h \o e, "nl")
      BY <2>1, AppendToConcat DEF Text
    <3> QED
      BY <3>1 DEF Same
  <2> HIDE DEF E, x
  <2>6. Same((h \o E) \o After, h \o (E \o After))
    BY <2>1, <2>4, TextAssociative
  <2>7. Same(h \o From(m, n + 1), Append(x, "nl") \o After)
    BY <2>2, <2>5, <2>6 DEF Same, E
  <2>8. Same(x, h \o e) /\ Same(After, After)
    BY DEF x, Same
  <2> QED
    BY <2>1, <2>3, <2>7, <2>8 DEF FirstLine
<1>3. \A i \in 1 .. n : Good(i + 1) => Good(i)
  <2> SUFFICES ASSUME NEW i \in 1 .. n, Good(i + 1),
                      NEW h \in Text, ~Contains(h, "nl"), ~Contains(h, "<<")
               PROVE  \E x, y \in Text : FirstLine(m, h, i, x, y)
    OBVIOUS
  <2>1. i \in 1 .. Len(KeyOrder)
    BY <1>1
  <2> DEFINE a == ArgAt(m, i)
  <2>2. CASE ~Contains(a, "nl") /\ ~Contains(a, "<<")
    <3>1. a \in Text
      BY <2>1, ArgSpaced
    <3> DEFINE g == h \o a
    <3>2. g \in Text /\ ~Contains(g, "nl") /\ ~Contains(g, "<<")
      <4> HIDE DEF a
      <4> QED
        BY <2>2, <3>1, TextOps, TextContains
    <3>3. PICK x \in Text, y \in Text : FirstLine(m, g, i + 1, x, y)
      <4> HIDE DEF g
      <4> QED
        BY <3>2
    <3> QED
      BY <2>1, <3>3, FirstLineStep
  <2>3. CASE ~(~Contains(a, "nl") /\ ~Contains(a, "<<"))
    BY <2>1, <2>3, ArgForm, FirstLineBlock
  <2> QED
    BY <2>2, <2>3
<1> HIDE DEF Good
<1>4. \A i \in 1 .. n + 1 : Good(i)
  <2> DEFINE B == {k \in 0 .. n : ~Good(n + 1 - k)}
  <2>1. ASSUME NEW k \in B PROVE k - 1 \in B
    <3>1. k \in 0 .. n /\ ~Good(n + 1 - k)
      OBVIOUS
    <3>2. k # 0
      <4> SUFFICES ASSUME k = 0 PROVE FALSE
        OBVIOUS
      <4>1. n + 1 - k = n + 1
        OBVIOUS
      <4> QED
        BY <1>2, <3>1, <4>1
    <3> DEFINE i == n + 1 - k
    <3>3. i \in 1 .. n /\ i + 1 = n + 1 - (k - 1) /\ k - 1 \in 0 .. n
      BY <3>1, <3>2
    <3>4. ~Good(i + 1)
      <4> HIDE DEF i
      <4> QED
        BY <1>3, <3>1, <3>3 DEF i
    <3>5. ~Good(n + 1 - (k - 1))
      BY <3>3, <3>4
    <3> QED
      BY <3>3, <3>5
  <2>2. B \subseteq Nat
    OBVIOUS
  <2>3. B = {}
    <3> HIDE DEF B
    <3> QED
      BY <2>1, <2>2, NoFirst
  <2> SUFFICES ASSUME NEW i \in 1 .. n + 1 PROVE Good(i)
    OBVIOUS
  <2> DEFINE k == n + 1 - i
  <2>4. k \in 0 .. n /\ n + 1 - k = i
    OBVIOUS
  <2> HIDE DEF k
  <2>5. Good(n + 1 - k)
    BY <2>3, <2>4
  <2> QED
    BY <2>4, <2>5
<1> QED
  BY <1>1, <1>4 DEF Good

\* The first line of what there is to read, x, and what is behind it, y.
CutAt(R, x, y) == ~Contains(x, "nl") /\ Same(R, Append(x, "nl") \o y)

OutsideCut(m, x, y) ==
  /\ \/ ~Contains(x, "<<") /\ Outside(m, y) /\ ~BlocksHold(m)
     \/ ~Contains(x, "<<") /\ Same(y, After)
     \/ EndsOpen(x) /\ Inside(m, y)
  /\ BlocksHold(m) /\ Response(m) => Begins(m, x)

InsideCut(m, x, y) ==
  IF Contains(x, ">>") THEN ~Contains(x, "<<") /\ Outside(m, y) /\ (Inside(m, y) \/ Closing(m, y)) /\ ~BlocksHold(m)
                       ELSE Inside(m, y) \/ Closing(m, y)

ClosingCut(m, x, y) ==
  /\ \E w \in Text : Same(x, <<">>">> \o w) /\ Spaced(w)
  /\ \/ ~Contains(x, "<<") /\ Same(y, After)
     \/ Contains(x, "<<") /\ Inside(m, y)

\* Text with a line end, and what is behind it.
LEMMA LineInText ==
  ASSUME NEW h \in Text, NEW F \in Text, Contains(h, "nl")
  PROVE  \E x, g \in Text : /\ CutAt(h \o F, x, g \o F)
                            /\ \A u : u # "nl" => (Contains(h, u) <=> Contains(x, u) \/ Contains(g, u))
<1>1. PICK x \in Text, g \in Text : ~Contains(x, "nl") /\ Same(h, Append(x, "nl") \o g)
  BY TextSplits
<1> DEFINE t == Append(x, "nl")
<1>2. t \in Text /\ \A u : Contains(t, u) <=> Contains(x, u) \/ u = "nl"
  BY AfterType, TextOps, TextContains
<1>3. h = t \o g
  BY <1>1 DEF Same
<1> HIDE DEF t
<1>4. Same((t \o g) \o F, t \o (g \o F))
  BY <1>2, TextAssociative
<1>5. Same(h \o F, t \o (g \o F))
  BY <1>3, <1>4 DEF Same
<1>6. \A u : u # "nl" => (Contains(h, u) <=> Contains(x, u) \/ Contains(g, u))
  BY <1>2, <1>3, TextContains
<1> QED
  BY <1>1, <1>5, <1>6 DEF CutAt, t

\* The next line, read outside a block.
LEMMA OutsideLine ==
  ASSUME NEW m \in Sendable, NoStrayBlock(m), NEW R \in Text, Outside(m, R)
  PROVE  \E x, y \in Text : CutAt(R, x, y) /\ OutsideCut(m, x, y)
<1>1. PICK h \in Text, j \in 1 .. Len(KeyOrder) + 1 :
        ~Contains(h, "<<") /\ Same(R, h \o From(m, j))
          /\ (BlocksHold(m) => Same(R, Opening(m) \o From(m, 1)))
  BY DEF Outside
<1> DEFINE o == Opening(m)
<1>2. o \in Text /\ ~Contains(o, "<<") /\ (BlocksHold(m) => ~Contains(o, "nl"))
  BY OpeningPlain
<1>3. 1 \in 1 .. Len(KeyOrder) + 1 /\ From(m, j) \in Text
  BY ArgsType, FromIs
<1>4. CASE BlocksHold(m)
  <2>1. PICK x \in Text, y \in Text : FirstLine(m, o, 1, x, y)
    <3> HIDE DEF o
    <3> QED
      BY <1>2, <1>3, <1>4, FirstLineIs
  <2>2. CutAt(R, x, y)
    BY <1>1, <1>4, <2>1 DEF FirstLine, CutAt, Same
  <2>3. Response(m) => Begins(m, x)
    <3> SUFFICES ASSUME Response(m) PROVE Begins(m, x)
      OBVIOUS
    <3>1. PICK w \in Text : Same(x, o \o w) /\ Spaced(w)
      BY <2>1 DEF FirstLine
    <3>2. Begins(m, o)
      BY OpeningBegins
    <3> HIDE DEF o
    <3>3. Begins(m, o \o w)
      BY <1>2, <3>1, <3>2, BeginsMore
    <3> QED
      BY <3>1, <3>3 DEF Same
  <2> QED
    BY <2>1, <2>2, <2>3 DEF FirstLine, OutsideCut
<1>5. CASE ~BlocksHold(m) /\ ~Contains(h, "nl")
  <2>1. PICK x \in Text, y \in Text : FirstLine(m, h, j, x, y)
    BY <1>1, <1>5, FirstLineIs
  <2>2. CutAt(R, x, y)
    BY <1>1, <2>1 DEF FirstLine, CutAt, Same
  <2> QED
    BY <1>5, <2>1, <2>2 DEF FirstLine, OutsideCut
<1>6. CASE ~BlocksHold(m) /\ Contains(h, "nl")
  <2> DEFINE F == From(m, j)
  <2>1. PICK x \in Text, g \in Text :
          CutAt(h \o F, x, g \o F) /\ (Contains(h, "<<") <=> Contains(x, "<<") \/ Contains(g, "<<"))
    BY <1>3, <1>6, LineInText
  <2>2. g \o F \in Text
    <3> HIDE DEF F
    <3> QED
      BY <1>3, TextOps DEF F
  <2>3. CutAt(R, x, g \o F)
    BY <1>1, <2>1 DEF CutAt, Same
  <2>4. ~Contains(x, "<<") /\ Outside(m, g \o F)
    <3>1. ~Contains(x, "<<") /\ ~Contains(g, "<<")
      BY <1>1, <2>1
    <3>2. Same(g \o F, g \o From(m, j))
      BY DEF Same
    <3> QED
      BY <1>6, <3>1, <3>2 DEF Outside
  <2> QED
    BY <1>6, <2>2, <2>3, <2>4 DEF OutsideCut
<1> QED
  BY <1>4, <1>5, <1>6

\* Inside a block.
LEMMA InsideLine ==
  ASSUME NEW m \in Sendable, NEW R \in Text, Inside(m, R)
  PROVE  \E x, y \in Text : CutAt(R, x, y) /\ InsideCut(m, x, y)
<1> DEFINE c == <<"nl", ">>">>
           l == <<">>">>
<1>1. PICK b \in Text, j \in 1 .. Len(KeyOrder) + 1 : BlockText(m, b) /\ Same(R, b \o (c \o From(m, j)))
  BY DEF Inside
<1> DEFINE F == From(m, j)
           G == c \o F
<1>2. F \in Text /\ c \in Text /\ l \in Text /\ "nl" \in Units /\ ">>" \in Units /\ G \in Text /\ l \o F \in Text
  <2>1. F \in Text /\ "nl" \in Units /\ ">>" \in Units
    BY FromIs, UnitsHave DEF Marks
  <2>2. c \in Text /\ l \in Text
    BY <2>1 DEF Text
  <2> HIDE DEF F, c, l
  <2>3. c \o F \in Text /\ l \o F \in Text
    BY <2>1, <2>2, TextOps
  <2> QED
    BY <2>1, <2>2, <2>3
<1>3. ~Contains(c, "<<") /\ ~Contains(l, "<<")
  BY DEF Contains
<1>4. CASE Contains(b, "nl")
  <2>1. PICK x \in Text, g \in Text :
          /\ CutAt(b \o G, x, g \o G)
          /\ \A u : u # "nl" => (Contains(b, u) <=> Contains(x, u) \/ Contains(g, u))
    <3> HIDE DEF G
    <3> QED
      BY <1>2, <1>4, LineInText
  <2> DEFINE y == g \o G
  <2>2. y \in Text
    <3> HIDE DEF G
    <3> QED
      BY <1>2, TextOps
  <2>3. CutAt(R, x, y)
    BY <1>1, <2>1 DEF CutAt, Same
  <2>4. BlockText(m, g)
    BY <1>1, <2>1 DEF BlockText
  <2>5. Inside(m, y)
    <3>1. Same(y, g \o (<<"nl", ">>">> \o From(m, j)))
      BY DEF Same
    <3> HIDE DEF y
    <3> QED
      BY <2>4, <3>1 DEF Inside
  <2>6. ASSUME Contains(x, ">>") PROVE ~Contains(x, "<<") /\ Outside(m, y) /\ ~BlocksHold(m)
    <3>1. ~BlocksHold(m) /\ ~Contains(x, "<<") /\ ~Contains(g, "<<")
      BY <1>1, <2>1, <2>6 DEF BlockText
    <3> DEFINE h == g \o c
    <3>2. h \in Text /\ ~Contains(h, "<<")
      <4> HIDE DEF c
      <4> QED
        BY <1>2, <1>3, <3>1, TextOps, TextContains
    <3>3. Same(y, h \o From(m, j))
      <4> HIDE DEF F, c
      <4>1. Same((g \o c) \o F, g \o (c \o F))
        BY <1>2, TextAssociative
      <4> QED
        BY <4>1 DEF Same, F
    <3> HIDE DEF h, y
    <3> QED
      BY <3>1, <3>2, <3>3 DEF Outside
  <2> HIDE DEF y
  <2> QED
    BY <2>2, <2>3, <2>5, <2>6 DEF InsideCut
<1>5. CASE ~Contains(b, "nl")
  <2> DEFINE y == l \o F
  <2>1. CutAt(R, b, y)
    <3> DEFINE e == <<"nl">>
    <3>1. e \in Text /\ c = Append(e, ">>")
      BY <1>2 DEF Text
    <3> HIDE DEF e, c
    <3>2. Same(c, e \o l)
      BY <1>2, <3>1, TextOps
    <3> HIDE DEF l, F
    <3>3. Same((b \o e) \o (l \o F), ((b \o e) \o l) \o F) /\ Same(b \o ((e \o l) \o F), ((b \o e) \o l) \o F)
      BY <1>2, <3>1, FourInARow DEF Text
    <3>4. Same(Append(b, "nl"), b \o e)
      BY <1>2, TextOps DEF e
    <3>5. Same(R, Append(b, "nl") \o (l \o F))
      BY <1>1, <3>2, <3>3, <3>4 DEF Same, F, c
    <3> QED
      BY <1>5, <3>5 DEF CutAt, F, l
  <2>2. Closing(m, y)
    <3>1. Same(y, <<">>">> \o From(m, j))
      BY DEF Same
    <3> HIDE DEF y
    <3> QED
      BY <3>1 DEF Closing
  <2>3. ASSUME Contains(b, ">>") PROVE ~Contains(b, "<<") /\ Outside(m, y) /\ ~BlocksHold(m)
    <3>1. ~BlocksHold(m) /\ ~Contains(b, "<<")
      BY <1>1, <2>3 DEF BlockText
    <3>2. Same(y, l \o From(m, j))
      BY DEF Same
    <3> HIDE DEF y, l
    <3> QED
      BY <1>2, <1>3, <3>1, <3>2 DEF Outside
  <2> HIDE DEF y
  <2> QED
    BY <1>2, <2>1, <2>2, <2>3 DEF InsideCut, y
<1> QED
  BY <1>4, <1>5

\* At the end of a block.
LEMMA ClosingLine ==
  ASSUME NEW m \in Sendable, NoStrayBlock(m), NEW R \in Text, Closing(m, R)
  PROVE  \E x, y \in Text : CutAt(R, x, y) /\ ClosingCut(m, x, y)
<1> DEFINE l == <<">>">>
<1>1. PICK j \in 1 .. Len(KeyOrder) + 1 : Same(R, l \o From(m, j))
  BY DEF Closing
<1>2. l \in Text /\ ~Contains(l, "nl") /\ ~Contains(l, "<<") /\ "<<" \in Units
  BY UnitsHave, TextOps, TextContains DEF Marks
<1>3. PICK x \in Text, y \in Text : FirstLine(m, l, j, x, y)
  <2> HIDE DEF l
  <2> QED
    BY <1>2, FirstLineIs
<1>4. CutAt(R, x, y)
  BY <1>1, <1>3 DEF FirstLine, CutAt, Same
<1>5. EndsOpen(x) => Contains(x, "<<")
  BY <1>2, TextContains DEF EndsOpen, Same
<1> QED
  BY <1>3, <1>4, <1>5 DEF FirstLine, ClosingCut

----------------------------------------------------------------------------
(* A turn on what there is to read *)

\* The bytes of R, as the hub may send them.
Enc(R, e) == IF e THEN CrLf(R) ELSE R

Returned(x, e) == IF e THEN Append(x, "cr") ELSE x

\* It is text, with the same lines.
LEMMA EncIs ==
  ASSUME NEW R \in Text, NEW e \in BOOLEAN
  PROVE  Enc(R, e) \in Text /\ (Contains(Enc(R, e), "nl") <=> Contains(R, "nl"))
<1>1. CASE ~e
  BY <1>1 DEF Enc
<1>2. CASE e
  <2>1. Enc(R, e) = CrLf(R) /\ CrLf(R) \in Text
    BY <1>2, CrLfType DEF Enc
  <2>2. CASE ~Contains(R, "nl")
    BY <2>1, <2>2, CrLfPlain
  <2>3. CASE Contains(R, "nl")
    <3>1. PICK a \in Text, b \in Text : Same(R, Append(a, "nl") \o b)
      BY <2>3, TextSplits
    <3> DEFINE l == <<"nl">>
               c == a \o l
    <3>2. l \in Text /\ Same(Append(a, "nl"), c)
      BY AfterType, TextOps
    <3>3. CrLf(l) = <<"cr", "nl">> /\ Contains(<<"cr", "nl">>, "nl") /\ <<"cr", "nl">> \in Text
      <4>1. "cr" \in Units /\ "nl" \in Units
        BY UnitsHave DEF Marks
      <4>2. Contains(<<"cr", "nl">>, "nl")
        BY DEF Contains
      <4> QED
        BY <4>1, <4>2, CrLfOne DEF Text
    <3>4. CrLf(a) \in Text /\ CrLf(b) \in Text
      BY CrLfType
    <3> HIDE DEF l
    <3>5. c \in Text /\ Same(CrLf(c), CrLf(a) \o CrLf(l))
      BY <3>2, CrLfConcat, TextOps
    <3>6. CrLf(c) \in Text
      BY <3>5, CrLfType
    <3> HIDE DEF c
    <3>7. Same(CrLf(c \o b), CrLf(c) \o CrLf(b))
      BY <3>5, CrLfConcat
    <3>8. Contains(CrLf(c), "nl")
      BY <3>3, <3>4, <3>5, TextContains DEF Same
    <3>9. Contains(CrLf(c \o b), "nl")
      BY <3>4, <3>6, <3>7, <3>8, TextContains DEF Same
    <3>10. R = c \o b
      BY <3>1, <3>2 DEF Same
    <3> QED
      BY <2>1, <2>3, <3>9, <3>10
  <2> QED
    BY <2>2, <2>3
<1> QED
  BY <1>1, <1>2

\* Its first line, and the rest.
LEMMA EncLine ==
  ASSUME NEW x \in Text, NEW y \in Text, NEW e \in BOOLEAN, ~Contains(x, "nl")
  PROVE  /\ Same(Enc(Append(x, "nl") \o y, e), Append(Returned(x, e), "nl") \o Enc(y, e))
         /\ Returned(x, e) \in Text /\ ~Contains(Returned(x, e), "nl")
<1>0. "nl" \in Units /\ "cr" \in Units
  BY UnitsHave DEF Marks
<1>1. Returned(x, e) \in Text /\ ~Contains(Returned(x, e), "nl")
  BY <1>0, TextOps, TextContains DEF Returned
<1>2. CASE ~e
  BY <1>2 DEF Enc, Returned, Same
<1>3. CASE e
  <2> DEFINE l == <<"nl">>
             t == Append(x, "nl")
  <2>1. l \in Text /\ Same(t, x \o l) /\ t \in Text
    BY AfterType, TextOps
  <2>2. CrLf(x) = x /\ CrLf(l) = <<"cr", "nl">>
    BY CrLfOne, CrLfPlain
  <2>3. Same(x \o <<"cr", "nl">>, Append(Append(x, "cr"), "nl"))
    BY <1>0, AppendTwo
  <2> HIDE DEF l, t
  <2>4. Same(CrLf(x \o l), CrLf(x) \o CrLf(l)) /\ Same(CrLf(t \o y), CrLf(t) \o CrLf(y))
    BY <2>1, CrLfConcat
  <2>5. CrLf(t) = Append(Append(x, "cr"), "nl")
    BY <2>1, <2>2, <2>3, <2>4 DEF Same
  <2>6. CrLf(t \o y) = Append(Append(x, "cr"), "nl") \o CrLf(y)
    BY <2>4, <2>5 DEF Same
  <2> QED
    BY <1>1, <1>3, <2>6 DEF Enc, Returned, Same, t
<1> QED
  BY <1>1, <1>2, <1>3

\* A turn takes the first line of what there is to read.
LEMMA TurnOn ==
  ASSUME TypeInv, Turn, NEW R \in Text, NEW e \in BOOLEAN, Same(buf, Enc(R, e)),
         NEW x \in Text, NEW y \in Text, CutAt(R, x, y)
  PROVE  Line(Returned(x, e), Enc(y, e)) /\ Append(Returned(x, e), "nl") \in Text
<1>1. PICK a \in Text, b \in Text :
        ~Contains(a, "nl") /\ Chomp(a) \in Text /\ Append(a, "nl") \in Text /\ Line(a, b)
  BY TurnIs DEF TypeInv, Outputs
<1> DEFINE z == Returned(x, e)
           f == Enc(y, e)
<1>2. z \in Text /\ ~Contains(z, "nl") /\ Same(Enc(Append(x, "nl") \o y, e), Append(z, "nl") \o f)
  BY EncLine DEF CutAt
<1>3. f \in Text
  BY EncIs
<1> HIDE DEF z, f
<1>4. Same(buf, Append(a, "nl") \o b)
  BY <1>1 DEF Line
<1>5. Same(Append(a, "nl") \o b, Append(z, "nl") \o f)
  BY <1>2, <1>4 DEF Same, CutAt
<1>6. "nl" \in Units /\ a \in Seq(Units) /\ b \in Seq(Units) /\ z \in Seq(Units) /\ f \in Seq(Units)
  BY <1>2, <1>3, UnitsHave DEF Marks, Text
<1>7. Same(a, z) /\ Same(b, f)
  BY <1>1, <1>2, <1>5, <1>6, OneSplit
<1>8. a = z /\ b = f
  BY <1>7 DEF Same
<1> QED
  BY <1>1, <1>8 DEF z, f

\* What the loop sees of such a line.
LEMMA SeenIs ==
  ASSUME NEW x \in Text, NEW e \in BOOLEAN
  PROVE  LET z == Returned(x, e)
         IN  /\ Chomp(z) \in Text /\ Chomp(z) \in {x, Chomp(x)}
             /\ \A u : u # "cr" => (Contains(Chomp(z), u) <=> Contains(x, u))
             /\ Opens(z) <=> Contains(x, "<<")
             /\ Closes(z) => Contains(x, ">>")
             /\ EndsOpen(x) => Opens(z) /\ ~SelfClosed(z)
             /\ (\E w \in Text : Same(x, <<">>">> \o w) /\ Spaced(w)) => Closes(z)
<1> DEFINE z == Returned(x, e)
           c == Chomp(z)
<1>1. "nl" \in Units /\ "cr" \in Units /\ "<<" \in Units /\ ">>" \in Units
  BY UnitsHave DEF Marks
<1>2. c \in {x, Chomp(x)}
  BY ChompIs DEF Returned
<1>3. c \in Text /\ \A u : u # "cr" => (Contains(c, u) <=> Contains(x, u))
  BY <1>2, ChompIs
<1>4. Opens(z) <=> Contains(x, "<<")
  BY <1>3 DEF Opens
<1>5. Closes(z) => Contains(x, ">>")
  <2> SUFFICES ASSUME Closes(z) PROVE Contains(c, ">>")
    BY <1>3
  <2>1. CASE c = <<">>">>
    BY <2>1 DEF Contains
  <2>2. CASE IsPrefix(<<">>", "sp">>, c)
    <3>1. Len(<<">>", "sp">>) = 2 /\ 1 \in 1 .. 2 /\ <<">>", "sp">>[1] = ">>"
      OBVIOUS
    <3>2. PICK n \in Nat : n = Len(c)
      BY <1>3, LenProperties DEF Text
    <3> HIDE DEF c
    <3>3. 1 \in 1 .. Len(c) /\ c[1] = ">>"
      BY <2>2, <3>1, <3>2 DEF IsPrefix
    <3> QED
      BY <3>3 DEF Contains
  <2> QED
    BY <2>1, <2>2 DEF Closes
<1>6. EndsOpen(x) => Opens(z) /\ ~SelfClosed(z)
  <2> SUFFICES ASSUME EndsOpen(x) PROVE Opens(z) /\ ~SelfClosed(z)
    OBVIOUS
  <2>1. PICK u \in Text : ~Contains(u, "<<") /\ x = Append(u, "<<")
    BY DEF EndsOpen, Same
  <2>2. Contains(x, "<<") /\ x # <<>> /\ Last(x) = "<<"
    BY <1>1, <2>1, TextContains, FrontOfAppend DEF Text
  <2>3. c = x
    <3>1. Chomp(x) = x
      BY <2>2 DEF Chomp
    <3> HIDE DEF c
    <3> QED
      BY <1>2, <3>1
  <2>4. PICK n \in Nat : n = Len(u)
    BY LenProperties DEF Text
  <2>5. Len(x) = n + 1 /\ (\A i \in 1 .. n : x[i] = u[i]) /\ x[n + 1] = "<<"
    BY <1>1, <2>1, <2>4, AppendProperties DEF Text
  <2>6. Position(x, "<<") = n + 1
    <3>1. n + 1 \in 1 .. Len(x)
      BY <2>5
    <3>2. Position(x, "<<") \in 1 .. n + 1 /\ x[Position(x, "<<")] = "<<"
      <4>1. x \in Seq(Units)
        BY DEF Text
      <4> QED
        BY <2>5, <3>1, <4>1, PositionOf
    <3>3. \A i \in 1 .. n : x[i] # "<<"
      BY <2>1, <2>4, <2>5 DEF Contains
    <3> QED
      BY <3>2, <3>3
  <2>7. SubSeq(x, Position(x, "<<") + 1, Len(x)) = <<>>
    <3>1. n + 1 + 1 \in Int /\ n + 1 \in Int /\ n + 1 < n + 1 + 1
      OBVIOUS
    <3> QED
      BY <2>5, <2>6, <3>1, SubSeqEmpty
  <2> HIDE DEF c
  <2>8. ~Contains(SubSeq(c, Position(c, "<<") + 1, Len(c)), ">>")
    BY <2>3, <2>7, TextContains
  <2> QED
    BY <1>4, <2>2, <2>8 DEF SelfClosed, c
<1>7. ASSUME NEW w \in Text, Same(x, <<">>">> \o w), Spaced(w) PROVE Closes(z)
  <2> DEFINE l == <<">>">>
  <2>1. l \in Text /\ l # <<>> /\ Last(l) # "cr" /\ Len(l) = 1 /\ l[1] = ">>"
    BY <1>1, TextOps DEF Last
  <2>2. PICK v \in Text : Same(c, l \o v) /\ Spaced(v)
    <3>1. \E v \in Text : Same(Chomp(x), l \o v) /\ Spaced(v)
      <4> HIDE DEF l
      <4> QED
        BY <1>7, <2>1, SpacedChomp DEF l
    <3> HIDE DEF c
    <3> QED
      BY <1>2, <1>7, <3>1
  <2>3. CASE v = <<>>
    <3>1. Same(l \o <<>>, l)
      BY <2>1, TextOps
    <3>2. c = l
      BY <2>2, <2>3, <3>1 DEF Same
    <3> QED
      BY <3>2 DEF Closes
  <2>4. CASE v # <<>>
    <3>1. PICK k \in Nat \ {0} : k = Len(v)
      <4>1. Len(v) \in Nat /\ Len(v) # 0
        BY <2>4, EmptySeq, LenProperties DEF Text
      <4> QED
        BY <4>1
    <3>2. v[1] = "sp"
      BY <2>2, <2>4 DEF Spaced
    <3> DEFINE d == l \o v
    <3>3. /\ Len(d) = Len(l) + Len(v)
          /\ \A i \in 1 .. Len(l) + Len(v) : d[i] = IF i <= Len(l) THEN l[i] ELSE v[i - Len(l)]
      <4> HIDE DEF l
      <4> QED
        BY <2>1, ConcatProperties DEF Text
    <3> HIDE DEF d, l
    <3>4. Len(d) = 1 + k /\ d[1] = ">>" /\ d[2] = "sp"
      <4>1. 1 \in 1 .. 1 + k /\ 2 \in 1 .. 1 + k /\ 2 - 1 = 1
        BY <3>1
      <4> QED
        BY <2>1, <3>1, <3>2, <3>3, <4>1
    <3>5. c = d
      BY <2>2 DEF Same, d
    <3> HIDE DEF c
    <3>6. IsPrefix(<<">>", "sp">>, c)
      <4>1. Len(<<">>", "sp">>) = 2 /\ <<">>", "sp">>[1] = ">>" /\ <<">>", "sp">>[2] = "sp"
        OBVIOUS
      <4>2. \A i \in 1 .. 2 : i = 1 \/ i = 2
        OBVIOUS
      <4>3. 2 <= Len(c) /\ Len(c) = 1 + k /\ c[1] = ">>" /\ c[2] = "sp"
        BY <3>1, <3>4, <3>5
      <4>4. DOMAIN <<">>", "sp">> = 1 .. 2
        OBVIOUS
      <4> QED
        BY <4>1, <4>2, <4>3, <4>4 DEF IsPrefix
    <3> QED
      BY <3>6 DEF Closes, c
  <2> QED
    BY <2>3, <2>4
<1> QED
  BY <1>2, <1>3, <1>4, <1>5, <1>6, <1>7

----------------------------------------------------------------------------
(* The message that follows *)

FollowerText == Front(serialize(Follower))

\* It was the last one to be delivered, and it is what was sent.
Delivered ==
  /\ output # <<>> /\ Delivers(Last(output), Follower)
  /\ FromRaw(Follower.type, Last(output).raw) = Follower

\* Where the loop is, with R to read.
Stage(R) ==
  IF multiline THEN Inside(sent, R) \/ Closing(sent, R)
  ELSE \/ Outside(sent, R)
       \/ Same(R, After)
       \/ Same(R, Wire(Follower))
       \/ R \in {<<"nl">>, <<>>} /\ Delivered

\* All that is delivered of a response begins as it does, if its blocks hold.
Heads ==
  Response(sent) /\ BlocksHold(sent) =>
    /\ multiline => BeginsLong(sent, line)
    /\ \A i \in 1 .. Len(output) : Begins(sent, output[i].text) \/ output[i].text = FollowerText

Reading(R, e) == Same(buf, Enc(R, e)) /\ Stage(R)

NextInv ==
  /\ RawInv
  /\ NoStrayBlock(sent) =>
       /\ Heads
       /\ \/ unread \in {Bytes, CrLf(Bytes)} /\ buf = <<>> /\ multiline = FALSE /\ output = <<>>
          \/ unread = <<>> /\ \E R \in Text, e \in BOOLEAN : Reading(R, e)

\* A line that goes on.
LEMMA HeadsOn ==
  ASSUME Heads, sent' = sent, NEW z, NEW text, GoesOn(z, text),
         Response(sent) /\ BlocksHold(sent) => BeginsLong(sent, text)
  PROVE  Heads'
<1>1. multiline' = TRUE /\ line' = text /\ output' = output
  BY DEF GoesOn
<1> QED
  BY <1>1 DEF Heads

\* A message that is complete.
LEMMA HeadsDone ==
  ASSUME TypeInv, Heads, sent' = sent, NEW z, NEW text, Completes(z, text),
         Response(sent) /\ BlocksHold(sent) => Begins(sent, text) \/ text = FollowerText
  PROVE  Heads'
<1> DEFINE e == IF Malformed(parse(text)) THEN [kind |-> "error", raw |-> <<>>, text |-> text]
                ELSE [kind |-> "message", raw |-> rawLine \o Append(z, "nl"), text |-> text]
<1>1. e.text = text
  OBVIOUS
<1>2. multiline' = FALSE /\ (output' = output \/ output' = Append(output, e))
  BY DEF Completes
<1> HIDE DEF e
<1>3. CASE output' = output
  BY <1>2, <1>3 DEF Heads
<1>4. CASE output' = Append(output, e)
  <2>1. Len(output) \in Nat /\ Len(output') = Len(output) + 1
        /\ (\A i \in 1 .. Len(output) : output'[i] = output[i]) /\ output'[Len(output) + 1] = e
    BY <1>4, LenProperties DEF TypeInv
  <2>2. \A i \in 1 .. Len(output') : i \in 1 .. Len(output) \/ i = Len(output) + 1
    BY <2>1
  <2> SUFFICES ASSUME Response(sent), BlocksHold(sent), NEW i \in 1 .. Len(output')
               PROVE  Begins(sent, output'[i].text) \/ output'[i].text = FollowerText
    BY <1>2 DEF Heads
  <2>3. CASE i \in 1 .. Len(output)
    BY <2>1, <2>3 DEF Heads
  <2>4. CASE i = Len(output) + 1
    BY <1>1, <2>1, <2>4
  <2> QED
    BY <2>2, <2>3, <2>4
<1> QED
  BY <1>2, <1>3, <1>4

\* Outside a block: the line is a message, or a block begins.
LEMMA OutsideTurn ==
  ASSUME TypeInv, Turn, NoStrayBlock(sent), Heads, multiline = FALSE,
         NEW R \in Text, NEW e \in BOOLEAN, Same(buf, Enc(R, e)), Outside(sent, R)
  PROVE  Heads' /\ \E y \in Text : Reading(y, e)'
<1>1. sent \in Sendable /\ sent' = sent
  BY DEF TypeInv, Turn
<1>2. PICK x \in Text, y \in Text : CutAt(R, x, y) /\ OutsideCut(sent, x, y)
  BY <1>1, OutsideLine
<1> DEFINE z == Returned(x, e)
           f == Enc(y, e)
           c == Chomp(z)
<1>3. Line(z, f) /\ Append(z, "nl") \in Text
  BY <1>2, TurnOn
<1>4. /\ c \in Text /\ c \in {x, Chomp(x)}
      /\ Opens(z) <=> Contains(x, "<<")
      /\ EndsOpen(x) => Opens(z) /\ ~SelfClosed(z)
      /\ \A u : u # "cr" => (Contains(c, u) <=> Contains(x, u))
  BY SeenIs
<1> HIDE DEF z, f, c
<1>5. Same(buf', f)
  BY <1>3 DEF Line
<1>6. BlocksHold(sent) /\ Response(sent) => Begins(sent, c)
  BY <1>1, <1>2, <1>4, BeginsMore DEF OutsideCut
<1>7. CASE EndsOpen(x) /\ Inside(sent, y)
  <2>1. GoesOn(z, Append(c, "nl"))
    BY <1>3, <1>4, <1>7 DEF Line, c
  <2>2. Response(sent) /\ BlocksHold(sent) => BeginsLong(sent, Append(c, "nl"))
    <3> SUFFICES ASSUME Response(sent), BlocksHold(sent) PROVE BeginsLong(sent, Append(c, "nl"))
      OBVIOUS
    <3>1. Contains(x, "<<")
      BY <1>4, <1>7
    <3>2. BeginsLong(sent, c)
      BY <1>1, <1>4, <1>6, <3>1, BeginsMore
    <3>3. Append(c, "nl") = c \o <<"nl">> /\ <<"nl">> \in Text
      BY <1>4, AfterType, TextOps DEF Same
    <3> QED
      BY <1>1, <1>4, <3>2, <3>3, BeginsMore
  <2>3. Heads'
    BY <1>1, <2>1, <2>2, HeadsOn
  <2>4. multiline' = TRUE
    BY <2>1 DEF GoesOn
  <2>5. Reading(y, e)'
    BY <1>1, <1>5, <1>7, <2>4 DEF Reading, Stage, f
  <2> QED
    BY <2>3, <2>5
<1>8. CASE ~Contains(x, "<<") /\ (Outside(sent, y) \/ Same(y, After))
  <2>1. Completes(z, c)
    BY <1>3, <1>4, <1>8 DEF Line, c
  <2>2. Heads'
    BY <1>1, <1>6, <2>1, HeadsDone
  <2>3. multiline' = FALSE
    BY <2>1 DEF Completes
  <2>4. Reading(y, e)'
    BY <1>1, <1>5, <1>8, <2>3 DEF Reading, Stage, f
  <2> QED
    BY <2>2, <2>4
<1> QED
  BY <1>2, <1>7, <1>8 DEF OutsideCut

\* Inside a block: it goes on, or a line of its own text ends it.
LEMMA InsideTurn ==
  ASSUME TypeInv, Turn, NoStrayBlock(sent), Heads, multiline = TRUE,
         NEW R \in Text, NEW e \in BOOLEAN, Same(buf, Enc(R, e)), Inside(sent, R)
  PROVE  Heads' /\ \E y \in Text : Reading(y, e)'
<1>1. sent \in Sendable /\ sent' = sent /\ line \in Text
  BY DEF TypeInv, Turn
<1>2. PICK x \in Text, y \in Text : CutAt(R, x, y) /\ InsideCut(sent, x, y)
  BY <1>1, InsideLine
<1> DEFINE z == Returned(x, e)
           f == Enc(y, e)
           c == Chomp(z)
<1>3. Line(z, f) /\ Append(z, "nl") \in Text
  BY <1>2, TurnOn
<1>4. /\ c \in Text
      /\ Opens(z) <=> Contains(x, "<<")
      /\ Closes(z) => Contains(x, ">>")
  BY SeenIs
<1> HIDE DEF z, f, c
<1>5. Same(buf', f)
  BY <1>3 DEF Line
<1>6. CASE ~Closes(z)
  <2> DEFINE d == Append(c, "nl")
  <2>1. GoesOn(z, line \o d)
    BY <1>3, <1>6 DEF Line, c
  <2>2. d \in Text
    BY <1>4, AfterType, TextOps
  <2> HIDE DEF d
  <2>3. Response(sent) /\ BlocksHold(sent) => BeginsLong(sent, line \o d)
    BY <1>1, <2>2, BeginsMore DEF Heads
  <2>4. Heads'
    BY <1>1, <2>1, <2>3, HeadsOn
  <2>5. multiline' = TRUE
    BY <2>1 DEF GoesOn
  <2>6. Inside(sent, y) \/ Closing(sent, y)
    BY <1>2 DEF InsideCut
  <2>7. Reading(y, e)'
    BY <1>1, <1>5, <2>5, <2>6 DEF Reading, Stage, f
  <2> QED
    BY <2>4, <2>7
<1>7. CASE Closes(z)
  <2>1. ~Contains(x, "<<") /\ Outside(sent, y) /\ ~BlocksHold(sent)
    BY <1>2, <1>4, <1>7 DEF InsideCut
  <2>2. Completes(z, line \o c)
    BY <1>3, <1>4, <1>7, <2>1 DEF Line, c
  <2>3. Heads'
    BY <1>1, <2>1, <2>2, HeadsDone
  <2>4. multiline' = FALSE
    BY <2>2 DEF Completes
  <2>5. Reading(y, e)'
    BY <1>1, <1>5, <2>1, <2>4 DEF Reading, Stage, f
  <2> QED
    BY <2>3, <2>5
<1> QED
  BY <1>6, <1>7

\* On the line that ends a block: the message is complete, or another begins.
LEMMA ClosingTurn ==
  ASSUME TypeInv, Turn, NoStrayBlock(sent), Heads, multiline = TRUE,
         NEW R \in Text, NEW e \in BOOLEAN, Same(buf, Enc(R, e)), Closing(sent, R)
  PROVE  Heads' /\ \E y \in Text : Reading(y, e)'
<1>1. sent \in Sendable /\ sent' = sent /\ line \in Text
  BY DEF TypeInv, Turn
<1>2. PICK x \in Text, y \in Text : CutAt(R, x, y) /\ ClosingCut(sent, x, y)
  BY <1>1, ClosingLine
<1> DEFINE z == Returned(x, e)
           f == Enc(y, e)
           c == Chomp(z)
<1>3. Line(z, f) /\ Append(z, "nl") \in Text
  BY <1>2, TurnOn
<1>4. /\ c \in Text
      /\ Opens(z) <=> Contains(x, "<<")
      /\ Closes(z)
  <2>1. \E w \in Text : Same(x, <<">>">> \o w) /\ Spaced(w)
    BY <1>2 DEF ClosingCut
  <2> QED
    BY <2>1, SeenIs
<1> HIDE DEF z, f, c
<1>5. Same(buf', f)
  BY <1>3 DEF Line
<1>6. Response(sent) /\ BlocksHold(sent) => BeginsLong(sent, line \o c) /\ Begins(sent, line \o c)
  <2> SUFFICES ASSUME Response(sent), BlocksHold(sent)
               PROVE  BeginsLong(sent, line \o c) /\ Begins(sent, line \o c)
    OBVIOUS
  <2> DEFINE d == line \o c
  <2>1. d \in Text /\ BeginsLong(sent, d)
    BY <1>1, <1>4, TextOps, BeginsMore DEF Heads
  <2> HIDE DEF d
  <2>2. Begins(sent, d)
    BY <1>1, <2>1, BeginsMore
  <2> QED
    BY <2>1, <2>2 DEF d
<1>7. CASE Contains(x, "<<") /\ Inside(sent, y)
  <2>1. GoesOn(z, line \o c)
    BY <1>3, <1>4, <1>7 DEF Line, c
  <2>2. Heads'
    BY <1>1, <1>6, <2>1, HeadsOn
  <2>3. multiline' = TRUE
    BY <2>1 DEF GoesOn
  <2>4. Reading(y, e)'
    BY <1>1, <1>5, <1>7, <2>3 DEF Reading, Stage, f
  <2> QED
    BY <2>2, <2>4
<1>8. CASE ~Contains(x, "<<") /\ Same(y, After)
  <2>1. Completes(z, line \o c)
    BY <1>3, <1>4, <1>8 DEF Line, c
  <2>2. Heads'
    BY <1>1, <1>6, <2>1, HeadsDone
  <2>3. multiline' = FALSE
    BY <2>1 DEF Completes
  <2>4. Reading(y, e)'
    BY <1>1, <1>5, <1>8, <2>3 DEF Reading, Stage, f
  <2> QED
    BY <2>2, <2>4
<1> QED
  BY <1>2, <1>7, <1>8 DEF ClosingCut

\* No text is no message.
LEMMA NothingIsMalformed == Malformed(parse(<<>>))
<1> DEFINE text == <<>>
           Is(g) == g = [i \in 0 .. Len(text) |-> IF i = 0 THEN Start ELSE Token(g[i - 1], text[i])]
           state == CHOOSE g : Is(g)
<1>1. Len(text) = 0
  BY EmptySeq
<1>2. \E g : Is(g)
  <2> DEFINE g == [i \in 0 .. 0 |-> Start]
             h == [i \in 0 .. Len(text) |-> IF i = 0 THEN Start ELSE Token(g[i - 1], text[i])]
  <2>1. DOMAIN h = 0 .. 0 /\ h[0] = Start /\ h = [i \in 0 .. 0 |-> h[i]]
    BY <1>1
  <2>2. \A i \in 0 .. 0 : i = 0
    OBVIOUS
  <2>3. h = g
    <3> HIDE DEF h
    <3>1. \A i \in 0 .. 0 : h[i] = Start
      BY <2>1, <2>2
    <3> QED
      BY <2>1, <3>1
  <2>4. Is(g)
    <3> HIDE DEF g
    <3> QED
      BY <2>3
  <2> QED
    BY <2>4
<1>3. Is(state)
  BY <1>2
<1>4. tokenize(text) = EndToken(CloseAll(state[Len(text)])).tokens
  BY DEF tokenize
<1> HIDE DEF state
<1>5. state[0] = Start
  BY <1>1, <1>3
<1>6. tokenize(text) = <<>>
  BY <1>1, <1>4, <1>5 DEF EndToken, CloseAll, Start
<1>7. parse(text).type = "unknown"
  BY <1>6 DEF parse, build
<1> QED
  BY <1>7 DEF Malformed

\* The message that follows, line by line.
LEMMA FollowerTextIs ==
  /\ FollowerText \in Text /\ FollowerText # <<>>
  /\ ~Contains(FollowerText, "nl") /\ ~Contains(FollowerText, "cr") /\ ~Contains(FollowerText, "<<")
  /\ CutAt(Wire(Follower), FollowerText, <<"nl">>) /\ CutAt(After, <<>>, Wire(Follower))
  /\ CutAt(<<"nl">>, <<>>, <<>>)
  /\ ~Malformed(parse(FollowerText)) /\ Received(parse(FollowerText)) = Follower
<1> DEFINE f == FollowerText
           l == <<"nl">>
           w == Wire(Follower)
<1>1. /\ f \in Seq(Units \ {"nl", "cr", "<<"}) /\ f \in Text
      /\ w = Append(Append(f, "nl"), "nl") /\ w \in Text
  BY FollowerIs DEF FollowerText
<1>2. ~Malformed(parse(f)) /\ Received(parse(f)) = Follower
  BY FollowerAssumption DEF FollowerText
<1>3. f # <<>>
  BY <1>2, NothingIsMalformed
<1>4. ~Contains(f, "nl") /\ ~Contains(f, "cr") /\ ~Contains(f, "<<")
  BY <1>1, ContainsIn
<1>5. "nl" \in Units /\ l \in Text /\ <<>> \in Text
  BY AfterType, TextOps
<1> HIDE DEF w
<1>6. CutAt(w, f, l)
  <2> HIDE DEF f
  <2> DEFINE t == Append(f, "nl")
  <2>1. t \in Text
    BY <1>1, <1>5, TextOps
  <2> HIDE DEF t
  <2>2. Same(Append(t, "nl"), t \o l)
    BY <1>5, <2>1, TextOps
  <2> QED
    BY <1>1, <1>4, <2>2 DEF CutAt, Same, t
<1>7. Append(<<>>, "nl") = l /\ ~Contains(<<>>, "nl")
  BY TextContains
<1>8. CutAt(After, <<>>, w)
  <2>1. After = l \o w
    BY DEF After, w
  <2> HIDE DEF l
  <2> QED
    BY <1>7, <2>1 DEF CutAt, Same
<1>9. CutAt(l, <<>>, <<>>)
  <2> HIDE DEF l
  <2>1. Same(l \o <<>>, l)
    BY <1>5, TextOps
  <2> QED
    BY <1>7, <2>1 DEF CutAt, Same
<1> QED
  BY <1>1, <1>2, <1>3, <1>4, <1>6, <1>8, <1>9 DEF w

\* A blank line, and what is behind it.
LEMMA BlankTurn ==
  ASSUME TypeInv, Turn, Heads, multiline = FALSE,
         NEW R \in Text, NEW e \in BOOLEAN, Same(buf, Enc(R, e)),
         NEW y \in Text, CutAt(R, <<>>, y)
  PROVE  Heads' /\ multiline' = FALSE /\ output' = output /\ Same(buf', Enc(y, e))
<1> DEFINE x == <<>>
           z == Returned(x, e)
           f == Enc(y, e)
           c == Chomp(z)
<1>1. x \in Text /\ sent' = sent
  BY TextOps DEF Turn
<1>2. Line(z, f)
  <2> HIDE DEF x
  <2> QED
    BY <1>1, TurnOn DEF x
<1>3. c = <<>> /\ ~Opens(z)
  <2>1. c \in {x, Chomp(x)} /\ (Opens(z) <=> Contains(x, "<<"))
    <3> HIDE DEF x
    <3> QED
      BY <1>1, SeenIs
  <2> HIDE DEF c, z
  <2> QED
    BY <2>1, TextContains DEF Chomp
<1> HIDE DEF z, f, c
<1>4. Same(buf', f)
  BY <1>2 DEF Line
<1>5. GoesOn(z, <<>>) \/ Completes(z, <<>>)
  BY <1>2, <1>3 DEF Line, c
<1>6. multiline' = FALSE /\ output' = output
  BY <1>2, <1>3 DEF Line, Completes, c
<1> QED
  BY <1>1, <1>4, <1>6 DEF Heads, f

\* The message that follows is delivered.
LEMMA FollowerTurn ==
  ASSUME RawInv, RawInv', Turn, Heads, multiline = FALSE,
         NEW e \in BOOLEAN, Same(buf, Enc(Wire(Follower), e))
  PROVE  /\ Heads' /\ multiline' = FALSE /\ Same(buf', Enc(<<"nl">>, e)) /\ Delivered'
         /\ \E o \in Outputs : output' = Append(output, o)
<1> DEFINE R == Wire(Follower)
           x == FollowerText
           y == <<"nl">>
           z == Returned(x, e)
           f == Enc(y, e)
           c == Chomp(z)
           t == Append(z, "nl")
<1>1. /\ x \in Text /\ x # <<>> /\ ~Contains(x, "cr") /\ ~Contains(x, "<<")
      /\ CutAt(R, x, y) /\ ~Malformed(parse(x)) /\ Received(parse(x)) = Follower
  BY FollowerTextIs
<1>2. sent' = sent /\ TypeInv /\ R \in Text /\ y \in Text /\ rawLine = <<>>
      /\ output \in Seq(Outputs) /\ output' \in Seq(Outputs)
  BY FollowerIs, AfterType DEF Turn, RawInv, TypeInv
<1>3. Line(z, f) /\ t \in Text
  <2> HIDE DEF x, y, R
  <2> QED
    BY <1>1, <1>2, TurnOn DEF R
<1>4. c = x /\ ~Opens(z)
  <2>1. c \in {x, Chomp(x)} /\ (Opens(z) <=> Contains(x, "<<"))
    <3> HIDE DEF x
    <3> QED
      BY <1>1, SeenIs
  <2>2. Chomp(x) = x
    <3> HIDE DEF x
    <3> QED
      BY <1>1, ChompIs
  <2> HIDE DEF c, z
  <2> QED
    BY <1>1, <2>1, <2>2
<1> HIDE DEF c
<1>5. Completes(z, x)
  BY <1>3, <1>4 DEF Line, c
<1>6. ~Contains(z, "<<")
  BY <1>1, TextContains, UnitsHave DEF Returned, Marks
<1>7. ~Contains(t, "<<")
  <2> HIDE DEF x
  <2>1. z \in Text /\ "nl" \in Units
    BY <1>1, TextOps, UnitsHave DEF Returned, Marks
  <2> HIDE DEF z
  <2> QED
    BY <1>6, <2>1, TextContains
<1> HIDE DEF f, t, z
<1> DEFINE m == [kind |-> "message", raw |-> rawLine \o t, text |-> x]
<1>8. multiline' = FALSE /\ output' = Append(output, m) /\ Same(buf', f)
  BY <1>1, <1>3, <1>5 DEF Line, Completes, t
<1>9. rawLine \o t = t
  BY <1>2, <1>3, TextOps DEF Same
<1>10. m.kind = "message" /\ m.text = x /\ m.raw = t
  BY <1>9
<1>18. m \in Outputs
  <2> DEFINE r == rawLine \o t
  <2>1. r \in Text
    BY <1>3, <1>9
  <2> HIDE DEF r, x
  <2>2. [kind |-> "message", raw |-> r, text |-> x] \in Outputs
    BY <1>1, <2>1 DEF Outputs
  <2> QED
    BY <2>2 DEF r
<1> HIDE DEF m
<1>11. output' # <<>> /\ Last(output') = m /\ Faithful(m)
  <2>1. Len(output) \in Nat /\ Len(output') = Len(output) + 1 /\ output'[Len(output) + 1] = m
    BY <1>2, <1>8, LenProperties
  <2>2. Len(output') # 0 /\ Len(output) + 1 \in 1 .. Len(output')
    BY <2>1
  <2>3. Last(output') = m
    BY <2>1 DEF Last
  <2>4. Faithful(output'[Len(output) + 1])
    BY <2>2 DEF RawInv
  <2> QED
    BY <2>1, <2>2, <2>3, <2>4, EmptySeq
<1>12. Ordered(t)
  <2>1. DOMAIN t = 1 .. Len(t)
    BY <1>3, LenProperties DEF Text
  <2> QED
    BY <1>7, <2>1 DEF Ordered, Contains
<1>13. FromRaw(Follower.type, t) = Follower
  BY <1>1, <1>10, <1>11, <1>12, SameMessage DEF Faithful
<1>14. Expected(Follower) = Follower
  <2> DEFINE g == Received(parse(x))
  <2>1. Expected(Follower) = [Follower EXCEPT !.flags = @]
    BY FollowerAssumption DEF Expected
  <2>2. [Follower EXCEPT !.flags = @] = Follower
    <3>1. Follower = g
      BY <1>1
    <3>2. g.type \in {"request", "witness", "publish"}
      BY <3>1, FollowerAssumption
    <3>3. parse(x).type \in {"request", "response", "witness", "publish"}
      <4> HIDE DEF x
      <4> DEFINE p == parse(x)
      <4>1. ~Malformed(p)
        BY <1>1
      <4> HIDE DEF p
      <4> QED
        BY <4>1 DEF Malformed, p
    <3>4. g \in {requestOf(parse(x)), witnessOf(parse(x)), publishOf(parse(x)), responseOf(parse(x)), errorOf(parse(x))}
      <4> DEFINE p == parse(x)
      <4>1. p.type \in {"request", "response", "witness", "publish"} /\ g = Received(p)
        BY <3>3
      <4> HIDE DEF p, g
      <4>2. \/ g = requestOf(p) \/ g = witnessOf(p) \/ g = publishOf(p)
            \/ g = responseOf(p) \/ g = errorOf(p)
        BY <4>1 DEF Received
      <4> QED
        BY <4>2 DEF p
    <3>5. \A p : [requestOf(p) EXCEPT !.flags = @] = requestOf(p)
      BY DEF requestOf, Create
    <3>6. \A p : [witnessOf(p) EXCEPT !.flags = @] = witnessOf(p)
      BY DEF witnessOf, Create
    <3>7. \A p : [publishOf(p) EXCEPT !.flags = @] = publishOf(p)
      BY DEF publishOf, Create
    <3>8. \A p : [responseOf(p) EXCEPT !.flags = @] = responseOf(p)
      BY DEF responseOf, Create
    <3>9. \A p : [errorOf(p) EXCEPT !.flags = @] = errorOf(p)
      BY DEF errorOf, Create
    <3> HIDE DEF g
    <3> QED
      BY <3>1, <3>4, <3>5, <3>6, <3>7, <3>8, <3>9
  <2> QED
    BY <2>1, <2>2
<1>15. Delivers(m, Follower)
  BY <1>1, <1>10, <1>14 DEF Delivers
<1>16. Delivered'
  BY <1>10, <1>11, <1>13, <1>15 DEF Delivered
<1>17. Heads'
  BY <1>2, <1>5, HeadsDone
<1> QED
  BY <1>8, <1>16, <1>17, <1>18 DEF f

\* What can be cut has a line end.
LEMMA CutContains ==
  ASSUME NEW R, NEW x \in Text, NEW y \in Text, CutAt(R, x, y)
  PROVE  Contains(R, "nl")
<1> DEFINE t == Append(x, "nl")
<1>1. t \in Text /\ Contains(t, "nl")
  BY AfterType, TextOps, TextContains
<1>2. R = t \o y
  BY DEF CutAt, Same
<1> HIDE DEF t
<1> QED
  BY <1>1, <1>2, TextContains

\* Unless all is read, there is a line end.
LEMMA StageContains ==
  ASSUME TypeInv, NoStrayBlock(sent), NEW R \in Text, Stage(R)
  PROVE  Contains(R, "nl") \/ (R = <<>> /\ Delivered)
<1>1. sent \in Sendable /\ FollowerText \in Text /\ <<"nl">> \in Text /\ <<>> \in Text /\ Wire(Follower) \in Text
  BY AfterType, TextOps, FollowerTextIs, FollowerIs DEF TypeInv
<1>2. CASE Inside(sent, R)
  BY <1>1, <1>2, InsideLine, CutContains
<1>3. CASE Closing(sent, R)
  BY <1>1, <1>3, ClosingLine, CutContains
<1>4. CASE Outside(sent, R)
  BY <1>1, <1>4, OutsideLine, CutContains
<1>5. CASE Same(R, After)
  BY <1>1, <1>5, FollowerTextIs, CutContains DEF Same
<1>6. CASE Same(R, Wire(Follower))
  BY <1>1, <1>6, FollowerTextIs, CutContains DEF Same
<1>7. CASE R \in {<<"nl">>, <<>>} /\ Delivered
  BY <1>1, <1>7, FollowerTextIs, CutContains
<1> QED
  BY <1>2, <1>3, <1>4, <1>5, <1>6, <1>7 DEF Stage

\* One turn, wherever the loop is.
LEMMA StageTurn ==
  ASSUME RawInv, RawInv', Turn, NoStrayBlock(sent), Heads,
         NEW R \in Text, NEW e \in BOOLEAN, Reading(R, e)
  PROVE  Heads' /\ \E y \in Text : Reading(y, e)'
<1>1. TypeInv /\ multiline \in BOOLEAN /\ sent' = sent /\ Same(buf, Enc(R, e)) /\ Stage(R)
  BY DEF RawInv, TypeInv, Turn, Reading
<1>2. CASE multiline = TRUE
  BY <1>1, <1>2, InsideTurn, ClosingTurn DEF Stage
<1>3. CASE multiline = FALSE
  <2>1. CASE Outside(sent, R)
    BY <1>1, <1>3, <2>1, OutsideTurn
  <2>2. CASE Same(R, After)
    <3> DEFINE y == Wire(Follower)
    <3>1. CutAt(R, <<>>, y) /\ y \in Text
      BY <2>2, FollowerTextIs, FollowerIs DEF Same
    <3> HIDE DEF y
    <3>2. Heads' /\ multiline' = FALSE /\ Same(buf', Enc(y, e))
      BY <1>1, <1>3, <3>1, BlankTurn
    <3>3. Same(y, Wire(Follower))
      BY DEF Same, y
    <3>4. Reading(y, e)'
      BY <3>2, <3>3 DEF Reading, Stage
    <3> QED
      BY <3>1, <3>2, <3>4
  <2>3. CASE Same(R, Wire(Follower))
    <3> DEFINE y == <<"nl">>
    <3>1. y \in Text /\ Same(buf, Enc(Wire(Follower), e))
      BY <1>1, <2>3, AfterType DEF Same
    <3>2. Heads' /\ multiline' = FALSE /\ Same(buf', Enc(y, e)) /\ Delivered'
      BY <1>3, <3>1, FollowerTurn
    <3>3. Reading(y, e)'
      BY <3>2 DEF Reading, Stage
    <3> QED
      BY <3>1, <3>2, <3>3
  <2>4. CASE R = <<"nl">> /\ Delivered
    <3> DEFINE y == <<>>
    <3>1. y \in Text /\ CutAt(R, <<>>, y)
      BY <2>4, FollowerTextIs, TextOps
    <3>2. Heads' /\ multiline' = FALSE /\ output' = output /\ Same(buf', Enc(y, e))
      BY <1>1, <1>3, <3>1, BlankTurn
    <3>3. Delivered'
      BY <2>4, <3>2 DEF Delivered
    <3>4. Reading(y, e)'
      BY <3>2, <3>3 DEF Reading, Stage
    <3> QED
      BY <3>1, <3>2, <3>4
  <2>5. CASE R = <<>>
    <3>1. ~Contains(buf, "nl")
      BY <1>1, <2>5, EncIs, TextContains DEF Same
    <3>2. ~Listener!Blocked
      BY DEF Turn, Listener!Turn, Listener!OpenBlock, Listener!SingleLine, Listener!BlockLine,
             Listener!ReopenBlock, Listener!CloseBlock, Listener!Continue, Listener!Complete, Listener!TakeLine
    <3> QED
      BY <3>1, <3>2 DEF Listener!Blocked, Listener!Contains, Contains
  <2> QED
    BY <1>1, <1>3, <2>1, <2>2, <2>3, <2>4, <2>5 DEF Stage
<1> QED
  BY <1>1, <1>2, <1>3

\* The first read.
LEMMA ReadStage ==
  ASSUME TypeInv, Read, NoStrayBlock(sent), Heads,
         unread \in {Bytes, CrLf(Bytes)}, multiline = FALSE, output = <<>>
  PROVE  Heads' /\ unread' = <<>> /\ \E R \in Text, e \in BOOLEAN : Reading(R, e)'
<1> DEFINE b == Opening(sent) \o From(sent, 1)
<1>1. sent \in Sendable /\ sent' = sent
  BY DEF TypeInv, Read
<1>2. Opening(sent) \in Text /\ ~Contains(Opening(sent), "<<") /\ From(sent, 1) \in Text
      /\ 1 \in 1 .. Len(KeyOrder) + 1
  BY <1>1, OpeningPlain, FromIs, ArgsType
<1>3. Bytes = b
  BY <1>1, FromIs DEF Bytes, Same
<1>4. b \in Text /\ Outside(sent, b)
  <2>1. b \in Text /\ Same(b, Opening(sent) \o From(sent, 1))
    BY <1>2, TextOps DEF Same
  <2> HIDE DEF b
  <2> QED
    BY <1>2, <2>1 DEF Outside
<1> HIDE DEF b
<1>5. PICK e \in BOOLEAN : unread = Enc(b, e)
  <2>1. unread = Enc(b, FALSE) \/ unread = Enc(b, TRUE)
    BY <1>3 DEF Enc
  <2> QED
    BY <2>1
<1>6. buf' = Enc(b, e) /\ multiline' = FALSE /\ output' = output /\ line' = line /\ unread' = <<>>
  BY <1>5 DEF Read
<1>7. PICK R \in Text : R = b
  BY <1>4
<1>8. Reading(R, e)'
  <2>1. Outside(sent, R) /\ buf' = Enc(R, e)
    BY <1>4, <1>6, <1>7
  <2>2. Outside(sent', R)
    BY <1>1, <2>1
  <2> QED
    BY <1>6, <2>1, <2>2 DEF Reading, Stage, Same
<1>9. Heads'
  BY <1>1, <1>6 DEF Heads
<1> QED
  BY <1>6, <1>7, <1>8, <1>9

\* The invariant holds in every state.
LEMMA NextInvHolds == Spec => []NextInv
<1>1. Init => NextInv
  <2> SUFFICES ASSUME Init PROVE NextInv
    OBVIOUS
  <2>1. TypeInv /\ unread \in {Bytes, CrLf(Bytes)} /\ buf = <<>> /\ rawLine = <<>>
        /\ multiline = FALSE /\ output = <<>> /\ Len(output) = 0
    BY InitIs
  <2>2. RawInv
    BY <2>1 DEF RawInv
  <2>3. Heads
    BY <2>1 DEF Heads
  <2> QED
    BY <2>1, <2>2, <2>3 DEF NextInv
<1>2. NextInv /\ [Next]_vars => NextInv'
  <2> SUFFICES ASSUME NextInv, [Next]_vars PROVE NextInv'
    OBVIOUS
  <2>1. RawInv /\ RawInv' /\ TypeInv
    BY RawNext DEF NextInv, RawInv
  <2>2. sent' = sent
    BY StutterType DEF Next, Read, Turn
  <2> SUFFICES ASSUME NoStrayBlock(sent)
               PROVE  /\ Heads'
                      /\ \/ unread' \in {Bytes', CrLf(Bytes')} /\ buf' = <<>> /\ multiline' = FALSE /\ output' = <<>>
                         \/ unread' = <<>> /\ \E R \in Text, e \in BOOLEAN : Reading(R, e)'
    BY <2>1, <2>2 DEF NextInv
  <2>3. Heads
    BY DEF NextInv
  <2>4. CASE unread \in {Bytes, CrLf(Bytes)} /\ buf = <<>> /\ multiline = FALSE /\ output = <<>>
    <3>1. CASE Read
      BY <2>1, <2>3, <2>4, <3>1, ReadStage
    <3>2. CASE Turn
      <4>1. ~Listener!Blocked
        BY <3>2 DEF Turn, Listener!Turn, Listener!OpenBlock, Listener!SingleLine, Listener!BlockLine,
               Listener!ReopenBlock, Listener!CloseBlock, Listener!Continue, Listener!Complete, Listener!TakeLine
      <4>2. Contains(buf, "nl")
        BY <4>1 DEF Listener!Blocked, Listener!Contains, Contains
      <4> QED
        BY <2>4, <4>2, TextContains
    <3>3. CASE UNCHANGED vars
      <4>1. UNCHANGED vars
        BY <3>3
      <4>2. /\ unread' = unread /\ buf' = buf /\ line' = line /\ multiline' = multiline /\ output' = output
        BY <4>1, StutterType
      <4> QED
        BY <2>2, <2>3, <2>4, <4>2 DEF Heads, Bytes
    <3> QED
      BY <3>1, <3>2, <3>3 DEF Next
  <2>5. ASSUME NEW R \in Text, NEW e \in BOOLEAN, unread = <<>>, Reading(R, e)
        PROVE  Heads' /\ unread' = <<>> /\ \E y \in Text, f \in BOOLEAN : Reading(y, f)'
    <3>1. CASE Read
      BY <2>5, <3>1 DEF Read
    <3>2. CASE Turn
      <4>1. unread' = unread
        BY <3>2 DEF Turn
      <4>2. Heads' /\ \E y \in Text : Reading(y, e)'
        BY <2>1, <2>3, <2>5, <3>2, StageTurn
      <4> QED
        BY <2>5, <4>1, <4>2
    <3>3. CASE UNCHANGED vars
      <4>1. UNCHANGED vars
        BY <3>3
      <4>2. /\ unread' = unread /\ buf' = buf /\ line' = line /\ multiline' = multiline /\ output' = output
        BY <4>1, StutterType
      <4>3. Heads'
        BY <2>2, <2>3, <4>2 DEF Heads
      <4>4. Delivered' <=> Delivered
        BY <4>2 DEF Delivered
      <4>5. Stage(R)' <=> Stage(R)
        BY <2>2, <4>2, <4>4 DEF Stage
      <4> QED
        BY <2>5, <4>2, <4>3, <4>5 DEF Reading
    <3> QED
      BY <3>1, <3>2, <3>3 DEF Next
  <2> QED
    BY <2>4, <2>5 DEF NextInv
<1> QED
  BY <1>1, <1>2, PTL DEF Spec

\* When all is quiet, all is read.
LEMMA QuietIs ==
  ASSUME NextInv, NoStrayBlock(sent), Quiet
  PROVE  Delivered /\ Heads
<1>1. TypeInv /\ sent \in Sendable /\ Heads /\ unread = <<>> /\ ~Contains(buf, "nl")
  BY DEF NextInv, RawInv, TypeInv, Quiet, Listener!Blocked, Listener!Contains, Contains
<1>2. CASE unread \in {Bytes, CrLf(Bytes)}
  <2> DEFINE b == Opening(sent) \o From(sent, 1)
  <2>1. Bytes = b
    BY <1>1, FromIs DEF Bytes, Same
  <2>2. b \in Text /\ Contains(b, "nl")
    <3>1. Opening(sent) \in Text /\ ~Contains(Opening(sent), "<<") /\ From(sent, 1) \in Text
          /\ 1 \in 1 .. Len(KeyOrder) + 1
      BY <1>1, OpeningPlain, FromIs, ArgsType
    <3>2. b \in Text /\ Same(b, Opening(sent) \o From(sent, 1))
      BY <3>1, TextOps DEF Same
    <3> HIDE DEF b
    <3>3. Outside(sent, b)
      BY <3>1, <3>2 DEF Outside
    <3> QED
      BY <1>1, <3>2, <3>3, OutsideLine, CutContains
  <2> HIDE DEF b
  <2>3. unread = Enc(b, FALSE) \/ unread = Enc(b, TRUE)
    BY <1>2, <2>1 DEF Enc
  <2>4. Contains(unread, "nl")
    BY <2>2, <2>3, EncIs
  <2> QED
    BY <1>1, <2>4, TextContains
<1>3. CASE \E R \in Text, e \in BOOLEAN : Reading(R, e)
  <2>1. PICK R \in Text, e \in BOOLEAN : Reading(R, e)
    BY <1>3
  <2>2. ~Contains(R, "nl")
    BY <1>1, <2>1, EncIs DEF Reading, Same
  <2>3. Delivered
    BY <1>1, <2>1, <2>2, StageContains DEF Reading
  <2> QED
    BY <1>1, <2>3
<1> QED
  BY <1>2, <1>3 DEF NextInv

\* However a value breaks the message it is in, the next one is delivered as it
\* is, down to its raw bytes, unless a block is left open: NextIsIntact, about
\* serialize() (spore_c.cpp) and the blocks of listen() (client.cpp).
THEOREM NextMessageIsIntact == Spec => []NextIsIntact
<1>1. NextInv => NextIsIntact
  BY QuietIs DEF NextIsIntact, Delivered
<1> QED
  BY <1>1, NextInvHolds, PTL

=============================================================================
