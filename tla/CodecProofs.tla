---------------------------- MODULE CodecProofs ----------------------------
(***************************************************************************)
(* Proofs about RoundTrip that need what tokenize() and build() make of a  *)
(* text: the states of tokenize as a relation between a text and what has  *)
(* been read of it.  The first is that a response or an error stays one;   *)
(* the second that a node gets what another node sent.                     *)
(***************************************************************************)
EXTENDS RoundTripProofs, FiniteSetTheorems

----------------------------------------------------------------------------
(* How tokenize reads *)

Places == {"none", "quotes", "s_quotes", "brackets", "triangles"}
Kinds  == {"none", "arg", "handle"}
Tokens == [type : Kinds, value : Text]

Brackets == {"[", "{"}

States ==
  [where : Places, bracket : Brackets, depth : Nat, value : Text, type : Kinds, tokens : Seq(Tokens)]

\* f are the states of tokenize on t, from s on; and the last of them is u.
Follows(f, s, t) ==
  f \in [0 .. Len(t) -> States] /\ f[0] = s /\ \A i \in 1 .. Len(t) : f[i] = Token(f[i - 1], t[i])

Runs(s, t, u) == \E f : Follows(f, s, t) /\ f[Len(t)] = u

\* What a unit or the end of a token make of a state is a state.
LEMMA StateType ==
  /\ Start \in States
  /\ \A s \in States : EndToken(s) \in States
  /\ \A s \in States, c \in Units : Push(s, c) \in States
<1>1. Start \in States
  <2>1. <<>> \in Text /\ <<>> \in Seq(Tokens)
    BY TextOps, EmptySeq
  <2> QED
    BY <2>1 DEF Start, States, Places, Kinds, Brackets
<1>2. ASSUME NEW s \in States PROVE EndToken(s) \in States
  <2>1. [type |-> s.type, value |-> s.value] \in Tokens
    BY DEF States, Tokens
  <2> DEFINE k == [type |-> s.type, value |-> s.value]
             l == Append(s.tokens, k)
  <2>2. l \in Seq(Tokens)
    BY <2>1, AppendProperties DEF States
  <2>3. <<>> \in Text /\ "none" \in Kinds
    BY TextOps DEF Kinds
  <2>4. EndToken(s) = s \/ EndToken(s) = [s EXCEPT !.tokens = l, !.value = <<>>, !.type = "none"]
    BY DEF EndToken
  <2> HIDE DEF l
  <2> QED
    BY <2>2, <2>3, <2>4 DEF States
<1>3. ASSUME NEW s \in States, NEW c \in Units PROVE Push(s, c) \in States
  <2> DEFINE v == Append(s.value, c)
  <2>1. v \in Text
    BY TextOps DEF States
  <2>2. Push(s, c) = [s EXCEPT !.value = v]
    BY DEF Push
  <2> HIDE DEF v
  <2> QED
    BY <2>1, <2>2 DEF States
<1> QED
  BY <1>1, <1>2, <1>3

\* What a unit does, place by place.
LEMMA InNoneIs ==
  ASSUME NEW s, NEW c
  PROVE  /\ c = "sp" => InNone(s, c) = EndToken(s)
         /\ c = "dq" => InNone(s, c) = [s EXCEPT !.where = "quotes"]
         /\ c = "sq" => InNone(s, c) = [s EXCEPT !.where = "s_quotes"]
         /\ c \in Brackets =>
              InNone(s, c) = [Push(s, c) EXCEPT !.where = "brackets", !.bracket = c, !.depth = 1]
         /\ c = "=" => InNone(s, c) = [Push(s, c) EXCEPT !.type = "arg"]
         /\ c = "~" /\ s.value = <<>> => InNone(s, c) = [Push(s, c) EXCEPT !.type = "handle"]
         /\ c = "<<" => InNone(s, c) = [Push(s, c) EXCEPT !.where = "triangles"]
         /\ c \notin Brackets \cup {"sp", "dq", "sq", "=", "<<"} /\ ~(c = "~" /\ s.value = <<>>) =>
              InNone(s, c) = Push(s, c)
BY DEF InNone, Brackets

\* Depths.
LEMMA OneOrMany ==
  \A n \in Nat : /\ n >= 1 => n = 1 \/ n > 1
                 /\ n > 1 => n >= 1 /\ n # 1 /\ n - 1 \in Nat
                 /\ n = 1 => n >= 1
                 /\ n + 1 \in Nat
OBVIOUS

\* What a unit does inside brackets.
LEMMA InBracketsIs ==
  ASSUME NEW s \in States, NEW c, NEW n, n = s.depth
  PROVE  /\ n \in Nat
         /\ c = s.bracket => InBrackets(s, c) = [Push(s, c) EXCEPT !.depth = n + 1]
         /\ c = Closer(s.bracket) /\ n = 1 =>
              InBrackets(s, c) = [Push(s, c) EXCEPT !.depth = 0, !.where = "none"]
         /\ c = Closer(s.bracket) /\ n > 1 => InBrackets(s, c) = [Push(s, c) EXCEPT !.depth = n - 1]
         /\ c # s.bracket /\ ~(c = Closer(s.bracket) /\ n >= 1) => InBrackets(s, c) = Push(s, c)
<1>1. n \in Nat
  BY DEF States
<1>2. s.bracket # Closer(s.bracket)
  BY DEF Closer, States, Brackets
<1> DEFINE p == Push(s, c)
           d == Closer(s.bracket)
           more == [p EXCEPT !.depth = n + 1]
           end  == [p EXCEPT !.depth = 0, !.where = "none"]
           less == [p EXCEPT !.depth = n - 1]
           one  == n = 1
           many == n > 1
<1>3. p.depth = n
  BY DEF Push, States
<1>4. InBrackets(s, c) =
        CASE c = s.bracket    -> more
          [] c = d /\ one     -> end
          [] c = d /\ many    -> less
          [] OTHER            -> p
  <2>1. InBrackets(s, c) =
          CASE c = s.bracket    -> [p EXCEPT !.depth = @ + 1]
            [] c = d /\ one     -> end
            [] c = d /\ many    -> [p EXCEPT !.depth = @ - 1]
            [] OTHER            -> p
    BY DEF InBrackets
  <2>2. [p EXCEPT !.depth = @ + 1] = more /\ [p EXCEPT !.depth = @ - 1] = less
    <3> HIDE DEF p
    <3> QED
      BY <1>3
  <2> HIDE DEF p, d, end, one, many, more, less
  <2> QED
    BY <2>1, <2>2
<1>5. s.bracket # d /\ ~(one /\ many) /\ (n >= 1 <=> one \/ many)
  BY <1>1, <1>2, OneOrMany, Zenon
<1> HIDE DEF p, d, more, end, less, one, many
<1>6. c = s.bracket => InBrackets(s, c) = more
  BY <1>4, <1>5
<1>7. c = d /\ one => InBrackets(s, c) = end
  BY <1>4, <1>5
<1>8. c = d /\ many => InBrackets(s, c) = less
  BY <1>4, <1>5
<1>9. c # s.bracket /\ ~(c = d /\ (one \/ many)) => InBrackets(s, c) = p
  BY <1>4
<1> QED
  BY <1>1, <1>5, <1>6, <1>7, <1>8, <1>9 DEF p, d, more, end, less, one, many

\* In any place.
LEMMA TokenIs ==
  ASSUME NEW s, NEW c
  PROVE  /\ s.where = "none" => Token(s, c) = InNone(s, c)
         /\ s.where = "quotes" /\ c = "dq" => Token(s, c) = [s EXCEPT !.where = "none"]
         /\ s.where = "quotes" /\ c # "dq" => Token(s, c) = Push(s, c)
         /\ s.where = "s_quotes" /\ c = "sq" => Token(s, c) = [s EXCEPT !.where = "none"]
         /\ s.where = "s_quotes" /\ c # "sq" => Token(s, c) = Push(s, c)
         /\ s.where = "brackets" => Token(s, c) = InBrackets(s, c)
         /\ s.where = "triangles" /\ c = ">>" => Token(s, c) = [Push(s, c) EXCEPT !.where = "none"]
         /\ s.where = "triangles" /\ c # ">>" => Token(s, c) = Push(s, c)
BY DEF Token

\* The states of tokenize have their types.
LEMMA TokenType ==
  ASSUME NEW s \in States, NEW c \in Units
  PROVE  Token(s, c) \in States
<1> DEFINE p == Push(s, c)
<1>1. p \in States /\ EndToken(s) \in States
  BY StateType
<1>2. InNone(s, c) \in States
  <2> HIDE DEF p
  <2>1. \A w \in Places : [s EXCEPT !.where = w] \in States /\ [p EXCEPT !.where = w] \in States
    BY <1>1 DEF States
  <2>2. \A k \in Kinds : [p EXCEPT !.type = k] \in States
    BY <1>1 DEF States
  <2>3. c \in Brackets => [p EXCEPT !.where = "brackets", !.bracket = c, !.depth = 1] \in States
    BY <1>1 DEF States, Places
  <2>4. {"quotes", "s_quotes", "triangles"} \subseteq Places /\ {"arg", "handle"} \subseteq Kinds
    BY DEF Places, Kinds
  <2>5. CASE c = "~"
    BY <1>1, <2>2, <2>4, <2>5, InNoneIs DEF p, Brackets
  <2>6. CASE c \in {"sp", "dq", "sq"}
    BY <1>1, <2>1, <2>4, <2>6, InNoneIs
  <2>7. CASE c \in Brackets
    BY <2>3, <2>7, InNoneIs DEF p
  <2>8. CASE c \in {"=", "<<"}
    <3>1. InNone(s, c) = [p EXCEPT !.type = "arg"] \/ InNone(s, c) = [p EXCEPT !.where = "triangles"]
      <4>1. c = "=" => InNone(s, c) = [p EXCEPT !.type = "arg"]
        BY InNoneIs, Zenon DEF p
      <4>2. c = "<<" => InNone(s, c) = [p EXCEPT !.where = "triangles"]
        BY DEF InNone, p
      <4> QED
        BY <2>8, <4>1, <4>2
    <3> QED
      BY <2>1, <2>2, <2>4, <3>1
  <2>9. CASE c \notin Brackets \cup {"~", "sp", "dq", "sq", "=", "<<"}
    BY <1>1, <2>9, InNoneIs DEF p
  <2> QED
    BY <2>5, <2>6, <2>7, <2>8, <2>9
<1>3. InBrackets(s, c) \in States
  <2> DEFINE n == s.depth
  <2> HIDE DEF n
  <2>1. /\ n \in Nat
        /\ c = s.bracket => InBrackets(s, c) = [p EXCEPT !.depth = n + 1]
        /\ c = Closer(s.bracket) /\ n = 1 => InBrackets(s, c) = [p EXCEPT !.depth = 0, !.where = "none"]
        /\ c = Closer(s.bracket) /\ n > 1 => InBrackets(s, c) = [p EXCEPT !.depth = n - 1]
        /\ c # s.bracket /\ ~(c = Closer(s.bracket) /\ n >= 1) => InBrackets(s, c) = p
    BY InBracketsIs, Zenon DEF n
  <2> HIDE DEF p
  <2>2. \A k \in Nat : [p EXCEPT !.depth = k] \in States
    BY <1>1 DEF States
  <2>3. [p EXCEPT !.depth = 0, !.where = "none"] \in States
    BY <1>1 DEF States, Places
  <2> QED
    BY <1>1, <2>1, <2>2, <2>3, OneOrMany, Zenon
<1>4. [s EXCEPT !.where = "none"] \in States
  BY DEF States, Places
<1>5. [p EXCEPT !.where = "none"] \in States
  <2> HIDE DEF p
  <2> QED
    BY <1>1 DEF States, Places
<1>6. s.where \in {"none", "quotes", "s_quotes", "brackets", "triangles"}
  BY DEF States, Places
<1> QED
  BY <1>1, <1>2, <1>3, <1>4, <1>5, <1>6, TokenIs

\* Nothing, and one unit more.
LEMMA RunsEmpty ==
  ASSUME NEW s \in States
  PROVE  \A u : Runs(s, <<>>, u) <=> u = s
<1> DEFINE f == [i \in 0 .. 0 |-> s]
<1>1. f \in [0 .. Len(<<>>) -> States] /\ f[0] = s /\ Len(<<>>) = 0
  OBVIOUS
<1> HIDE DEF f
<1>2. Follows(f, s, <<>>)
  BY <1>1 DEF Follows
<1> QED
  BY <1>1, <1>2 DEF Runs, Follows

\* One unit more.
LEMMA RunsAppend ==
  ASSUME NEW s \in States, NEW t \in Text, NEW c \in Units, NEW u \in States, Runs(s, t, u)
  PROVE  Runs(s, Append(t, c), Token(u, c))
<1>1. PICK f : Follows(f, s, t) /\ f[Len(t)] = u
  BY DEF Runs
<1>2. PICK n \in Nat : n = Len(t)
  BY LenProperties DEF Text
<1> DEFINE a == Append(t, c)
           v == Token(u, c)
           g == [i \in 0 .. n + 1 |-> IF i = n + 1 THEN v ELSE f[i]]
<1>3. Len(a) = n + 1 /\ a[n + 1] = c /\ \A i \in 1 .. n : a[i] = t[i]
  BY <1>2, AppendProperties DEF Text
<1>4. v \in States
  BY TokenType
<1>5. f \in [0 .. n -> States] /\ f[0] = s /\ f[n] = u /\ \A i \in 1 .. n : f[i] = Token(f[i - 1], t[i])
  BY <1>1, <1>2 DEF Follows
<1> HIDE DEF v, a
<1>6. /\ g \in [0 .. n + 1 -> States] /\ g[n + 1] = v /\ \A i \in 0 .. n : g[i] = f[i]
  <2>1. \A i \in 0 .. n + 1 : i # n + 1 => i \in 0 .. n
    BY <1>2
  <2> QED
    BY <1>4, <1>5, <2>1
<1> HIDE DEF g
<1>7. g[0] = s /\ \A i \in 1 .. n + 1 : g[i] = Token(g[i - 1], a[i])
  <2>1. g[0] = s
    BY <1>5, <1>6
  <2> SUFFICES ASSUME NEW i \in 1 .. n + 1 PROVE g[i] = Token(g[i - 1], a[i])
    BY <2>1
  <2>2. CASE i = n + 1
    <3>1. i - 1 = n /\ n \in 0 .. n
      BY <2>2
    <3>2. g[i - 1] = u /\ g[i] = v /\ a[i] = c
      BY <1>3, <1>5, <1>6, <2>2, <3>1
    <3> QED
      BY <3>2 DEF v
  <2>3. CASE i # n + 1
    <3>1. i \in 1 .. n /\ i \in 0 .. n /\ i - 1 \in 0 .. n
      BY <2>3
    <3> QED
      BY <1>3, <1>5, <1>6, <3>1
  <2> QED
    BY <2>2, <2>3
<1>8. Follows(g, s, a)
  BY <1>3, <1>6, <1>7 DEF Follows
<1>9. g[Len(a)] = v
  BY <1>3, <1>6
<1>10. Runs(s, a, v)
  BY <1>8, <1>9 DEF Runs
<1> QED
  BY <1>10 DEF a, v

\* What leads to the last state leads through the one before it.
LEMMA RunsBack ==
  ASSUME NEW s \in States, NEW t \in Text, NEW c \in Units, NEW v, Runs(s, Append(t, c), v)
  PROVE  \E u \in States : Runs(s, t, u) /\ v = Token(u, c)
<1> DEFINE a == Append(t, c)
<1>1. PICK g : Follows(g, s, a) /\ g[Len(a)] = v
  BY DEF Runs
<1>2. PICK n \in Nat : n = Len(t)
  BY LenProperties DEF Text
<1>3. Len(a) = n + 1 /\ a[n + 1] = c /\ \A i \in 1 .. n : a[i] = t[i]
  BY <1>2, AppendProperties DEF Text
<1> HIDE DEF a
<1>4. /\ g \in [0 .. n + 1 -> States] /\ g[0] = s /\ g[n + 1] = v
      /\ \A i \in 1 .. n + 1 : g[i] = Token(g[i - 1], a[i])
  BY <1>1, <1>3 DEF Follows
<1> DEFINE f == [i \in 0 .. n |-> g[i]]
<1>5. \A i \in 0 .. n : i \in 0 .. n + 1
  OBVIOUS
<1>6. f \in [0 .. n -> States] /\ \A i \in 0 .. n : f[i] = g[i]
  BY <1>4, <1>5
<1> HIDE DEF f
<1>7. f[0] = s /\ \A i \in 1 .. n : f[i] = Token(f[i - 1], t[i])
  <2>1. \A i \in 1 .. n : i \in 0 .. n /\ i - 1 \in 0 .. n /\ i \in 1 .. n + 1
    OBVIOUS
  <2>2. 0 \in 0 .. n
    OBVIOUS
  <2> QED
    BY <1>3, <1>4, <1>6, <2>1, <2>2
<1>8. Follows(f, s, t)
  BY <1>2, <1>6, <1>7 DEF Follows
<1>9. f[n] \in States /\ Runs(s, t, f[n])
  BY <1>2, <1>6, <1>8 DEF Runs
<1>10. v = Token(f[n], c)
  <2>1. n + 1 \in 1 .. n + 1 /\ n + 1 - 1 = n /\ n \in 0 .. n
    OBVIOUS
  <2> QED
    BY <1>3, <1>4, <1>6, <2>1
<1> QED
  BY <1>9, <1>10

\* There is one way to read.
LEMMA RunsOne ==
  ASSUME NEW s \in States, NEW t \in Text
  PROVE  \E u \in States : Runs(s, t, u) /\ \A v : Runs(s, t, v) => v = u
<1> DEFINE One(x) == \E u \in States : Runs(s, x, u) /\ \A v : Runs(s, x, v) => v = u
           G == {x \in Text : One(x)}
<1>1. <<>> \in G
  BY RunsEmpty, TextOps
<1>2. ASSUME NEW p \in Text, NEW x \in Units, p \in G PROVE Append(p, x) \in G
  <2>1. PICK u \in States : Runs(s, p, u) /\ \A v : Runs(s, p, v) => v = u
    BY <1>2
  <2>2. Token(u, x) \in States /\ Runs(s, Append(p, x), Token(u, x))
    BY <2>1, RunsAppend, TokenType
  <2>3. \A v : Runs(s, Append(p, x), v) => v = Token(u, x)
    BY <2>1, RunsBack
  <2>4. Append(p, x) \in Text
    BY TextOps
  <2> DEFINE a == Append(p, x)
  <2> HIDE DEF a
  <2>5. One(a)
    BY <2>2, <2>3 DEF a
  <2> QED
    BY <2>4, <2>5 DEF a
<1>3. \A x \in Text : x \in G
  <2> HIDE DEF G
  <2> QED
    BY <1>1, <1>2, SeqInduction DEF Text
<1> QED
  BY <1>3

\* One text after another.
LEMMA RunsConcat ==
  ASSUME NEW s \in States, NEW a \in Text, NEW u \in States, Runs(s, a, u), NEW b \in Text
  PROVE  \A v : Runs(s, a \o b, v) <=> Runs(u, b, v)
<1> DEFINE Good(x) == \A v : Runs(s, a \o x, v) <=> Runs(u, x, v)
           G == {x \in Text : Good(x)}
<1>1. <<>> \in G
  <2>1. Same(a \o <<>>, a)
    BY ConcatEmptySeq DEF Same, Text
  <2>2. \A v : Runs(s, a, v) => v = u
    BY RunsOne
  <2>3. \A v : Runs(u, <<>>, v) <=> v = u
    BY RunsEmpty
  <2>4. Good(<<>>)
    BY <2>1, <2>2, <2>3 DEF Same
  <2> QED
    BY <2>4, TextOps
<1>2. ASSUME NEW p \in Text, NEW x \in Units, p \in G PROVE Append(p, x) \in G
  <2> DEFINE l == Append(p, x)
             c == a \o p
  <2>1. l \in Text /\ c \in Text
    BY TextOps
  <2>2. Same(a \o l, Append(c, x))
    BY AppendToConcat DEF Same, Text
  <2>3. PICK w \in States : Runs(u, p, w) /\ \A v : Runs(u, p, v) => v = w
    BY RunsOne
  <2>4. Runs(s, c, w)
    BY <1>2, <2>3
  <2> HIDE DEF c
  <2>5. \A v : Runs(s, Append(c, x), v) => v = Token(w, x)
    <3>1. \A v : Runs(s, c, v) => v = w
      BY <2>1, <2>4, RunsOne
    <3> QED
      BY <2>1, <3>1, RunsBack
  <2>6. Runs(s, Append(c, x), Token(w, x))
    BY <2>1, <2>4, RunsAppend
  <2>7. \A v : Runs(u, l, v) <=> v = Token(w, x)
    BY <2>3, RunsBack, RunsAppend
  <2>8. \A v : Runs(s, Append(c, x), v) <=> Runs(u, l, v)
    BY <2>5, <2>6, <2>7
  <2> HIDE DEF l
  <2>9. \A v : Runs(s, a \o l, v) <=> Runs(u, l, v)
    BY <2>2, <2>8 DEF Same
  <2>10. Good(l)
    BY <2>9 DEF c
  <2> QED
    BY <2>1, <2>10 DEF l
<1>3. \A x \in Text : x \in G
  <2> HIDE DEF G
  <2> QED
    BY <1>1, <1>2, SeqInduction DEF Text
<1> QED
  BY <1>3

\* tokenize reads so.
LEMMA TokenizeIs ==
  ASSUME NEW t \in Text, NEW u, Runs(Start, t, u)
  PROVE  tokenize(t) = EndToken(CloseAll(u)).tokens
<1>1. PICK n \in Nat : n = Len(t) /\ \A i \in 1 .. n : t[i] \in Units
  BY LenProperties, ElementOfSeq DEF Text
<1>2. PICK f : Follows(f, Start, t) /\ f[n] = u
  BY <1>1 DEF Runs
<1> DEFINE Run(g) == g = [i \in 0 .. n |-> IF i = 0 THEN Start ELSE Token(g[i - 1], t[i])]
<1>3. f \in [0 .. n -> States] /\ f[0] = Start /\ \A i \in 1 .. n : f[i] = Token(f[i - 1], t[i])
  BY <1>1, <1>2 DEF Follows
<1>4. \A i \in 0 .. n : i # 0 => i \in 1 .. n /\ i - 1 \in 0 .. n
  OBVIOUS
<1>5. Run(f)
  <2>1. \A i \in 0 .. n : f[i] = IF i = 0 THEN Start ELSE Token(f[i - 1], t[i])
    BY <1>3, <1>4
  <2> DEFINE h == [i \in 0 .. n |-> IF i = 0 THEN Start ELSE Token(f[i - 1], t[i])]
  <2>2. f = [i \in 0 .. n |-> f[i]]
    BY <1>3
  <2>3. DOMAIN h = 0 .. n /\ \A i \in 0 .. n : h[i] = f[i]
    BY <2>1
  <2>4. h = [i \in 0 .. n |-> h[i]]
    OBVIOUS
  <2> HIDE DEF h
  <2>5. f = h
    BY <2>2, <2>3, <2>4
  <2> QED
    BY <2>5 DEF h
<1> DEFINE g == CHOOSE x : Run(x)
<1>6. Run(g)
  BY <1>5
<1>7. tokenize(t) = EndToken(CloseAll(g[n])).tokens
  BY <1>1 DEF tokenize
<1> HIDE DEF g
<1>8. \A i \in 0 .. n : g[i] = IF i = 0 THEN Start ELSE Token(g[i - 1], t[i])
  BY <1>6
<1>9. \A i \in 0 .. n : g[i] = f[i]
  <2> DEFINE B == {i \in 0 .. n : g[i] # f[i]}
  <2>1. \A i \in B : i - 1 \in B
    <3> SUFFICES ASSUME NEW i \in 0 .. n, g[i] # f[i]
                 PROVE  i - 1 \in 0 .. n /\ g[i - 1] # f[i - 1]
      OBVIOUS
    <3>1. i # 0
      BY <1>3, <1>8
    <3>2. g[i] = Token(g[i - 1], t[i]) /\ f[i] = Token(f[i - 1], t[i])
      BY <1>3, <1>4, <1>8, <3>1
    <3> QED
      BY <1>4, <3>1, <3>2
  <2>2. B \subseteq Nat
    OBVIOUS
  <2>3. B = {}
    <3> HIDE DEF B
    <3> QED
      BY <2>1, <2>2, NoFirst
  <2> QED
    BY <2>3
<1> QED
  BY <1>2, <1>7, <1>9

----------------------------------------------------------------------------
(* What has been read *)

\* Outside quotes, brackets and blocks, with T read, and v of a token of type k.
Holds(u, k, v, T) ==
  u \in States /\ u.where = "none" /\ u.type = k /\ u.value = v /\ u.tokens = T

\* This is where P leads to.
Reads(P, k, v, T) == \E u : Runs(Start, P, u) /\ Holds(u, k, v, T)

\* Units that mean nothing to tokenize outside quotes, brackets and blocks.
Plain == Units \ (Brackets \cup {"sp", "dq", "sq", "=", "~", "<<"})

\* The token that ends, if there is one.
Ended(T, k, v) == IF v = <<>> THEN T ELSE Append(T, [type |-> k, value |-> v])

\* Nothing has been read at first.
LEMMA ReadsNothing == Reads(<<>>, "none", <<>>, <<>>)
<1>1. Start \in States
  BY StateType
<1>2. Holds(Start, "none", <<>>, <<>>)
  BY <1>1 DEF Holds, Start
<1> QED
  BY <1>1, <1>2, RunsEmpty DEF Reads

\* What has been read is of its type.
LEMMA ReadsType ==
  ASSUME NEW P, NEW k, NEW v, NEW T, Reads(P, k, v, T)
  PROVE  k \in Kinds /\ v \in Text /\ T \in Seq(Tokens)
BY DEF Reads, Holds, States

\* One unit more.
LEMMA ReadsUnit ==
  ASSUME NEW P \in Text, NEW c \in Units, NEW u \in States, Runs(Start, P, u),
         NEW k, NEW v, NEW T, Holds(Token(u, c), k, v, T)
  PROVE  Reads(Append(P, c), k, v, T)
BY StateType, RunsAppend DEF Reads

\* A plain unit goes into the token.
LEMMA PlainUnit ==
  ASSUME NEW P \in Text, NEW k, NEW v, NEW T, Reads(P, k, v, T), NEW c \in Plain
  PROVE  Reads(Append(P, c), k, Append(v, c), T)
<1>1. PICK u : Runs(Start, P, u) /\ Holds(u, k, v, T)
  BY DEF Reads
<1>2. u \in States /\ u.where = "none" /\ c \in Units
  BY <1>1 DEF Holds, Plain
<1>3. Token(u, c) = Push(u, c)
  <2>1. Token(u, c) = InNone(u, c)
    BY <1>2, TokenIs
  <2> QED
    BY <2>1 DEF InNone, Plain, Brackets
<1>4. Push(u, c) \in States
  BY <1>2, StateType
<1>5. Holds(Push(u, c), k, Append(v, c), T)
  BY <1>1, <1>2, <1>4 DEF Holds, Push, States
<1> QED
  BY <1>1, <1>2, <1>3, <1>5, ReadsUnit

\* So does plain text.
LEMMA ReadsPlain ==
  ASSUME NEW P \in Text, NEW k, NEW v, NEW T, Reads(P, k, v, T), NEW w \in Seq(Plain)
  PROVE  Reads(P \o w, k, v \o w, T)
<1>1. v \in Text /\ Plain \subseteq Units
  BY ReadsType DEF Plain
<1> DEFINE Good(x) == Reads(P \o x, k, v \o x, T)
           G == {x \in Seq(Plain) : Good(x)}
<1>2. <<>> \in G
  <2>1. P \o <<>> = P /\ v \o <<>> = v
    BY <1>1, ConcatEmptySeq DEF Text
  <2>2. Good(<<>>)
    BY <2>1
  <2> QED
    BY <2>2, EmptySeq
<1>3. ASSUME NEW p \in Seq(Plain), NEW x \in Plain, p \in G PROVE Append(p, x) \in G
  <2>1. p \in Text /\ x \in Units
    BY <1>1, SeqMonotonic DEF Text
  <2> DEFINE l == Append(p, x)
             a == P \o p
             b == v \o p
  <2>2. Same(P \o l, Append(a, x)) /\ Same(v \o l, Append(b, x))
    BY <1>1, <2>1, AppendToConcat DEF Same, Text
  <2>3. a \in Text /\ Reads(a, k, b, T)
    BY <1>3, <2>1, TextOps
  <2> HIDE DEF a, b
  <2>4. Reads(Append(a, x), k, Append(b, x), T)
    BY <2>3, PlainUnit
  <2>5. l \in Seq(Plain)
    BY AppendProperties
  <2> HIDE DEF l
  <2>6. Good(l)
    BY <2>2, <2>4 DEF Same
  <2> QED
    BY <2>5, <2>6 DEF l
<1>4. \A x \in Seq(Plain) : x \in G
  <2> HIDE DEF G
  <2> QED
    BY <1>2, <1>3, SeqInduction
<1> QED
  BY <1>4

\* A space ends a token, and "~" begins one.
LEMMA ReadsSpace ==
  ASSUME NEW P \in Text, NEW k, NEW v, NEW T, Reads(P, k, v, T), v = <<>> => k = "none"
  PROVE  Reads(Append(P, "sp"), "none", <<>>, Ended(T, k, v))
<1>1. PICK u : Runs(Start, P, u) /\ Holds(u, k, v, T)
  BY DEF Reads
<1>2. u \in States /\ u.where = "none" /\ "sp" \in Units
  BY <1>1, UnitsHave DEF Holds, Marks
<1>3. Token(u, "sp") = EndToken(u) /\ EndToken(u) \in States
  <2>1. Token(u, "sp") = InNone(u, "sp")
    BY <1>2, TokenIs
  <2> QED
    BY <1>2, <2>1, StateType DEF InNone
<1>4. Holds(EndToken(u), "none", <<>>, Ended(T, k, v))
  <2>1. CASE v = <<>>
    BY <1>1, <1>3, <2>1 DEF Holds, EndToken, Ended
  <2>2. CASE v # <<>>
    <3> DEFINE t == [type |-> k, value |-> v]
               l == Append(T, t)
    <3>1. EndToken(u) = [u EXCEPT !.tokens = l, !.value = <<>>, !.type = "none"] /\ Ended(T, k, v) = l
      BY <1>1, <2>2 DEF Holds, EndToken, Ended
    <3> HIDE DEF l
    <3> QED
      BY <1>1, <1>3, <3>1 DEF Holds, States
  <2> QED
    BY <2>1, <2>2
<1> QED
  BY <1>1, <1>2, <1>3, <1>4, ReadsUnit

\* A handle begins.
LEMMA ReadsTilde ==
  ASSUME NEW P \in Text, NEW T, Reads(P, "none", <<>>, T)
  PROVE  Reads(Append(P, "~"), "handle", <<"~">>, T)
<1>1. PICK u : Runs(Start, P, u) /\ Holds(u, "none", <<>>, T)
  BY DEF Reads
<1>2. u \in States /\ u.where = "none" /\ "~" \in Units /\ u.value = <<>>
  BY <1>1, UnitsHave DEF Holds, Marks
<1> DEFINE p == Push(u, "~")
<1>3. Token(u, "~") = [p EXCEPT !.type = "handle"] /\ p \in States
  <2>1. Token(u, "~") = InNone(u, "~")
    BY <1>2, TokenIs
  <2> QED
    BY <1>2, <2>1, StateType DEF InNone
<1>4. p.value = <<"~">> /\ p.where = "none" /\ p.tokens = T
  <2>1. Append(<<>>, "~") = <<"~">>
    OBVIOUS
  <2> QED
    BY <1>1, <1>2, <2>1 DEF Holds, Push, States
<1> HIDE DEF p
<1>5. Holds([p EXCEPT !.type = "handle"], "handle", <<"~">>, T)
  BY <1>3, <1>4 DEF Holds, States, Kinds
<1> QED
  BY <1>1, <1>2, <1>3, <1>5, ReadsUnit

\* The end of the text ends the last token.
LEMMA ReadsEnd ==
  ASSUME NEW P \in Text, NEW k, NEW v, NEW T, Reads(P, k, v, T)
  PROVE  tokenize(P) = Ended(T, k, v)
<1>1. PICK u : Runs(Start, P, u) /\ Holds(u, k, v, T)
  BY DEF Reads
<1>2. tokenize(P) = EndToken(CloseAll(u)).tokens
  BY <1>1, TokenizeIs
<1>3. CloseAll(u) = u
  BY <1>1 DEF CloseAll, Holds
<1>4. EndToken(u).tokens = Ended(T, k, v)
  <2>1. CASE v = <<>>
    BY <1>1, <2>1 DEF Holds, EndToken, Ended
  <2>2. CASE v # <<>>
    <3> DEFINE t == [type |-> k, value |-> v]
               l == Append(T, t)
    <3>1. EndToken(u) = [u EXCEPT !.tokens = l, !.value = <<>>, !.type = "none"] /\ Ended(T, k, v) = l
      BY <1>1, <2>2 DEF Holds, EndToken, Ended
    <3> HIDE DEF l
    <3> QED
      BY <1>1, <3>1 DEF Holds, States
  <2> QED
    BY <2>1, <2>2
<1> QED
  BY <1>2, <1>3, <1>4

----------------------------------------------------------------------------
(* The first two tokens *)

\* Tokens stay as they are.
Starts(T, a, b) == T \in Seq(Tokens) /\ Len(T) >= 2 /\ T[1] = a /\ T[2] = b

\* One token more.
LEMMA StartsAppend ==
  ASSUME NEW T, NEW a, NEW b, Starts(T, a, b), NEW t \in Tokens
  PROVE  Starts(Append(T, t), a, b)
<1>1. PICK n \in Nat : n = Len(T) /\ n >= 2
  BY LenProperties DEF Starts
<1>2. /\ Append(T, t) \in Seq(Tokens) /\ Len(Append(T, t)) = n + 1
      /\ \A i \in 1 .. n : Append(T, t)[i] = T[i]
  BY <1>1, AppendProperties DEF Starts
<1>3. n + 1 >= 2 /\ 1 \in 1 .. n /\ 2 \in 1 .. n
  BY <1>1
<1> QED
  BY <1>2, <1>3 DEF Starts

\* The end of a token.
LEMMA StartsEnd ==
  ASSUME NEW s \in States, NEW a, NEW b, Starts(s.tokens, a, b)
  PROVE  Starts(EndToken(s).tokens, a, b)
<1> DEFINE t == [type |-> s.type, value |-> s.value]
           l == Append(s.tokens, t)
<1>1. t \in Tokens
  BY DEF States, Tokens
<1>2. Starts(l, a, b)
  <2> HIDE DEF t
  <2> QED
    BY <1>1, StartsAppend
<1>3. EndToken(s) = s \/ EndToken(s) = [s EXCEPT !.tokens = l, !.value = <<>>, !.type = "none"]
  BY DEF EndToken
<1> HIDE DEF l
<1>4. [s EXCEPT !.tokens = l, !.value = <<>>, !.type = "none"].tokens = l
  BY DEF States
<1> QED
  BY <1>2, <1>3, <1>4

\* One unit.
LEMMA StartsUnit ==
  ASSUME NEW s \in States, NEW a, NEW b, Starts(s.tokens, a, b), NEW c \in Units
  PROVE  Starts(Token(s, c).tokens, a, b)
<1> DEFINE p == Push(s, c)
<1>1. p \in States /\ p.tokens = s.tokens
  BY StateType DEF Push, States
<1>2. InBrackets(s, c).tokens = s.tokens
  <2> DEFINE n == s.depth
  <2> HIDE DEF n
  <2>1. /\ n \in Nat
        /\ c = s.bracket => InBrackets(s, c) = [p EXCEPT !.depth = n + 1]
        /\ c = Closer(s.bracket) /\ n = 1 => InBrackets(s, c) = [p EXCEPT !.depth = 0, !.where = "none"]
        /\ c = Closer(s.bracket) /\ n > 1 => InBrackets(s, c) = [p EXCEPT !.depth = n - 1]
        /\ c # s.bracket /\ ~(c = Closer(s.bracket) /\ n >= 1) => InBrackets(s, c) = p
    BY InBracketsIs, Zenon DEF n
  <2> HIDE DEF p
  <2>2. \A k : [p EXCEPT !.depth = k].tokens = s.tokens
    BY <1>1 DEF States
  <2>3. [p EXCEPT !.depth = 0, !.where = "none"].tokens = s.tokens
    BY <1>1 DEF States
  <2> QED
    BY <1>1, <2>1, <2>2, <2>3, OneOrMany, Zenon
<1>3. InNone(s, c) = EndToken(s) \/ InNone(s, c).tokens = s.tokens
  <2>1. /\ \A w : [s EXCEPT !.where = w].tokens = s.tokens /\ [p EXCEPT !.where = w].tokens = s.tokens
        /\ \A w : [p EXCEPT !.type = w].tokens = s.tokens
        /\ \A w : [p EXCEPT !.where = "brackets", !.bracket = w, !.depth = 1].tokens = s.tokens
    <3> HIDE DEF p
    <3> QED
      BY <1>1 DEF States
  <2>2. CASE c \in {"sp", "dq", "sq"}
    BY <2>1, <2>2 DEF InNone
  <2>3. CASE c \in Brackets
    <3>1. InNone(s, c) = [p EXCEPT !.where = "brackets", !.bracket = c, !.depth = 1]
      BY <2>3 DEF InNone, p, Brackets
    <3> QED
      BY <2>1, <3>1
  <2>4. c = "=" => InNone(s, c) = [p EXCEPT !.type = "arg"]
    BY InNoneIs, Zenon DEF p
  <2>5. c = "<<" => InNone(s, c) = [p EXCEPT !.where = "triangles"]
    BY DEF InNone, p
  <2>6. CASE c = "~"
    <3>1. InNone(s, c) = [p EXCEPT !.type = "handle"] \/ InNone(s, c) = p
      BY <2>6 DEF InNone, p
    <3> QED
      BY <1>1, <2>1, <3>1
  <2>7. c \notin Brackets \cup {"~", "sp", "dq", "sq", "=", "<<"} => InNone(s, c) = p
    BY InNoneIs DEF p
  <2> HIDE DEF p
  <2>8. c \in {"=", "<<"} \/ c \notin Brackets \cup {"~", "sp", "dq", "sq", "=", "<<"} => InNone(s, c).tokens = s.tokens
    BY <1>1, <2>1, <2>4, <2>5, <2>7
  <2> QED
    BY <2>2, <2>3, <2>6, <2>8
<1>4. s.where \in {"none", "quotes", "s_quotes", "brackets", "triangles"}
  BY DEF States, Places
<1>5. [s EXCEPT !.where = "none"].tokens = s.tokens /\ [p EXCEPT !.where = "none"].tokens = s.tokens
  <2> HIDE DEF p
  <2> QED
    BY <1>1 DEF States
<1>6. Token(s, c) = EndToken(s) \/ Token(s, c).tokens = s.tokens
  BY <1>1, <1>2, <1>3, <1>4, <1>5, TokenIs
<1> QED
  BY <1>6, StartsEnd

\* More text.
LEMMA StartsRun ==
  ASSUME NEW s \in States, NEW a, NEW b, Starts(s.tokens, a, b), NEW w \in Text
  PROVE  \A u : Runs(s, w, u) => u \in States /\ Starts(u.tokens, a, b)
<1> DEFINE Good(x) == \A u : Runs(s, x, u) => u \in States /\ Starts(u.tokens, a, b)
           G == {x \in Text : Good(x)}
<1>1. <<>> \in G
  <2>1. Good(<<>>)
    BY RunsEmpty
  <2> QED
    BY <2>1, TextOps
<1>2. ASSUME NEW p \in Text, NEW x \in Units, p \in G PROVE Append(p, x) \in G
  <2> DEFINE l == Append(p, x)
  <2>1. ASSUME NEW u, Runs(s, l, u) PROVE u \in States /\ Starts(u.tokens, a, b)
    <3>1. PICK v \in States : Runs(s, p, v) /\ u = Token(v, x)
      BY <2>1, RunsBack
    <3>2. Starts(v.tokens, a, b)
      BY <1>2, <3>1
    <3> QED
      BY <3>1, <3>2, StartsUnit, TokenType
  <2>2. l \in Text
    BY TextOps
  <2> HIDE DEF l
  <2>3. Good(l)
    BY <2>1
  <2> QED
    BY <2>2, <2>3 DEF l
<1>3. \A x \in Text : x \in G
  <2> HIDE DEF G
  <2> QED
    BY <1>1, <1>2, SeqInduction DEF Text
<1> QED
  BY <1>3

\* All that follows leaves the first two tokens alone.
LEMMA StartsTokenize ==
  ASSUME NEW P \in Text, NEW w \in Text, NEW k, NEW v, NEW T, Reads(P, k, v, T),
         NEW a, NEW b, Starts(T, a, b)
  PROVE  Starts(tokenize(P \o w), a, b)
<1>1. PICK u : Runs(Start, P, u) /\ Holds(u, k, v, T)
  BY DEF Reads
<1>2. u \in States /\ Starts(u.tokens, a, b) /\ Start \in States
  BY <1>1, StateType DEF Holds
<1>3. PICK x \in States : Runs(u, w, x)
  BY <1>2, RunsOne
<1> DEFINE t == P \o w
<1>4. t \in Text /\ Runs(Start, t, x)
  BY <1>1, <1>2, <1>3, RunsConcat, TextOps
<1> HIDE DEF t
<1>5. tokenize(t) = EndToken(CloseAll(x)).tokens
  BY <1>4, TokenizeIs
<1>6. Starts(x.tokens, a, b)
  BY <1>2, <1>3, StartsRun
<1>7. CloseAll(x) \in States /\ CloseAll(x).tokens = x.tokens
  <2>1. CASE x.where = "brackets"
    <3> DEFINE n == x.depth
               c == [i \in 1 .. n |-> Closer(x.bracket)]
               e == x.value \o c
    <3>1. n \in Nat /\ Closer(x.bracket) \in Units
      BY UnitsHave DEF States, Closer, Marks
    <3>2. c \in Text
      BY <3>1 DEF Text
    <3> HIDE DEF c
    <3>3. e \in Text
      BY <3>2, TextOps DEF States
    <3> HIDE DEF e
    <3>4. CloseAll(x) = [x EXCEPT !.value = e]
      BY <2>1 DEF CloseAll, e, c
    <3> QED
      BY <3>3, <3>4 DEF States
  <2>2. CASE x.where = "triangles"
    <3>1. CloseAll(x) = Push(x, ">>") /\ Push(x, ">>") \in States
      BY <2>2, StateType, UnitsHave DEF CloseAll, Marks
    <3> QED
      BY <3>1 DEF Push, States
  <2>3. CASE x.where \notin {"brackets", "triangles"}
    BY <2>3 DEF CloseAll
  <2> QED
    BY <2>1, <2>2, <2>3
<1> QED
  BY <1>5, <1>6, <1>7, StartsEnd DEF t

----------------------------------------------------------------------------
(* The tokens of a type *)

Picked(t, k) == Optional(t.type = k, <<t>>)

\* The tokens of a type, one token after the other.
LEMMA OfTypeAppend ==
  ASSUME NEW T \in Seq(Tokens), NEW t \in Tokens, NEW k
  PROVE  /\ OfType(T, k) \in Seq(Tokens)
         /\ OfType(<<>>, k) = <<>>
         /\ Same(OfType(Append(T, t), k), OfType(T, k) \o Picked(t, k))
         /\ Picked(t, k) \in Seq(Tokens)
<1> DEFINE M(s) == [i \in DOMAIN s |-> Optional(s[i].type = k, <<s[i]>>)]
           W == Seq(Tokens)
<1>1. \A x \in Tokens : Optional(x.type = k, <<x>>) \in W
  BY EmptySeq DEF Optional
<1>2. \A s \in Seq(Tokens) : M(s) \in Seq(W) /\ Len(M(s)) = Len(s)
                             /\ \A i \in 1 .. Len(s) : M(s)[i] = Optional(s[i].type = k, <<s[i]>>)
  <2> SUFFICES ASSUME NEW s \in Seq(Tokens)
               PROVE  M(s) \in Seq(W) /\ Len(M(s)) = Len(s)
                      /\ \A i \in 1 .. Len(s) : M(s)[i] = Optional(s[i].type = k, <<s[i]>>)
    OBVIOUS
  <2>1. PICK n \in Nat : n = Len(s) /\ DOMAIN s = 1 .. n /\ \A i \in 1 .. n : s[i] \in Tokens
    BY LenProperties, ElementOfSeq
  <2> DEFINE f == [i \in 1 .. n |-> Optional(s[i].type = k, <<s[i]>>)]
  <2>2. f \in [1 .. n -> W] /\ M(s) = f /\ \A i \in 1 .. n : f[i] = Optional(s[i].type = k, <<s[i]>>)
    <3> HIDE DEF W
    <3> QED
      BY <1>1, <2>1
  <2> HIDE DEF f, W, M
  <2>3. f \in Seq(W) /\ Len(f) = n
    BY <2>2, FunctionIsSeq
  <2> QED
    BY <2>1, <2>2, <2>3
<1> DEFINE a == Append(T, t)
<1>3. a \in Seq(Tokens) /\ Len(a) = Len(T) + 1 /\ a[Len(T) + 1] = t /\ \A i \in 1 .. Len(T) : a[i] = T[i]
  BY AppendProperties
<1>4. M(a) = Append(M(T), Optional(t.type = k, <<t>>))
  <2> DEFINE o == Optional(t.type = k, <<t>>)
  <2>1. PICK n \in Nat : n = Len(T)
    BY LenProperties
  <2>2. o \in W
    BY <1>1
  <2> HIDE DEF o, W
  <2>3. /\ M(T) \in Seq(W) /\ M(a) \in Seq(W) /\ Len(M(T)) = n /\ Len(M(a)) = n + 1
        /\ \A i \in 1 .. n : M(T)[i] = Optional(T[i].type = k, <<T[i]>>)
        /\ \A i \in 1 .. n + 1 : M(a)[i] = Optional(a[i].type = k, <<a[i]>>)
    BY <1>2, <1>3, <2>1
  <2> DEFINE b == Append(M(T), o)
  <2>4. /\ b \in Seq(W) /\ Len(b) = n + 1 /\ b[n + 1] = o
        /\ \A i \in 1 .. n : b[i] = M(T)[i]
    <3> HIDE DEF M
    <3> QED
      BY <2>2, <2>3, AppendProperties
  <2>5. \A i \in 1 .. n + 1 : M(a)[i] = b[i]
    <3> SUFFICES ASSUME NEW i \in 1 .. n + 1 PROVE M(a)[i] = b[i]
      OBVIOUS
    <3>1. CASE i = n + 1
      <4>1. M(a)[i] = Optional(a[i].type = k, <<a[i]>>) /\ a[i] = t
        BY <1>3, <2>1, <2>3, <3>1
      <4> HIDE DEF M, a, b
      <4> QED
        BY <2>4, <3>1, <4>1 DEF o
    <3>2. CASE i # n + 1
      <4>1. i \in 1 .. n
        BY <3>2
      <4>2. M(a)[i] = Optional(a[i].type = k, <<a[i]>>) /\ a[i] = T[i]
        BY <1>3, <2>1, <2>3, <4>1
      <4> HIDE DEF M, a, b
      <4> QED
        BY <2>3, <2>4, <4>1, <4>2
    <3> QED
      BY <3>1, <3>2
  <2> DEFINE x == M(a)
  <2>6. x = b
    <3> HIDE DEF M, a, b, x
    <3>1. x \in Seq(W) /\ Len(x) = n + 1 /\ \A i \in 1 .. n + 1 : x[i] = b[i]
      BY <2>3, <2>5 DEF x
    <3> QED
      BY <2>4, <3>1, SeqEqual
  <2> QED
    BY <2>6 DEF o
<1>5. OfType(T, k) = FlattenSeq(M(T)) /\ OfType(a, k) = FlattenSeq(M(a)) /\ OfType(<<>>, k) = FlattenSeq(M(<<>>))
  BY DEF OfType
<1>6. M(<<>>) = <<>>
  OBVIOUS
<1>7. M(T) \in Seq(W) /\ <<>> \in Seq(W) /\ Optional(t.type = k, <<t>>) \in W
  BY <1>1, <1>2, EmptySeq
<1>8. FlattenSeq(M(T)) \in Seq(Tokens) /\ FlattenSeq(<<>>) = <<>>
  <2> HIDE DEF M
  <2> QED
    BY <1>7, FlattenType
<1>9. FlattenSeq(Append(M(T), Optional(t.type = k, <<t>>))) = FlattenSeq(M(T)) \o Optional(t.type = k, <<t>>)
  <2> HIDE DEF M
  <2> QED
    BY <1>7, FlattenAppend
<1> HIDE DEF M
<1> QED
  BY <1>4, <1>5, <1>6, <1>7, <1>8, <1>9 DEF Same, Picked

\* A token is among those of its type.
LEMMA OfTypeHas ==
  ASSUME NEW k, NEW x \in Tokens, x.type = k
  PROVE  \A T \in Seq(Tokens) : Contains(T, x) => Contains(OfType(T, k), x)
<1> DEFINE Good(T) == Contains(T, x) => Contains(OfType(T, k), x)
           G == {T \in Seq(Tokens) : Good(T)}
<1>1. <<>> \in G
  <2>1. ~Contains(<<>>, x)
    BY DEF Contains
  <2> QED
    BY <2>1, EmptySeq
<1>2. ASSUME NEW p \in Seq(Tokens), NEW t \in Tokens, p \in G PROVE Append(p, t) \in G
  <2> DEFINE l == Append(p, t)
             o == OfType(p, k)
             q == Picked(t, k)
  <2>1. o \in Seq(Tokens) /\ q \in Seq(Tokens) /\ Same(OfType(l, k), o \o q)
    BY OfTypeAppend
  <2>2. l = p \o <<t>> /\ <<t>> \in Seq(Tokens)
    BY AppendOne
  <2>3. Contains(l, x) <=> Contains(p, x) \/ x = t
    <3>1. Contains(p \o <<t>>, x) <=> Contains(p, x) \/ Contains(<<t>>, x)
      BY <2>2, Joined
    <3>2. Contains(<<t>>, x) <=> x = t
      BY Single
    <3> QED
      BY <2>2, <3>1, <3>2
  <2>4. t = x => q = <<x>>
    BY DEF Picked, Optional
  <2>5. Contains(<<x>>, x)
    BY Single
  <2> HIDE DEF o, q, l
  <2>6. Contains(o \o q, x) <=> Contains(o, x) \/ Contains(q, x)
    BY <2>1, Joined
  <2>7. Good(l)
    BY <1>2, <2>1, <2>3, <2>4, <2>5, <2>6 DEF Same, o
  <2>8. l \in Seq(Tokens)
    BY AppendProperties DEF l
  <2> QED
    BY <2>7, <2>8 DEF l
<1>3. \A x_1 \in Seq(Tokens) : x_1 \in G
  <2> HIDE DEF G
  <2> QED
    BY <1>1, <1>2, SeqInduction
<1> QED
  BY <1>3

----------------------------------------------------------------------------
(* What the parser takes a response for *)

StatusWord(m) == IF m.type = "error" THEN "error" ELSE "ok"
AddressToken(m) == [type |-> "handle", value |-> Addressed(m)]
StatusToken(m)  == [type |-> "none", value |-> <<StatusWord(m)>>]

\* How a response begins is read as its address, and the status word.
LEMMA AnswerTokens ==
  ASSUME NEW m \in Sendable, Response(m), m.handle # <<>>
  PROVE  /\ Reads(Answer(m), "none", <<StatusWord(m)>>, <<AddressToken(m)>>)
         /\ AddressToken(m) \in Tokens /\ StatusToken(m) \in Tokens
<1> DEFINE h == m.handle
           c == m.command
           a == <<"~">> \o h
           b == a \o <<":">>
           A == b \o c
           w == <<StatusWord(m)>>
<1>1. Units \ Marks \subseteq Plain /\ ":" \in Plain /\ StatusWord(m) \in Plain /\ "~" \in Units /\ "sp" \in Units
      /\ StatusWord(m) \in Units
  BY UnitsHave DEF Plain, Brackets, Marks, Common, StatusWord
<1>2. h \in Seq(Plain) /\ c \in Seq(Plain) /\ <<":">> \in Seq(Plain) /\ w \in Seq(Plain)
  <2>1. h \in Name /\ c \in Name
    BY DEF Sendable
  <2> QED
    BY <1>1, <2>1, NameIn
<1>3. Plain \subseteq Units
  BY DEF Plain
<1>4. h \in Text /\ c \in Text /\ <<":">> \in Text /\ w \in Text /\ <<"~">> \in Text
  <2>1. \A s \in Seq(Plain) : s \in Text
    BY <1>3, SeqMonotonic DEF Text
  <2> QED
    BY <1>1, <1>2, <2>1, TextOps
<1>5. a \in Text /\ b \in Text /\ A \in Text
  <2>1. a \in Text
    BY <1>4, TextOps
  <2> HIDE DEF a
  <2>2. b \in Text
    BY <1>4, <2>1, TextOps
  <2> HIDE DEF b
  <2> QED
    BY <1>4, <2>1, <2>2, TextOps
<1>6. Reads(<<"~">>, "handle", <<"~">>, <<>>)
  <2>1. Reads(Append(<<>>, "~"), "handle", <<"~">>, <<>>)
    BY ReadsNothing, ReadsTilde, TextOps
  <2>2. Append(<<>>, "~") = <<"~">>
    OBVIOUS
  <2> QED
    BY <2>1, <2>2
<1>7. Reads(a, "handle", a, <<>>)
  BY <1>2, <1>4, <1>6, ReadsPlain
<1>8. Reads(b, "handle", b, <<>>)
  <2> HIDE DEF a
  <2> QED
    BY <1>2, <1>5, <1>7, ReadsPlain
<1>9. Reads(A, "handle", A, <<>>) /\ Addressed(m) = A
  <2>1. Addressed(m) = A
    BY DEF Addressed
  <2> HIDE DEF b
  <2> QED
    BY <1>2, <1>5, <1>8, <2>1, ReadsPlain
<1>10. A # <<>>
  <2>1. a # <<>>
    <3>1. Contains(<<"~">>, "~") /\ Contains(a, "~")
      <4>1. Contains(<<"~">>, "~")
        BY <1>1, Single
      <4> QED
        BY <1>4, <4>1, TextContains
    <3> QED
      BY <3>1, TextContains
  <2>2. Contains(b, ":")
    <3>1. Contains(<<":">>, ":")
      BY <1>1, Single
    <3> HIDE DEF a
    <3> QED
      BY <1>4, <1>5, <3>1, TextContains
  <2>3. Contains(A, ":")
    <3> HIDE DEF b
    <3> QED
      BY <1>4, <1>5, <2>2, TextContains
  <2> QED
    BY <2>3, TextContains
<1> DEFINE s == Append(A, "sp")
           T == <<AddressToken(m)>>
<1> HIDE DEF A, w
<1>11. Ended(<<>>, "handle", A) = T
  <2>1. Ended(<<>>, "handle", A) = Append(<<>>, AddressToken(m))
    BY <1>9, <1>10 DEF Ended, AddressToken
  <2> QED
    BY <2>1
<1>12. Reads(s, "none", <<>>, T) /\ s \in Text
  <2>1. Reads(s, "none", <<>>, Ended(<<>>, "handle", A))
    BY <1>5, <1>9, <1>10, ReadsSpace
  <2> QED
    BY <1>1, <1>5, <1>11, <2>1, TextOps
<1> HIDE DEF s, T
<1>13. Reads(s \o w, "none", <<>> \o w, T)
  BY <1>2, <1>12, ReadsPlain
<1>14. <<>> \o w = w
  BY <1>2, ConcatEmptySeq
<1>15. Same(s \o w, Answer(m))
  <2>1. Answer(m) = A \o <<"sp", StatusWord(m)>>
    BY <1>9 DEF Answer, StatusWord
  <2>2. Same(A \o <<"sp", StatusWord(m)>>, Append(s, StatusWord(m)))
    BY <1>1, <1>5, AppendTwo DEF s
  <2>3. Append(s, StatusWord(m)) = s \o w
    BY <1>1, <1>12, AppendOne DEF w, Text
  <2> QED
    BY <2>1, <2>2, <2>3 DEF Same
<1>16. AddressToken(m) \in Tokens /\ StatusToken(m) \in Tokens
  BY <1>4, <1>5, <1>9 DEF AddressToken, StatusToken, Tokens, Kinds, w
<1> QED
  BY <1>13, <1>14, <1>15, <1>16 DEF Same, w, T

\* Text that begins with a space is a space and more text.
LEMMA SpacedHead ==
  ASSUME NEW w \in Text, Spaced(w), w # <<>>
  PROVE  \E r \in Text : Same(w, <<"sp">> \o r)
<1>1. PICK n \in Nat : n = Len(w) /\ n # 0
  BY LenProperties, EmptySeq DEF Text
<1> DEFINE r == Tail(w)
           s == <<"sp">>
           x == s \o r
<1>2. r \in Text /\ Len(r) = n - 1 /\ \A i \in 1 .. n - 1 : r[i] = w[i + 1]
  BY <1>1, HeadTailProperties DEF Text
<1>3. s \in Text /\ Len(s) = 1 /\ s[1] = "sp"
  BY UnitsHave, TextOps DEF Marks
<1> HIDE DEF r, s
<1>4. x \in Text /\ Len(x) = n /\ x[1] = "sp" /\ \A i \in 1 .. n - 1 : x[i + 1] = r[i]
  <2>0. s \in Seq(Units) /\ r \in Seq(Units)
    BY <1>2, <1>3 DEF Text
  <2>a. /\ x \in Seq(Units) /\ Len(x) = Len(s) + Len(r)
        /\ \A i \in 1 .. Len(s) + Len(r) : x[i] = IF i <= Len(s) THEN s[i] ELSE r[i - Len(s)]
    BY <2>0, ConcatProperties
  <2> HIDE DEF x
  <2>1. x \in Text /\ Len(x) = 1 + (n - 1)
    BY <1>2, <1>3, <2>a DEF Text
  <2>2. \A i \in 1 .. 1 + (n - 1) : x[i] = IF i <= 1 THEN s[i] ELSE r[i - 1]
    BY <1>2, <1>3, <2>a
  <2>3. x[1] = "sp"
    BY <1>1, <1>3, <2>2
  <2>4. ASSUME NEW i \in 1 .. n - 1 PROVE x[i + 1] = r[i]
    <3>1. i + 1 \in 1 .. 1 + (n - 1) /\ ~(i + 1 <= 1) /\ i + 1 - 1 = i
      OBVIOUS
    <3> QED
      BY <2>2, <3>1
  <2> QED
    BY <1>1, <2>1, <2>3, <2>4
<1> HIDE DEF x
<1>5. \A i \in 1 .. n : x[i] = w[i]
  <2> SUFFICES ASSUME NEW i \in 1 .. n PROVE x[i] = w[i]
    OBVIOUS
  <2>1. CASE i = 1
    BY <1>4, <2>1 DEF Spaced
  <2>2. CASE i # 1
    <3>1. PICK k \in 1 .. n - 1 : i = k + 1
      <4>1. i - 1 \in 1 .. n - 1 /\ i = (i - 1) + 1
        BY <2>2
      <4> QED
        BY <4>1
    <3> QED
      BY <1>2, <1>4, <3>1
  <2> QED
    BY <2>1, <2>2
<1>6. x = w
  BY <1>1, <1>4, <1>5, SeqEqual DEF Text
<1> QED
  BY <1>2, <1>6 DEF x, s, Same

\* Two tokens.
LEMMA TwoTokens ==
  ASSUME NEW x \in Tokens, NEW y \in Tokens
  PROVE  Starts(Append(<<x>>, y), x, y)
<1> DEFINE s == <<x>>
           a == Append(s, y)
<1>1. s \in Seq(Tokens) /\ Len(s) = 1 /\ s[1] = x
  BY Single
<1> HIDE DEF s
<1>2. a \in Seq(Tokens)
  BY <1>1, AppendProperties
<1>3. Len(a) = Len(s) + 1
  BY <1>1, AppendProperties
<1>4. \A i \in 1 .. Len(s) : a[i] = s[i]
  BY <1>1, AppendProperties
<1>5. a[Len(s) + 1] = y
  BY <1>1, AppendProperties
<1> HIDE DEF a
<1>6. a[1] = x /\ a[2] = y /\ Len(a) = 2
  BY <1>1, <1>3, <1>4, <1>5
<1> QED
  BY <1>2, <1>6 DEF Starts, s, a

\* These are the first two tokens, whatever follows.
LEMMA BeginsTokens ==
  ASSUME NEW m \in Sendable, Response(m), m.handle # <<>>, NEW text \in Text, Begins(m, text)
  PROVE  Starts(tokenize(text), AddressToken(m), StatusToken(m))
<1> DEFINE P == Answer(m)
           v == <<StatusWord(m)>>
           T == <<AddressToken(m)>>
           E == Append(T, StatusToken(m))
<1>1. /\ P \in Text /\ Reads(P, "none", v, T) /\ v # <<>>
      /\ AddressToken(m) \in Tokens /\ StatusToken(m) \in Tokens
  BY AnswerIs, AnswerTokens
<1>2. PICK w \in Text : Same(text, P \o w) /\ Spaced(w)
  BY DEF Begins
<1>3. Ended(T, "none", v) = E
  BY DEF Ended, StatusToken
<1>4. Starts(E, AddressToken(m), StatusToken(m))
  BY <1>1, TwoTokens
<1>5. CASE w = <<>>
  <2>1. text = P
    BY <1>1, <1>2, <1>5, ConcatEmptySeq DEF Same, Text
  <2>2. tokenize(P) = Ended(T, "none", v)
    <3> HIDE DEF P, T, v
    <3> QED
      BY <1>1, ReadsEnd
  <2> QED
    BY <1>3, <1>4, <2>1, <2>2
<1>6. CASE w # <<>>
  <2>1. PICK r \in Text : Same(w, <<"sp">> \o r)
    BY <1>2, <1>6, SpacedHead
  <2> DEFINE Q == Append(P, "sp")
  <2>2. Q \in Text /\ Reads(Q, "none", <<>>, E) /\ "sp" \in Units
    <3>1. Reads(Q, "none", <<>>, Ended(T, "none", v))
      <4> HIDE DEF P, T, v
      <4> QED
        BY <1>1, ReadsSpace
    <3> QED
      BY <1>1, <1>3, <3>1, TextOps, UnitsHave DEF Marks
  <2>3. Same(P \o (<<"sp">> \o r), (P \o <<"sp">>) \o r) /\ P \o <<"sp">> = Q
    <3>1. <<"sp">> \in Text
      BY <2>2, TextOps
    <3> HIDE DEF P, Q
    <3>2. Same((P \o <<"sp">>) \o r, P \o (<<"sp">> \o r))
      BY <1>1, <3>1, TextAssociative
    <3>3. P \o <<"sp">> = Append(P, "sp")
      BY <1>1, <2>2, AppendOne DEF Text
    <3> QED
      BY <3>2, <3>3 DEF Same, Q
  <2>4. text = Q \o r
    BY <1>2, <2>1, <2>3 DEF Same
  <2> HIDE DEF Q, E, P
  <2>5. Starts(tokenize(Q \o r), AddressToken(m), StatusToken(m))
    BY <1>4, <2>2, StartsTokenize
  <2> QED
    BY <2>4, <2>5
<1> QED
  BY <1>5, <1>6

\* build makes a response of them, and a flag of the second.
LEMMA BuildIs ==
  ASSUME NEW T, NEW a, NEW b, Starts(T, a, b), a.type = "handle", b.type = "none"
  PROVE  build(T).type = "response" /\ Contains(build(T).flags, b.value)
<1>1. PICK n \in Nat : n = Len(T) /\ n >= 2 /\ DOMAIN T = 1 .. n /\ \A i \in 1 .. n : T[i] \in Tokens
  BY LenProperties, ElementOfSeq DEF Starts
<1>2. T # <<>> /\ Head(T) = a /\ T \in Seq(Tokens)
  BY <1>1 DEF Starts
<1>3. TypeOf(a) = "response"
  BY DEF TypeOf
<1> DEFINE rest == SubSeq(T, 2, n)
           words == OfType(rest, "none")
           flags == [i \in DOMAIN words |-> words[i].value]
<1>4. build(T).type = "response" /\ build(T).flags = flags
  BY <1>1, <1>2, <1>3 DEF build
<1>5. rest \in Seq(Tokens) /\ Len(rest) = n - 1 /\ rest[1] = T[2] /\ 1 \in DOMAIN rest
  <2>1. 2 \in 1 .. n + 1 /\ n \in 2 - 1 .. n
    BY <1>1
  <2>2. rest \in Seq(Tokens) /\ Len(rest) = n - 2 + 1
    BY <1>1, <1>2, SubSeqProperties
  <2>3. 1 \in 1 .. n - 2 + 1
    BY <1>1
  <2>4. rest[1] = T[2 + 1 - 1]
    BY <1>1, <1>2, <2>2, <2>3, SubSeqProperties
  <2> HIDE DEF rest
  <2> QED
    BY <1>1, <2>2, <2>3, <2>4, LenProperties
<1>6. T[2] = b /\ b \in Tokens /\ Contains(rest, b)
  <2>1. T[2] = b /\ 2 \in 1 .. n
    BY <1>1 DEF Starts
  <2>2. b \in Tokens
    BY <1>1, <2>1
  <2> HIDE DEF rest
  <2> QED
    BY <1>5, <2>1, <2>2 DEF Contains
<1> HIDE DEF rest
<1>7. Contains(words, b)
  BY <1>5, <1>6, OfTypeHas
<1> HIDE DEF words
<1>8. Contains(flags, b.value)
  <2>1. PICK i \in DOMAIN words : words[i] = b
    BY <1>7 DEF Contains
  <2>2. i \in DOMAIN flags /\ flags[i] = b.value
    BY <2>1
  <2> QED
    BY <2>2 DEF Contains
<1> QED
  BY <1>4, <1>8

\* What the handlers get of a response is of the kind that was sent.
LEMMA StatusIs ==
  ASSUME NEW m \in Sendable, Response(m), m.handle # <<>>, NEW text \in Text, Begins(m, text),
         ~Malformed(parse(text))
  PROVE  Received(parse(text)).type = m.type
<1> DEFINE p == parse(text)
<1>1. p.type = "response" /\ Contains(p.flags, <<StatusWord(m)>>)
  <2>1. Starts(tokenize(text), AddressToken(m), StatusToken(m))
    BY BeginsTokens
  <2>2. AddressToken(m).type = "handle" /\ StatusToken(m).type = "none" /\ StatusToken(m).value = <<StatusWord(m)>>
    BY DEF AddressToken, StatusToken
  <2> QED
    BY <2>1, <2>2, BuildIs DEF parse
<1> HIDE DEF p
<1>2. ~(HasFlag(p, "ok") <=> HasFlag(p, "error"))
  BY <1>1 DEF Malformed, BadResponse, p
<1>3. CASE m.type = "error"
  <2>1. HasFlag(p, "error")
    BY <1>1, <1>3 DEF HasFlag, StatusWord
  <2>2. Received(p) = errorOf(p)
    BY <1>1, <2>1 DEF Received
  <2> QED
    BY <1>3, <2>2 DEF errorOf, Create, p
<1>4. CASE m.type # "error"
  <2>1. m.type = "response" /\ HasFlag(p, "ok") /\ ~HasFlag(p, "error")
    BY <1>1, <1>2, <1>4 DEF HasFlag, StatusWord, Response
  <2>2. Received(p) = responseOf(p)
    BY <1>1, <2>1 DEF Received
  <2> QED
    BY <2>1, <2>2 DEF responseOf, Create, p
<1> QED
  BY <1>3, <1>4

\* A response is never received as an error, nor an error as a response, as long
\* as blocks end where they should.
THEOREM StatusHolds == Spec => []StatusNeverFlips
<1>1. NextInv => StatusNeverFlips
  <2> SUFFICES ASSUME NextInv, Quiet, sent.type \in {"response", "error"}, sent.handle # <<>>,
                      NoStrayBlock(sent), BlocksHold(sent),
                      NEW o \in ToSet(output), o.kind = "message"
               PROVE  Received(parse(o.text)).type \in {sent.type, Follower.type}
    BY DEF StatusNeverFlips
  <2>1. TypeInv /\ sent \in Sendable /\ output \in Seq(Outputs) /\ \A i \in 1 .. Len(output) : Faithful(output[i])
    BY DEF NextInv, RawInv, TypeInv
  <2>9. Heads
    BY QuietIs
  <2>2. PICK n \in Nat : n = Len(output) /\ DOMAIN output = 1 .. n
    BY <2>1, LenProperties
  <2>3. PICK i \in 1 .. n : o = output[i]
    BY <2>2 DEF ToSet
  <2>4. o.text \in Text
    <3>1. o \in Outputs
      BY <2>1, <2>2, <2>3, ElementOfSeq
    <3> QED
      BY <3>1 DEF Outputs
  <2>5. ~Malformed(parse(o.text))
    BY <2>1, <2>2, <2>3 DEF Faithful
  <2>6. Begins(sent, o.text) \/ o.text = FollowerText
    BY <2>9, <2>2, <2>3 DEF Heads, Response
  <2>7. CASE Begins(sent, o.text)
    BY <2>1, <2>4, <2>5, <2>7, StatusIs DEF Response
  <2>8. CASE o.text = FollowerText
    BY <2>8, FollowerTextIs
  <2> QED
    BY <2>6, <2>7, <2>8
<1> QED
  BY <1>1, NextInvHolds, PTL

----------------------------------------------------------------------------
(* Quotes and blocks *)

\* P leads into quotes or a block, w.
Sits(P, w, k, v, T) ==
  \E u \in States : Runs(Start, P, u) /\ u.where = w /\ u.type = k /\ u.value = v /\ u.tokens = T

\* What ends them.
Ends(w) == CASE w = "quotes" -> "dq" [] w = "s_quotes" -> "sq" [] OTHER -> ">>"

\* What the tokenizer makes of one unit.
LEMMA SitsUnit ==
  ASSUME NEW P \in Text, NEW c \in Units, NEW u \in States, Runs(Start, P, u)
  PROVE  /\ Token(u, c) \in States /\ Runs(Start, Append(P, c), Token(u, c))
         /\ Push(u, c).where = u.where /\ Push(u, c).type = u.type /\ Push(u, c).tokens = u.tokens
         /\ Push(u, c).value = Append(u.value, c) /\ Push(u, c) \in States
<1>1. Token(u, c) \in States /\ Push(u, c) \in States
  BY TokenType, StateType
<1>2. Runs(Start, Append(P, c), Token(u, c))
  BY StateType, RunsAppend
<1>3. /\ Push(u, c).where = u.where /\ Push(u, c).type = u.type /\ Push(u, c).tokens = u.tokens
      /\ Push(u, c).value = Append(u.value, c)
  BY DEF Push, States
<1> QED
  BY <1>1, <1>2, <1>3

\* An equals sign makes the token an arg.
LEMMA ReadsEquals ==
  ASSUME NEW P \in Text, NEW k, NEW v, NEW T, Reads(P, k, v, T)
  PROVE  Reads(Append(P, "="), "arg", Append(v, "="), T)
<1>1. PICK u : Runs(Start, P, u) /\ Holds(u, k, v, T)
  BY DEF Reads
<1>2. u \in States /\ u.where = "none" /\ "=" \in Units
  BY <1>1, UnitsHave DEF Holds, Marks
<1> DEFINE p == Push(u, "=")
<1>3. Token(u, "=") = [p EXCEPT !.type = "arg"] /\ p \in States
  <2>1. Token(u, "=") = InNone(u, "=")
    BY <1>2, TokenIs
  <2> QED
    BY <1>2, <2>1, StateType, InNoneIs
<1>4. p.value = Append(v, "=") /\ p.where = "none" /\ p.tokens = T
  BY <1>1, <1>2, SitsUnit DEF Holds
<1> HIDE DEF p
<1>5. Holds([p EXCEPT !.type = "arg"], "arg", Append(v, "="), T)
  BY <1>3, <1>4 DEF Holds, States, Kinds
<1> QED
  BY <1>1, <1>2, <1>3, <1>5, ReadsUnit

\* Quotes begin without a unit of their own in the token, a block with one.
LEMMA SitsBegin ==
  ASSUME NEW P \in Text, NEW k, NEW v, NEW T, Reads(P, k, v, T)
  PROVE  /\ Sits(Append(P, "dq"), "quotes", k, v, T)
         /\ Sits(Append(P, "sq"), "s_quotes", k, v, T)
         /\ Sits(Append(P, "<<"), "triangles", k, Append(v, "<<"), T)
<1>1. PICK u : Runs(Start, P, u) /\ Holds(u, k, v, T)
  BY DEF Reads
<1>2. u \in States /\ u.where = "none" /\ u.type = k /\ u.value = v /\ u.tokens = T
  BY <1>1 DEF Holds
<1>3. "dq" \in Units /\ "sq" \in Units /\ "<<" \in Units
  BY UnitsHave DEF Marks
<1>4. Sits(Append(P, "dq"), "quotes", k, v, T)
  <2>0. Token(u, "dq") = InNone(u, "dq")
    BY <1>2, TokenIs
  <2>1. Token(u, "dq") = [u EXCEPT !.where = "quotes"]
    BY <2>0 DEF InNone
  <2>2. Token(u, "dq") \in States /\ Runs(Start, Append(P, "dq"), Token(u, "dq"))
    BY <1>1, <1>2, <1>3, SitsUnit
  <2> QED
    BY <1>2, <2>1, <2>2 DEF Sits, States
<1>5. Sits(Append(P, "sq"), "s_quotes", k, v, T)
  <2>0. Token(u, "sq") = InNone(u, "sq")
    BY <1>2, TokenIs
  <2>1. Token(u, "sq") = [u EXCEPT !.where = "s_quotes"]
    BY <2>0 DEF InNone
  <2>2. Token(u, "sq") \in States /\ Runs(Start, Append(P, "sq"), Token(u, "sq"))
    BY <1>1, <1>2, <1>3, SitsUnit
  <2> QED
    BY <1>2, <2>1, <2>2 DEF Sits, States
<1>6. Sits(Append(P, "<<"), "triangles", k, Append(v, "<<"), T)
  <2> DEFINE p == Push(u, "<<")
  <2>0. Token(u, "<<") = InNone(u, "<<")
    BY <1>2, TokenIs
  <2>1. Token(u, "<<") = [p EXCEPT !.where = "triangles"]
    BY <2>0 DEF InNone
  <2>2. Token(u, "<<") \in States /\ Runs(Start, Append(P, "<<"), Token(u, "<<"))
        /\ p.type = k /\ p.value = Append(v, "<<") /\ p.tokens = T /\ p \in States
    BY <1>1, <1>2, <1>3, SitsUnit
  <2> HIDE DEF p
  <2> QED
    BY <2>1, <2>2 DEF Sits, States
<1> QED
  BY <1>4, <1>5, <1>6

\* Everything in between goes into the token.
LEMMA SitsOn ==
  ASSUME NEW P \in Text, NEW w \in {"quotes", "s_quotes", "triangles"}, NEW k, NEW v, NEW T,
         Sits(P, w, k, v, T), NEW c \in Units, c # Ends(w)
  PROVE  Sits(Append(P, c), w, k, Append(v, c), T)
<1>1. PICK u \in States : Runs(Start, P, u) /\ u.where = w /\ u.type = k /\ u.value = v /\ u.tokens = T
  BY DEF Sits
<1>2. Token(u, c) = Push(u, c)
  BY <1>1, TokenIs DEF Ends
<1>3. /\ Runs(Start, Append(P, c), Token(u, c))
      /\ Push(u, c).where = w /\ Push(u, c).type = k /\ Push(u, c).tokens = T
      /\ Push(u, c).value = Append(v, c) /\ Push(u, c) \in States
  BY <1>1, SitsUnit
<1> QED
  BY <1>2, <1>3 DEF Sits

\* Until they end.
LEMMA SitsEnd ==
  ASSUME NEW P \in Text, NEW k, NEW v, NEW T
  PROVE  /\ Sits(P, "quotes", k, v, T) => Reads(Append(P, "dq"), k, v, T)
         /\ Sits(P, "s_quotes", k, v, T) => Reads(Append(P, "sq"), k, v, T)
         /\ Sits(P, "triangles", k, v, T) => Reads(Append(P, ">>"), k, Append(v, ">>"), T)
<1>1. "dq" \in Units /\ "sq" \in Units /\ ">>" \in Units
  BY UnitsHave DEF Marks
<1>2. ASSUME Sits(P, "quotes", k, v, T) PROVE Reads(Append(P, "dq"), k, v, T)
  <2>1. PICK u \in States : Runs(Start, P, u) /\ u.where = "quotes" /\ u.type = k /\ u.value = v /\ u.tokens = T
    BY <1>2 DEF Sits
  <2>2. Token(u, "dq") = [u EXCEPT !.where = "none"]
    BY <2>1, TokenIs
  <2>3. Token(u, "dq") \in States /\ Runs(Start, Append(P, "dq"), Token(u, "dq"))
    BY <1>1, <2>1, SitsUnit
  <2> QED
    BY <2>1, <2>2, <2>3 DEF Reads, Holds, States
<1>3. ASSUME Sits(P, "s_quotes", k, v, T) PROVE Reads(Append(P, "sq"), k, v, T)
  <2>1. PICK u \in States : Runs(Start, P, u) /\ u.where = "s_quotes" /\ u.type = k /\ u.value = v /\ u.tokens = T
    BY <1>3 DEF Sits
  <2>2. Token(u, "sq") = [u EXCEPT !.where = "none"]
    BY <2>1, TokenIs
  <2>3. Token(u, "sq") \in States /\ Runs(Start, Append(P, "sq"), Token(u, "sq"))
    BY <1>1, <2>1, SitsUnit
  <2> QED
    BY <2>1, <2>2, <2>3 DEF Reads, Holds, States
<1>4. ASSUME Sits(P, "triangles", k, v, T) PROVE Reads(Append(P, ">>"), k, Append(v, ">>"), T)
  <2>1. PICK u \in States : Runs(Start, P, u) /\ u.where = "triangles" /\ u.type = k /\ u.value = v /\ u.tokens = T
    BY <1>4 DEF Sits
  <2> DEFINE p == Push(u, ">>")
  <2>2. Token(u, ">>") = [p EXCEPT !.where = "none"]
    BY <2>1, TokenIs
  <2>3. /\ Token(u, ">>") \in States /\ Runs(Start, Append(P, ">>"), Token(u, ">>"))
        /\ p.type = k /\ p.tokens = T /\ p.value = Append(v, ">>") /\ p \in States
    BY <1>1, <2>1, SitsUnit
  <2> HIDE DEF p
  <2> QED
    BY <2>2, <2>3 DEF Reads, Holds, States
<1> QED
  BY <1>2, <1>3, <1>4

\* Text without their end goes into the token as it is.
LEMMA SitsText ==
  ASSUME NEW P \in Text, NEW w \in {"quotes", "s_quotes", "triangles"}, NEW k, NEW v \in Text, NEW T,
         Sits(P, w, k, v, T), NEW x \in Text, ~Contains(x, Ends(w))
  PROVE  Sits(P \o x, w, k, v \o x, T)
<1> DEFINE V == Units \ {Ends(w)}
           Good(s) == Sits(P \o s, w, k, v \o s, T)
           G == {s \in Seq(V) : Good(s)}
<1>1. <<>> \in G
  <2>1. P \o <<>> = P /\ v \o <<>> = v
    BY ConcatEmptySeq DEF Text
  <2>2. Good(<<>>)
    BY <2>1
  <2> QED
    BY <2>2, EmptySeq
<1>2. ASSUME NEW p \in Seq(V), NEW c \in V, p \in G PROVE Append(p, c) \in G
  <2>1. p \in Text /\ c \in Units /\ c # Ends(w)
    <3>1. V \subseteq Units
      OBVIOUS
    <3> QED
      BY <3>1, SeqMonotonic DEF Text
  <2> DEFINE l == Append(p, c)
             a == P \o p
             b == v \o p
  <2>2. Same(P \o l, Append(a, c)) /\ Same(v \o l, Append(b, c))
    BY <2>1, AppendToConcat DEF Same, Text
  <2>3. a \in Text /\ Sits(a, w, k, b, T)
    BY <1>2, <2>1, TextOps
  <2> HIDE DEF a, b
  <2>4. Sits(Append(a, c), w, k, Append(b, c), T)
    BY <2>1, <2>3, SitsOn
  <2>5. l \in Seq(V)
    BY AppendProperties
  <2> HIDE DEF l
  <2>6. Good(l)
    BY <2>2, <2>4 DEF Same
  <2> QED
    BY <2>5, <2>6 DEF l
<1>3. \A s \in Seq(V) : s \in G
  <2> HIDE DEF G
  <2> QED
    BY <1>1, <1>2, SeqInduction
<1>4. x \in Seq(V)
  BY Without DEF Text
<1> QED
  BY <1>3, <1>4

\* A value in quotes, and one in a block.
LEMMA ReadsQuoted ==
  ASSUME NEW P \in Text, NEW k, NEW v, NEW T, Reads(P, k, v, T), NEW x \in Text
  PROVE  /\ ~Contains(x, "dq") => Reads(P \o ((<<"dq">> \o x) \o <<"dq">>), k, v \o x, T)
         /\ ~Contains(x, "sq") => Reads(P \o ((<<"sq">> \o x) \o <<"sq">>), k, v \o x, T)
<1>1. v \in Text /\ "dq" \in Units /\ "sq" \in Units
  BY ReadsType, UnitsHave DEF Marks
<1>2. ASSUME NEW q \in {"dq", "sq"}, ~Contains(x, q)
      PROVE  Reads(P \o ((<<q>> \o x) \o <<q>>), k, v \o x, T)
  <2> DEFINE w == IF q = "dq" THEN "quotes" ELSE "s_quotes"
             a == Append(P, q)
             b == a \o x
             y == v \o x
  <2>1. q \in Units /\ Ends(w) = q /\ w \in {"quotes", "s_quotes", "triangles"} /\ <<q>> \in Text
    BY <1>1, TextOps DEF Ends
  <2>2. a \in Text /\ Sits(a, w, k, v, T)
    BY <2>1, TextOps, SitsBegin
  <2>3. Same(a, P \o <<q>>)
    BY <2>1, TextOps
  <2> HIDE DEF a, w
  <2>4. b \in Text /\ Sits(b, w, k, y, T) /\ Same(Append(b, q), b \o <<q>>)
    BY <1>1, <1>2, <2>1, <2>2, SitsText, TextOps
  <2> HIDE DEF b, y
  <2>5. Reads(Append(b, q), k, y, T)
    <3>1. CASE q = "dq"
      BY <2>4, <3>1, SitsEnd DEF w
    <3>2. CASE q = "sq"
      BY <2>4, <3>2, SitsEnd DEF w
    <3> QED
      BY <3>1, <3>2
  <2>6. Same(P \o ((<<q>> \o x) \o <<q>>), ((P \o <<q>>) \o x) \o <<q>>)
    BY <2>1, FourInARow DEF Text
  <2> QED
    BY <2>3, <2>4, <2>5, <2>6 DEF Same, b, y
<1> QED
  BY <1>2

----------------------------------------------------------------------------
(* Brackets *)

\* P leads into brackets of the kind b, d of them open.
Deep(P, b, d, v, T) ==
  \E u \in States : /\ Runs(Start, P, u) /\ u.where = "brackets" /\ u.bracket = b /\ u.depth = d
                    /\ u.type = "arg" /\ u.value = v /\ u.tokens = T

\* A value that is written as it is: what its units mean to the tokenizer.
LEMMA ValueUnit ==
  ASSUME NEW P \in Text, NEW v, v # <<>>, NEW T, Reads(P, "arg", v, T),
         NEW c \in Units \ {"sp", "dq", "sq", "<<"}
  PROVE  IF c \in Brackets THEN Deep(Append(P, c), c, 1, Append(v, c), T)
                             ELSE Reads(Append(P, c), "arg", Append(v, c), T)
<1>1. PICK u : Runs(Start, P, u) /\ Holds(u, "arg", v, T)
  BY DEF Reads
<1>2. u \in States /\ u.where = "none" /\ u.type = "arg" /\ u.value = v /\ u.tokens = T
  BY <1>1 DEF Holds
<1> DEFINE p == Push(u, c)
<1>3. /\ Token(u, c) \in States /\ Runs(Start, Append(P, c), Token(u, c)) /\ Token(u, c) = InNone(u, c)
      /\ p.where = "none" /\ p.type = "arg" /\ p.tokens = T /\ p.value = Append(v, c) /\ p \in States
  BY <1>1, <1>2, SitsUnit, TokenIs
<1>4. CASE c \in Brackets
  <2>1. Token(u, c) = [p EXCEPT !.where = "brackets", !.bracket = c, !.depth = 1]
    BY <1>3, <1>4 DEF InNone, Brackets
  <2> HIDE DEF p
  <2> QED
    BY <1>3, <1>4, <2>1 DEF Deep, States
<1>5. CASE c = "="
  <2>1. Token(u, c) = [p EXCEPT !.type = "arg"]
    BY <1>3, <1>5 DEF InNone
  <2> HIDE DEF p
  <2>2. c \notin Brackets
    BY <1>5 DEF Brackets
  <2>3. Holds([p EXCEPT !.type = "arg"], "arg", Append(v, c), T)
    BY <1>3 DEF Holds, States, Kinds
  <2> QED
    BY <1>3, <2>1, <2>2, <2>3 DEF Reads
<1>6. CASE c \notin Brackets \cup {"="}
  <2>1. Token(u, c) = p
    BY <1>2, <1>3, <1>6 DEF InNone, Brackets
  <2> HIDE DEF p
  <2> QED
    BY <1>3, <1>6, <2>1 DEF Reads, Holds
<1> QED
  BY <1>4, <1>5, <1>6

\* Inside brackets the other kind does not count.
LEMMA DeepUnit ==
  ASSUME NEW P \in Text, NEW b \in Brackets, NEW d \in Nat \ {0}, NEW v, NEW T, Deep(P, b, d, v, T),
         NEW c \in Units
  PROVE  IF c = Closer(b) /\ d = 1 THEN Reads(Append(P, c), "arg", Append(v, c), T)
         ELSE Deep(Append(P, c), b, IF c = b THEN d + 1 ELSE IF c = Closer(b) THEN d - 1 ELSE d,
                   Append(v, c), T)
<1>1. PICK u \in States : /\ Runs(Start, P, u) /\ u.where = "brackets" /\ u.bracket = b /\ u.depth = d
                          /\ u.type = "arg" /\ u.value = v /\ u.tokens = T
  BY DEF Deep
<1> DEFINE p == Push(u, c)
<1>2. /\ Token(u, c) \in States /\ Runs(Start, Append(P, c), Token(u, c)) /\ Token(u, c) = InBrackets(u, c)
      /\ p.where = "brackets" /\ p.type = "arg" /\ p.tokens = T /\ p.value = Append(v, c) /\ p \in States
  BY <1>1, SitsUnit, TokenIs
<1>3. p.bracket = b /\ p.depth = d
  BY <1>1 DEF Push, States
<1>10. /\ c = u.bracket => InBrackets(u, c) = [p EXCEPT !.depth = d + 1]
       /\ c = Closer(u.bracket) /\ d = 1 => InBrackets(u, c) = [p EXCEPT !.depth = 0, !.where = "none"]
       /\ c = Closer(u.bracket) /\ d > 1 => InBrackets(u, c) = [p EXCEPT !.depth = d - 1]
       /\ c # u.bracket /\ ~(c = Closer(u.bracket) /\ d >= 1) => InBrackets(u, c) = p
  BY <1>1, InBracketsIs, Zenon DEF p
<1>4. Closer(b) # b
  BY DEF Closer, Brackets
<1>5. d >= 1 /\ (d = 1 \/ d > 1) /\ d + 1 \in Nat /\ d - 1 \in Nat
  OBVIOUS
<1>6. CASE c = b
  <2>1. Token(u, c) = [p EXCEPT !.depth = d + 1]
    BY <1>1, <1>2, <1>6, <1>10
  <2> HIDE DEF p
  <2>2. Deep(Append(P, c), b, d + 1, Append(v, c), T)
    BY <1>2, <1>3, <1>5, <2>1 DEF Deep, States
  <2> QED
    BY <1>4, <1>6, <2>2
<1>7. CASE c = Closer(b) /\ d = 1
  <2>1. Token(u, c) = [p EXCEPT !.depth = 0, !.where = "none"]
    BY <1>1, <1>2, <1>7, <1>10
  <2> HIDE DEF p
  <2> QED
    BY <1>2, <1>7, <2>1 DEF Reads, Holds, States
<1>8. CASE c = Closer(b) /\ d > 1
  <2>1. Token(u, c) = [p EXCEPT !.depth = d - 1]
    BY <1>1, <1>2, <1>8, <1>10
  <2> HIDE DEF p
  <2>2. Deep(Append(P, c), b, d - 1, Append(v, c), T)
    BY <1>2, <1>3, <1>5, <2>1 DEF Deep, States
  <2> QED
    BY <1>4, <1>8, <2>2
<1>9. CASE c # b /\ c # Closer(b)
  <2>1. Token(u, c) = p
    BY <1>1, <1>2, <1>9, <1>10
  <2> HIDE DEF p
  <2> QED
    BY <1>2, <1>3, <1>9, <2>1 DEF Deep
<1> QED
  BY <1>5, <1>6, <1>7, <1>8, <1>9

\* Counting one unit more.
LEMMA CountOne ==
  ASSUME NEW x, NEW i \in Nat, NEW j \in Nat, i <= j + 1, NEW u
  PROVE  /\ Count(x, i, j, u) \in Nat /\ Count(x, i, i - 1, u) = 0
         /\ Count(x, i, j + 1, u) = Count(x, i, j, u) + (IF x[j + 1] = u THEN 1 ELSE 0)
<1> DEFINE K(n) == {k \in i .. n : x[k] = u}
<1>1. \A n \in Int : IsFiniteSet(K(n)) /\ Cardinality(K(n)) \in Nat
  <2> SUFFICES ASSUME NEW n \in Int PROVE IsFiniteSet(K(n)) /\ Cardinality(K(n)) \in Nat
    OBVIOUS
  <2>1. IsFiniteSet(i .. n) /\ K(n) \in SUBSET (i .. n)
    BY FS_Interval
  <2>2. IsFiniteSet(K(n))
    <3> HIDE DEF K
    <3> QED
      BY <2>1, FS_Subset
  <2> QED
    BY <2>2, FS_CardinalityType
<1>2. K(i - 1) = {}
  OBVIOUS
<1>3. CASE x[j + 1] = u
  <2>1. i .. j + 1 = (i .. j) \cup {j + 1} /\ (j + 1) \notin i .. j
    OBVIOUS
  <2>4. K(j + 1) = K(j) \cup {j + 1} /\ (j + 1) \notin K(j)
    BY <1>3, <2>1
  <2> HIDE DEF K
  <2>2. IsFiniteSet(K(j)) /\ Cardinality(K(j)) \in Nat
    BY <1>1
  <2>3. Cardinality(K(j + 1)) = Cardinality(K(j)) + 1
    BY <2>2, <2>4, FS_AddElement
  <2> QED
    BY <1>2, <1>3, <2>2, <2>3, FS_EmptySet DEF Count, K
<1>4. CASE x[j + 1] # u
  <2>1. K(j + 1) = K(j)
    BY <1>4
  <2> HIDE DEF K
  <2> QED
    BY <1>1, <1>2, <1>4, <2>1, FS_EmptySet DEF Count, K
<1> QED
  BY <1>3, <1>4

\* One unit more of a text.
LEMMA PrefixStep ==
  ASSUME NEW P \in Text, NEW x \in Text, NEW j \in Nat, j + 1 <= Len(x)
  PROVE  /\ P \o SubSeq(x, 1, j) \in Text /\ x[j + 1] \in Units
         /\ Same(P \o SubSeq(x, 1, j + 1), Append(P \o SubSeq(x, 1, j), x[j + 1]))
<1>1. PICK n \in Nat : n = Len(x) /\ \A i \in 1 .. n : x[i] \in Units
  BY LenProperties, ElementOfSeq DEF Text
<1> DEFINE a == SubSeq(x, 1, j)
           b == SubSeq(x, 1, j + 1)
           c == Append(a, x[j + 1])
<1>2. a \in Text /\ Len(a) = j /\ \A i \in 1 .. j : a[i] = x[i]
  BY <1>1, PrefixOf DEF Text
<1>3. b \in Text /\ Len(b) = j + 1 /\ \A i \in 1 .. j + 1 : b[i] = x[i]
  BY <1>1, PrefixOf DEF Text
<1>4. x[j + 1] \in Units
  BY <1>1
<1> HIDE DEF a, b
<1>5. /\ c \in Text /\ Len(c) = j + 1 /\ c[j + 1] = x[j + 1]
      /\ \A i \in 1 .. j : c[i] = a[i]
  BY <1>2, <1>4, AppendProperties DEF Text
<1>6. b = c
  <2> HIDE DEF c
  <2>1. \A i \in 1 .. j + 1 : b[i] = c[i]
    BY <1>2, <1>3, <1>5
  <2> QED
    BY <1>3, <1>5, <2>1, SeqEqual DEF Text
<1>7. Same(P \o Append(a, x[j + 1]), Append(P \o a, x[j + 1]))
  BY <1>2, <1>4, AppendToConcat DEF Text, Same
<1> QED
  BY <1>2, <1>4, <1>6, <1>7, TextOps DEF Same, a, b, c

\* From a bracket to its match.
LEMMA BracketRun ==
  ASSUME NEW P \in Text, NEW v \in Text, v # <<>>, NEW T, NEW x \in Text,
         NEW i \in 1 .. Len(x), x[i] \in Brackets,
         Reads(P \o SubSeq(x, 1, i - 1), "arg", v \o SubSeq(x, 1, i - 1), T),
         \E j \in i + 1 .. Len(x) : Count(x, i, j, x[i]) = Count(x, i, j, Closer(x[i]))
  PROVE  \E j \in i + 1 .. Len(x) : Reads(P \o SubSeq(x, 1, j), "arg", v \o SubSeq(x, 1, j), T)
<1> DEFINE b == x[i]
           e == Closer(b)
           p(j) == P \o SubSeq(x, 1, j)
           y(j) == v \o SubSeq(x, 1, j)
           d(j) == Count(x, i, j, b) - Count(x, i, j, e)
<1>1. PICK n \in Nat : n = Len(x) /\ i \in 1 .. n
  BY LenProperties DEF Text
<1>2. b \in Brackets /\ e # b /\ e \notin Brackets
  BY DEF Closer, Brackets
<1>3. \A j \in Nat : j + 1 <= n => /\ p(j) \in Text /\ y(j) \in Text /\ x[j + 1] \in Units
                                   /\ p(j + 1) = Append(p(j), x[j + 1]) /\ y(j + 1) = Append(y(j), x[j + 1])
  BY <1>1, PrefixStep DEF Same
<1>4. /\ d(i) = 1
      /\ \A j \in Nat : i <= j => /\ d(j) \in Int
                                  /\ x[j + 1] = b => d(j + 1) = d(j) + 1
                                  /\ x[j + 1] = e => d(j + 1) = d(j) - 1
                                  /\ x[j + 1] \notin {b, e} => d(j + 1) = d(j)
  <2>1. \A j \in Nat : i <= j + 1 =>
          \A u : /\ Count(x, i, j, u) \in Nat /\ Count(x, i, i - 1, u) = 0
                 /\ Count(x, i, j + 1, u) = Count(x, i, j, u) + (IF x[j + 1] = u THEN 1 ELSE 0)
    <3> SUFFICES ASSUME NEW j \in Nat, i <= j + 1, NEW u
                 PROVE  /\ Count(x, i, j, u) \in Nat /\ Count(x, i, i - 1, u) = 0
                        /\ Count(x, i, j + 1, u) = Count(x, i, j, u) + (IF x[j + 1] = u THEN 1 ELSE 0)
      OBVIOUS
    <3>1. i \in Nat
      BY <1>1
    <3> HIDE DEF d, p, y, b, e
    <3> QED
      BY <3>1, CountOne
  <2>2. Count(x, i, i, b) = 1 /\ Count(x, i, i, e) = 0
    <3>1. i - 1 \in Nat /\ i <= (i - 1) + 1 /\ (i - 1) + 1 = i /\ x[i] # e
      BY <1>1, <1>2
    <3>2. \A u : Count(x, i, (i - 1) + 1, u) = 0 + (IF x[(i - 1) + 1] = u THEN 1 ELSE 0)
      BY <2>1, <3>1
    <3>3. \A u : Count(x, i, i, u) = 0 + (IF x[i] = u THEN 1 ELSE 0)
      BY <3>1, <3>2
    <3> QED
      BY <3>1, <3>3
  <2>3. \A j \in Nat : i <= j => i <= j + 1
    BY <1>1
  <2>4. d(i) = 1
    BY <2>2
  <2>5. ASSUME NEW j \in Nat, i <= j
        PROVE  /\ d(j) \in Int
               /\ x[j + 1] = b => d(j + 1) = d(j) + 1
               /\ x[j + 1] = e => d(j + 1) = d(j) - 1
               /\ x[j + 1] \notin {b, e} => d(j + 1) = d(j)
    <3> DEFINE A == Count(x, i, j, b)
               B == Count(x, i, j, e)
               C == Count(x, i, j + 1, b)
               D == Count(x, i, j + 1, e)
    <3>1. /\ A \in Nat /\ B \in Nat
          /\ C = A + (IF x[j + 1] = b THEN 1 ELSE 0) /\ D = B + (IF x[j + 1] = e THEN 1 ELSE 0)
      BY <2>1, <2>3, <2>5
    <3>2. d(j) = A - B /\ d(j + 1) = C - D
      OBVIOUS
    <3> HIDE DEF A, B, C, D, d, b, e
    <3> QED
      BY <1>2, <3>1, <3>2
  <2> QED
    BY <2>4, <2>5
<1> DEFINE Z == {j \in i + 1 .. n : d(j) = 0}
           m == Min(Z)
<1>5. m \in Z /\ \A j \in Z : m <= j
  <2>1. PICK j \in i + 1 .. n : Count(x, i, j, b) = Count(x, i, j, e)
    BY <1>1
  <2>2. Count(x, i, j, e) \in Nat
    <3>1. j \in Nat /\ i \in Nat /\ i <= j + 1
      BY <1>1, <2>1
    <3> QED
      BY <3>1, CountOne
  <2>3. j \in Z
    BY <2>1, <2>2
  <2>4. Z \subseteq Nat /\ Z # {}
    BY <1>1, <2>3
  <2> HIDE DEF Z
  <2> QED
    BY <2>4, MinIsSmallest
<1> HIDE DEF m
<1>6. m \in i + 1 .. n /\ d(m) = 0 /\ \A j \in i + 1 .. m - 1 : d(j) # 0
  BY <1>1, <1>5
<1> DEFINE Open(j) == Deep(p(j), b, d(j), y(j), T) /\ d(j) >= 1
<1>7. Open(i)
  <2>1. i - 1 \in Nat /\ (i - 1) + 1 = i /\ (i - 1) + 1 <= n
    BY <1>1
  <2>2. p(i - 1) \in Text /\ y(i - 1) \in Text /\ p(i) = Append(p(i - 1), b) /\ y(i) = Append(y(i - 1), b)
        /\ b \in Units
    BY <1>3, <2>1
  <2>3. y(i - 1) # <<>>
    <3>1. SubSeq(x, 1, i - 1) \in Text
      BY <1>1, PrefixOf DEF Text
    <3> QED
      BY <3>1, ConcatSimplifications, ConcatEmptySeq DEF Text
  <2>4. Reads(p(i - 1), "arg", y(i - 1), T) /\ b \in Units \ {"sp", "dq", "sq", "<<"}
    <3>1. Brackets \cap {"sp", "dq", "sq", "<<"} = {}
      BY DEF Brackets
    <3> QED
      BY <1>2, <2>2, <3>1
  <2>5. Deep(Append(p(i - 1), b), b, 1, Append(y(i - 1), b), T)
    <3> HIDE DEF p, y, b
    <3> QED
      BY <1>2, <2>2, <2>3, <2>4, ValueUnit
  <2>6. Deep(p(i), b, 1, y(i), T) /\ d(i) = 1
    BY <1>4, <2>2, <2>5
  <2> HIDE DEF d, p, y
  <2> QED
    BY <2>6
<1>8. ASSUME NEW j \in i .. n - 1, Open(j), j < m
      PROVE  \/ Open(j + 1) /\ j + 1 < m
             \/ Reads(p(j + 1), "arg", y(j + 1), T)
  <2> DEFINE c == x[j + 1]
  <2>1. j \in Nat /\ j + 1 <= n /\ i <= j
    BY <1>1
  <2>2. p(j) \in Text /\ c \in Units /\ p(j + 1) = Append(p(j), c) /\ y(j + 1) = Append(y(j), c)
    BY <1>3, <2>1
  <2>3. /\ d(j) \in Int /\ d(j) >= 1
        /\ c = b => d(j + 1) = d(j) + 1
        /\ c = e => d(j + 1) = d(j) - 1
        /\ c \notin {b, e} => d(j + 1) = d(j)
    BY <1>4, <1>8, <2>1
  <2>4. d(j) \in Nat \ {0} /\ Deep(p(j), b, d(j), y(j), T) /\ b \in Brackets
    <3> HIDE DEF d, p, y, b
    <3> QED
      BY <1>2, <1>8, <2>3
  <2>5. IF c = Closer(b) /\ d(j) = 1 THEN Reads(Append(p(j), c), "arg", Append(y(j), c), T)
        ELSE Deep(Append(p(j), c), b, IF c = b THEN d(j) + 1 ELSE IF c = Closer(b) THEN d(j) - 1 ELSE d(j),
                  Append(y(j), c), T)
    <3> HIDE DEF d, p, y, b, c
    <3> QED
      BY <2>2, <2>4, DeepUnit
  <2>6. CASE c = e /\ d(j) = 1
    BY <2>2, <2>5, <2>6
  <2>7. CASE ~(c = e /\ d(j) = 1)
    <3> DEFINE h == IF c = b THEN d(j) + 1 ELSE IF c = e THEN d(j) - 1 ELSE d(j)
    <3>3. d(j + 1) = h /\ h >= 1
      <4> HIDE DEF d, p, y, c, b, e
      <4> QED
        BY <1>2, <2>3, <2>7
    <3>4. Deep(Append(p(j), c), b, h, Append(y(j), c), T)
      BY <2>5, <2>7
    <3>1. Deep(p(j + 1), b, d(j + 1), y(j + 1), T) /\ d(j + 1) >= 1
      <4> HIDE DEF d, p, y, c, h, b
      <4> QED
        BY <2>2, <3>3, <3>4
    <3>2. j + 1 # m
      <4> HIDE DEF d
      <4> QED
        BY <1>6, <3>1
    <3> HIDE DEF d, p, y, b
    <3> QED
      BY <1>1, <1>6, <1>8, <2>1, <3>1, <3>2
  <2> QED
    BY <2>6, <2>7
<1>9. ASSUME \A j \in i + 1 .. n : ~Reads(p(j), "arg", y(j), T) PROVE FALSE
  <2> DEFINE B == {j \in Nat : j > i /\ j <= m - 1 /\ ~Open(j)}
  <2>1. \A j \in i .. n - 1 : Open(j) /\ j < m => Open(j + 1) /\ j + 1 < m
    <3> SUFFICES ASSUME NEW j \in i .. n - 1, Open(j), j < m PROVE Open(j + 1) /\ j + 1 < m
      OBVIOUS
    <3>1. j + 1 \in i + 1 .. n
      BY <1>1
    <3> HIDE DEF Open, p, y
    <3> QED
      BY <1>8, <1>9, <3>1
  <2> HIDE DEF Open
  <2>2. \A k \in B : k - 1 \in B
    <3> SUFFICES ASSUME NEW k \in B PROVE k - 1 \in B
      OBVIOUS
    <3>1. k - 1 \in i .. n - 1 /\ k - 1 < m /\ (k - 1) + 1 = k
      BY <1>1, <1>6
    <3>2. ~Open(k - 1)
      BY <2>1, <3>1
    <3>3. k - 1 # i
      BY <1>7, <3>2
    <3> QED
      BY <1>1, <1>6, <3>1, <3>2, <3>3
  <2>3. B = {}
    <3>1. B \subseteq Nat
      OBVIOUS
    <3> HIDE DEF B
    <3> QED
      BY <2>2, <3>1, NoFirst
  <2>4. Open(m - 1)
    <3>1. CASE m - 1 = i
      BY <1>7, <3>1
    <3>2. CASE m - 1 # i
      BY <1>1, <1>6, <2>3, <3>2
    <3> QED
      BY <3>1, <3>2
  <2>5. m - 1 \in i .. n - 1 /\ m - 1 < m /\ (m - 1) + 1 = m
    BY <1>1, <1>6
  <2>6. (m - 1) + 1 < m
    BY <2>1, <2>4, <2>5
  <2> QED
    BY <2>5, <2>6
<1> QED
  BY <1>1, <1>9

\* A value that is written as it is.
LEMMA ReadsBare ==
  ASSUME NEW P \in Text, NEW v \in Text, v # <<>>, NEW T, Reads(P, "arg", v, T),
         NEW x \in Text, \A u \in {"sp", "dq", "sq", "<<"} : ~Contains(x, u), Balanced(x)
  PROVE  Reads(P \o x, "arg", v \o x, T)
<1> DEFINE Good(j) == Reads(P \o SubSeq(x, 1, j), "arg", v \o SubSeq(x, 1, j), T)
<1>1. PICK n \in Nat : n = Len(x) /\ DOMAIN x = 1 .. n /\ \A i \in 1 .. n : x[i] \in Units
  BY LenProperties, ElementOfSeq DEF Text
<1>2. Good(0)
  <2>1. Same(P \o <<>>, P) /\ Same(v \o <<>>, v)
    BY TextOps
  <2>2. SubSeq(x, 1, 0) = <<>>
    BY SubSeqEmpty DEF Text
  <2> QED
    BY <2>1, <2>2 DEF Same
<1>3. SubSeq(x, 1, n) = x
  BY <1>1, SubSeqFull DEF Text
<1>4. \A i \in 1 .. n : x[i] \in Brackets =>
        \E j \in i + 1 .. Len(x) : Count(x, i, j, x[i]) = Count(x, i, j, Closer(x[i]))
  <2>1. \A b \in Brackets : \A i \in DOMAIN x : x[i] = b =>
          \E j \in i + 1 .. Len(x) : Count(x, i, j, b) = Count(x, i, j, Closer(b))
    BY DEF Balanced, Brackets
  <2> QED
    BY <1>1, <2>1
<1>5. ASSUME NEW j \in 0 .. n - 1, Good(j) PROVE \E i \in j + 1 .. n : Good(i)
  <2>1. j \in Nat /\ j + 1 \in 1 .. n /\ (j + 1) - 1 = j
    BY <1>1
  <2> DEFINE p == P \o SubSeq(x, 1, j)
             y == v \o SubSeq(x, 1, j)
             c == x[j + 1]
  <2>2. /\ p \in Text /\ y \in Text /\ c \in Units
        /\ P \o SubSeq(x, 1, j + 1) = Append(p, c) /\ v \o SubSeq(x, 1, j + 1) = Append(y, c)
    <3>1. j + 1 <= Len(x)
      BY <1>1, <2>1
    <3>2. /\ P \o SubSeq(x, 1, j) \in Text /\ x[j + 1] \in Units
          /\ Same(P \o SubSeq(x, 1, j + 1), Append(P \o SubSeq(x, 1, j), x[j + 1]))
      BY <2>1, <3>1, PrefixStep
    <3>3. /\ v \o SubSeq(x, 1, j) \in Text
          /\ Same(v \o SubSeq(x, 1, j + 1), Append(v \o SubSeq(x, 1, j), x[j + 1]))
      BY <2>1, <3>1, PrefixStep
    <3> QED
      BY <3>2, <3>3 DEF Same
  <2>3. y # <<>>
    <3>1. SubSeq(x, 1, j) \in Text
      BY <1>1, <2>1, PrefixOf DEF Text
    <3> QED
      BY <3>1, ConcatSimplifications, ConcatEmptySeq DEF Text
  <2>4. c \notin {"sp", "dq", "sq", "<<"}
    <3>1. Contains(x, c)
      BY <1>1, <2>1 DEF Contains
    <3> HIDE DEF c
    <3> QED
      BY <3>1
  <2>5. CASE c \in Brackets
    <3> DEFINE i == j + 1
    <3>1. Reads(P \o SubSeq(x, 1, i - 1), "arg", v \o SubSeq(x, 1, i - 1), T)
      BY <1>5, <2>1
    <3>2. i \in 1 .. Len(x) /\ x[i] \in Brackets
          /\ \E k \in i + 1 .. Len(x) : Count(x, i, k, x[i]) = Count(x, i, k, Closer(x[i]))
      BY <1>1, <1>4, <2>1, <2>5
    <3> HIDE DEF i
    <3>3. \E k \in i + 1 .. Len(x) : Good(k)
      BY <3>1, <3>2, BracketRun
    <3> HIDE DEF Good
    <3> QED
      BY <1>1, <2>1, <3>3 DEF i
  <2>6. CASE c \notin Brackets
    <3>1. Reads(Append(p, c), "arg", Append(y, c), T)
      <4>1. Reads(p, "arg", y, T)
        BY <1>5
      <4>2. c \in Units \ {"sp", "dq", "sq", "<<"} /\ c \notin Brackets
        BY <2>2, <2>4, <2>6
      <4>3. IF c \in Brackets THEN Deep(Append(p, c), c, 1, Append(y, c), T)
                              ELSE Reads(Append(p, c), "arg", Append(y, c), T)
        <5> HIDE DEF p, y, c
        <5> QED
          BY <2>2, <2>3, <4>1, <4>2, ValueUnit
      <4> QED
        BY <4>2, <4>3
    <3>2. Good(j + 1)
      BY <2>2, <3>1
    <3> HIDE DEF Good
    <3> QED
      BY <1>1, <2>1, <3>2
  <2> QED
    BY <2>5, <2>6
<1> DEFINE G == {j \in 0 .. n : Good(n - j)}
           m == Min(G)
<1> HIDE DEF Good
<1>6. m \in G /\ \A j \in G : m <= j
  <2>1. n - n = 0 /\ n \in 0 .. n
    BY <1>1
  <2>2. n \in G /\ G \subseteq Nat
    BY <1>2, <2>1
  <2> HIDE DEF G
  <2> QED
    BY <2>2, MinIsSmallest
<1> HIDE DEF m
<1>7. m = 0
  <2> SUFFICES ASSUME m # 0 PROVE FALSE
    OBVIOUS
  <2>1. n - m \in 0 .. n - 1 /\ Good(n - m)
    BY <1>1, <1>6
  <2>2. PICK i \in (n - m) + 1 .. n : Good(i)
    BY <1>5, <2>1
  <2>3. n - i \in 0 .. n /\ n - (n - i) = i /\ n - i < m
    BY <1>1, <1>6, <2>2
  <2> QED
    BY <1>1, <1>6, <2>2, <2>3
<1>8. Good(n)
  BY <1>1, <1>6, <1>7
<1> QED
  BY <1>3, <1>8 DEF Good

----------------------------------------------------------------------------
(* Keys and values *)

\* The key ends at the first equals sign.
LEMMA KeyValueIs ==
  ASSUME NEW k \in Text, ~Contains(k, "="), NEW v \in Text
  PROVE  KeyValue((k \o <<"=">>) \o v) = <<k, Unblock(v)>>
<1> DEFINE a == k \o <<"=">>
           s == a \o v
<1>1. "=" \in Units /\ <<"=">> \in Text
  BY UnitsHave, TextOps DEF Marks
<1>2. a \in Text /\ Same(a, Append(k, "=")) /\ Contains(a, "=")
  <2>1. a \in Text /\ Same(Append(k, "="), a)
    BY <1>1, TextOps
  <2>2. Contains(<<"=">>, "=")
    BY <1>1, TextContains
  <2>3. Contains(a, "=")
    BY <1>1, <2>2, TextContains
  <2> QED
    BY <2>1, <2>3 DEF Same
<1> HIDE DEF a
<1>3. s \in Text /\ Contains(s, "=") /\ Same(s, Append(k, "=") \o v)
  BY <1>2, TextOps, TextContains DEF Same
<1> HIDE DEF s
<1>4. PICK x \in Text, y \in Text : Splits(s, "=", x, y)
  BY <1>3, SplitAtFirst DEF Text
<1>5. Same(x, k) /\ Same(y, v)
  <2>1. Same(Append(x, "=") \o y, Append(k, "=") \o v)
    BY <1>3, <1>4 DEF Same, Splits
  <2>2. ~Contains(x, "=")
    BY <1>4 DEF Splits
  <2> QED
    BY <1>1, <2>1, <2>2, OneSplit DEF Text
<1>6. find(s, "=") = Position(s, "=")
  BY DEF find, SelectInSeq, Position
<1>7. KeyValue(s) = <<x, Unblock(y)>>
  BY <1>4, <1>6 DEF KeyValue, Splits, Same
<1> QED
  BY <1>5, <1>7 DEF Same, s, a

\* A value that is not a block stays as it is.
LEMMA UnblockPlain ==
  ASSUME NEW v \in Text, ~Contains(v, "<<")
  PROVE  Unblock(v) = v
<1>1. Len(v) >= 2 => v[1] # "<<"
  <2>1. PICK n \in Nat : n = Len(v)
    BY LenProperties DEF Text
  <2>2. n >= 2 => 1 \in 1 .. n
    OBVIOUS
  <2> QED
    BY <2>1, <2>2 DEF Contains
<1> QED
  BY <1>1 DEF Unblock

\* What is between two units.
LEMMA Between ==
  ASSUME NEW S, NEW a \in S, NEW b \in S, NEW w \in Seq(S), NEW z, Same(z, (<<a>> \o w) \o <<b>>)
  PROVE  Len(z) >= 2 /\ z[1] = a /\ Last(z) = b /\ SubSeq(z, 2, Len(z) - 1) = w
<1> DEFINE A == <<a>>
           B == <<b>>
           x == A \o w
           s == x \o B
<1>1. PICK n \in Nat : n = Len(w) /\ DOMAIN w = 1 .. n
  BY LenProperties
<1>2. A \in Seq(S) /\ B \in Seq(S) /\ Len(A) = 1 /\ Len(B) = 1 /\ A[1] = a /\ B[1] = b
  BY Single
<1> HIDE DEF A, B
<1>3. x \in Seq(S) /\ Len(x) = 1 + n
  <2>1. x \in Seq(S) /\ Len(x) = Len(A) + Len(w)
    BY <1>2, ConcatProperties
  <2> QED
    BY <1>1, <1>2, <2>1
<1>4. \A i \in 1 .. 1 + n : x[i] = IF i <= 1 THEN A[i] ELSE w[i - 1]
  <2>1. \A i \in 1 .. Len(A) + Len(w) : x[i] = IF i <= Len(A) THEN A[i] ELSE w[i - Len(A)]
    BY <1>2, ConcatProperties
  <2> QED
    BY <1>1, <1>2, <2>1
<1> HIDE DEF x
<1>5. s \in Seq(S) /\ Len(s) = (1 + n) + 1
  <2>1. s \in Seq(S) /\ Len(s) = Len(x) + Len(B)
    BY <1>2, <1>3, ConcatProperties
  <2> QED
    BY <1>2, <1>3, <2>1
<1>6. \A i \in 1 .. (1 + n) + 1 : s[i] = IF i <= 1 + n THEN x[i] ELSE B[i - (1 + n)]
  <2>1. \A i \in 1 .. Len(x) + Len(B) : s[i] = IF i <= Len(x) THEN x[i] ELSE B[i - Len(x)]
    BY <1>2, <1>3, ConcatProperties
  <2> QED
    BY <1>2, <1>3, <2>1
<1> HIDE DEF s
<1>7. Len(s) = n + 2 /\ s[1] = a /\ s[n + 2] = b /\ \A i \in 1 .. n : s[1 + i] = w[i]
  <2>1. 1 \in 1 .. (1 + n) + 1 /\ n + 2 \in 1 .. (1 + n) + 1 /\ n + 2 - (1 + n) = 1 /\ (1 + n) + 1 = n + 2
    BY <1>1
  <2>2. s[1] = a
    BY <1>1, <1>2, <1>4, <1>6, <2>1
  <2>3. s[n + 2] = b
    BY <1>1, <1>2, <1>6, <2>1
  <2>4. ASSUME NEW i \in 1 .. n PROVE s[1 + i] = w[i]
    <3>1. 1 + i \in 1 .. 1 + n /\ 1 + i \in 1 .. (1 + n) + 1 /\ 1 + i <= 1 + n /\ ~(1 + i <= 1) /\ (1 + i) - 1 = i
      BY <1>1
    <3>2. s[1 + i] = x[1 + i]
      BY <1>6, <3>1
    <3>3. x[1 + i] = w[(1 + i) - 1]
      BY <1>4, <3>1
    <3> QED
      BY <3>1, <3>2, <3>3
  <2> QED
    BY <1>5, <2>1, <2>2, <2>3, <2>4
<1>8. SubSeq(s, 2, n + 1) = w
  <2> DEFINE p == SubSeq(s, 1 + 1, 1 + n)
  <2>1. 1 \in Nat /\ 1 + n \in Nat /\ 1 <= 1 + n /\ 1 + n <= Len(s) /\ (1 + n) - 1 = n /\ n + 1 = 1 + n /\ 1 + 1 = 2
    BY <1>1, <1>7
  <2>2. p \in Seq(S) /\ Len(p) = (1 + n) - 1 /\ \A i \in 1 .. (1 + n) - 1 : p[i] = s[1 + i]
    BY <1>5, <2>1, PartOf
  <2>3. p \in Seq(S) /\ Len(p) = n /\ \A i \in 1 .. n : p[i] = w[i]
    BY <1>7, <2>1, <2>2
  <2> HIDE DEF p
  <2>4. p = w
    BY <1>1, <2>3, SeqEqual
  <2> QED
    BY <2>1, <2>4 DEF p
<1> QED
  BY <1>1, <1>7, <1>8 DEF Same, Last, s, x, A, B

\* What follows the first unit.
LEMMA AfterHead ==
  ASSUME NEW S, NEW a \in S, NEW x \in Seq(S)
  PROVE  <<a>> \o x # <<>> /\ Head(<<a>> \o x) = a /\ Tail(<<a>> \o x) = x
<1> DEFINE A == <<a>>
           s == A \o x
<1>1. A \in Seq(S) /\ Len(A) = 1 /\ A[1] = a
  BY Single
<1> HIDE DEF A
<1>2. Len(x) \in Nat /\ s \in Seq(S) /\ Len(s) = 1 + Len(x) /\ s[1] = a
  <2>1. Len(x) \in Nat
    BY LenProperties
  <2>2. s \in Seq(S) /\ Len(s) = Len(A) + Len(x)
    BY <1>1, ConcatProperties
  <2>3. \A i \in 1 .. Len(A) + Len(x) : s[i] = IF i <= Len(A) THEN A[i] ELSE x[i - Len(A)]
    BY <1>1, ConcatProperties
  <2> HIDE DEF s
  <2> QED
    BY <1>1, <2>1, <2>2, <2>3
<1>3. \A i \in 1 .. Len(x) : s[i + 1] = x[i]
  <2>1. \A i \in 1 .. Len(A) + Len(x) : s[i] = IF i <= Len(A) THEN A[i] ELSE x[i - Len(A)]
    BY <1>1, ConcatProperties
  <2> SUFFICES ASSUME NEW i \in 1 .. Len(x) PROVE s[i + 1] = x[i]
    OBVIOUS
  <2>2. i + 1 \in 1 .. 1 + Len(x) /\ ~(i + 1 <= 1) /\ (i + 1) - 1 = i
    BY <1>2
  <2> QED
    BY <1>1, <2>1, <2>2
<1> HIDE DEF s
<1>4. s # <<>> /\ Head(s) = s[1]
  BY <1>2, EmptySeq
<1>5. /\ Tail(s) \in Seq(S) /\ Len(Tail(s)) = Len(s) - 1
      /\ \A i \in 1 .. Len(Tail(s)) : Tail(s)[i] = s[i + 1]
  BY <1>2, <1>4, HeadTailProperties
<1>6. Tail(s) = x
  BY <1>2, <1>3, <1>5, SeqEqual
<1> QED
  BY <1>2, <1>4, <1>6 DEF s, A

\* A block's value is what is between the newlines.
LEMMA UnblockBlock ==
  ASSUME NEW v \in Text, v # <<>>, NEW lead \in {<<"nl">>, <<>>}, lead = <<>> => Head(v) # "nl"
  PROVE  Unblock(<<"<<">> \o (lead \o Append(v, "nl")) \o <<">>">>) = v
<1> DEFINE x == Append(v, "nl")
           w == lead \o x
           s == (<<"<<">> \o w) \o <<">>">>
           chopped == IF w # <<>> /\ Head(w) = "nl" THEN Tail(w) ELSE w
<1>1. "nl" \in Units /\ "<<" \in Units /\ ">>" \in Units /\ <<"nl">> \in Text /\ <<>> \in Text
  BY UnitsHave, TextOps DEF Marks
<1>2. x \in Text /\ x # <<>> /\ Last(x) = "nl" /\ Front(x) = v
  BY <1>1, TextOps, FrontOfAppend DEF Text
<1>3. PICK n \in Nat : n = Len(v) /\ n >= 1 /\ v[1] = Head(v)
  <2>1. Len(v) \in Nat /\ Len(v) # 0
    BY LenProperties, EmptySeq DEF Text
  <2>2. v[1] = Head(v)
    OBVIOUS
  <2> QED
    BY <2>1, <2>2
<1>4. x[1] = v[1]
  <2>1. 1 \in 1 .. Len(v)
    BY <1>3
  <2> QED
    BY <1>1, <2>1, AppendProperties DEF Text
<1>5. w \in Text
  BY <1>1, <1>2, TextOps
<1>6. Len(s) >= 2 /\ s[1] = "<<" /\ Last(s) = ">>" /\ SubSeq(s, 2, Len(s) - 1) = w
  <2> HIDE DEF w
  <2>1. w \in Seq(Units)
    BY <1>5 DEF Text
  <2>2. Same(s, (<<"<<">> \o w) \o <<">>">>)
    BY DEF Same
  <2> HIDE DEF s
  <2> QED
    BY <1>1, <2>1, <2>2, Between
<1>7. Unblock(s) = IF chopped # <<>> /\ Last(chopped) = "nl" THEN Front(chopped) ELSE chopped
  <2> HIDE DEF w, s
  <2> QED
    BY <1>6 DEF Unblock
<1>8. chopped = x
  <2>1. CASE lead = <<>>
    <3>1. w = x
      BY <1>2, <2>1, ConcatEmptySeq DEF Text
    <3>2. Head(x) # "nl"
      BY <1>3, <1>4, <2>1
    <3> QED
      BY <3>1, <3>2
  <2>2. CASE lead = <<"nl">>
    <3> HIDE DEF x
    <3>1. w = <<"nl">> \o x
      BY <2>2
    <3>2. w # <<>> /\ Head(w) = "nl" /\ Tail(w) = x
      BY <1>1, <1>2, <3>1, AfterHead DEF Text
    <3> QED
      BY <3>2
  <2> QED
    BY <2>1, <2>2
<1> HIDE DEF chopped, x
<1>9. Unblock(s) = v
  BY <1>2, <1>7, <1>8
<1> QED
  BY <1>9 DEF x

----------------------------------------------------------------------------
(* What the tokens of a text say *)

\* What build() takes a token for, from the second or third on.
Meaning(t)   == <<t.type, IF t.type = "arg" THEN KeyValue(t.value) ELSE t.value>>
ArgSaid(k, v) == <<"arg", <<k, v>>>>
WordSaid(w)   == <<"none", w>>

\* Tokens that begin as F, and of which the rest says S.
Means(T, F, S) ==
  /\ T \in Seq(Tokens) /\ Len(F) \in Nat /\ Len(F) <= Len(T)
  /\ \A i \in 1 .. Len(F) : T[i] = F[i]
  /\ S = {Meaning(T[i]) : i \in Len(F) + 1 .. Len(T)}

\* In the token with the value v, after tokens that say S.
Within(P, k, v, F, S) == \E T : Reads(P, k, v, T) /\ Means(T, F, S)

\* P says S, if it ends here.
Gives(P, F, S) ==
  \E k, v, T : /\ Reads(P, k, v, T) /\ (v = <<>> => k = "none")
               /\ Means(Ended(T, k, v), F, S)

\* In the block that is the value of k, of which there is w so far.
InBlock(P, k, w, F, S) ==
  \E T : Sits(P, "triangles", "arg", ((k \o <<"=">>) \o <<"<<">>) \o w, T) /\ Means(T, F, S)

\* One token more.
LEMMA MeansAppend ==
  ASSUME NEW T, NEW F, NEW S, Means(T, F, S), NEW t \in Tokens
  PROVE  Means(Append(T, t), F, S \cup {Meaning(t)})
<1> DEFINE l == Append(T, t)
<1>1. PICK n \in Nat, f \in Nat : n = Len(T) /\ f = Len(F) /\ f <= n
  BY LenProperties DEF Means
<1>2. l \in Seq(Tokens) /\ Len(l) = n + 1 /\ l[n + 1] = t /\ \A i \in 1 .. n : l[i] = T[i]
  BY <1>1, AppendProperties DEF Means
<1> HIDE DEF l
<1>3. \A i \in 1 .. f : l[i] = F[i]
  BY <1>1, <1>2 DEF Means
<1>4. {Meaning(l[i]) : i \in f + 1 .. n + 1} = S \cup {Meaning(t)}
  <2> DEFINE M(i) == Meaning(l[i])
             N(i) == Meaning(T[i])
  <2>1. S = {N(i) : i \in f + 1 .. n}
    BY <1>1 DEF Means
  <2>2. \A i \in f + 1 .. n : M(i) = N(i)
    BY <1>1, <1>2
  <2>3. M(n + 1) = Meaning(t)
    BY <1>2
  <2>4. f + 1 .. n + 1 = (f + 1 .. n) \cup {n + 1}
    BY <1>1
  <2> HIDE DEF M, N
  <2>5. {M(i) : i \in f + 1 .. n + 1} = {N(i) : i \in f + 1 .. n} \cup {M(n + 1)}
    BY <2>2, <2>4
  <2> QED
    BY <2>1, <2>3, <2>5 DEF M
<1> QED
  BY <1>1, <1>2, <1>3, <1>4 DEF Means, l

\* The first tokens by themselves say nothing more.
LEMMA MeansFirst ==
  ASSUME NEW F \in Seq(Tokens)
  PROVE  Means(F, F, {})
<1>1. PICK n \in Nat : n = Len(F)
  BY LenProperties
<1>2. n + 1 .. n = {}
  OBVIOUS
<1> QED
  BY <1>1, <1>2 DEF Means

\* A space ends the token.
LEMMA GivesSpace ==
  ASSUME NEW P \in Text, NEW F, NEW S, Gives(P, F, S)
  PROVE  Append(P, "sp") \in Text /\ Within(Append(P, "sp"), "none", <<>>, F, S)
<1>1. PICK k, v, T : /\ Reads(P, k, v, T) /\ (v = <<>> => k = "none")
                     /\ Means(Ended(T, k, v), F, S)
  BY DEF Gives
<1>2. Reads(Append(P, "sp"), "none", <<>>, Ended(T, k, v))
  BY <1>1, ReadsSpace
<1>3. "sp" \in Units
  BY UnitsHave DEF Marks
<1> QED
  BY <1>1, <1>2, <1>3, TextOps DEF Within

\* So does the end.
LEMMA GivesEnd ==
  ASSUME NEW P \in Text, NEW k, NEW v, v # <<>>, NEW F, NEW S, Within(P, k, v, F, S)
  PROVE  Gives(P, F, S \cup {Meaning([type |-> k, value |-> v])})
<1>1. PICK T : Reads(P, k, v, T) /\ Means(T, F, S)
  BY DEF Within
<1>2. [type |-> k, value |-> v] \in Tokens
  BY <1>1, ReadsType DEF Tokens
<1>3. Means(Append(T, [type |-> k, value |-> v]), F, S \cup {Meaning([type |-> k, value |-> v])})
  BY <1>1, <1>2, MeansAppend
<1>4. Ended(T, k, v) = Append(T, [type |-> k, value |-> v])
  BY DEF Ended
<1> QED
  BY <1>1, <1>3, <1>4 DEF Gives

\* What has been read at the end of the text is what its tokens say.
LEMMA GivesTokens ==
  ASSUME NEW P \in Text, NEW F, NEW S, Gives(P, F, S)
  PROVE  Means(tokenize(P), F, S)
<1>1. PICK k, v, T : /\ Reads(P, k, v, T) /\ (v = <<>> => k = "none")
                     /\ Means(Ended(T, k, v), F, S)
  BY DEF Gives
<1> QED
  BY <1>1, ReadsEnd

\* Plain units go on with the word, key or value that has begun.
LEMMA WithinPlain ==
  ASSUME NEW P \in Text, NEW k, NEW v, NEW F, NEW S, Within(P, k, v, F, S), NEW w \in Seq(Plain)
  PROVE  P \o w \in Text /\ w \in Text /\ Within(P \o w, k, v \o w, F, S)
<1>1. PICK T : Reads(P, k, v, T) /\ Means(T, F, S)
  BY DEF Within
<1>2. Reads(P \o w, k, v \o w, T)
  BY <1>1, ReadsPlain
<1>3. w \in Text
  BY SeqMonotonic DEF Plain, Text
<1> QED
  BY <1>1, <1>2, <1>3, TextOps DEF Within

\* A word.
LEMMA GivesWord ==
  ASSUME NEW P \in Text, NEW F, NEW S, Gives(P, F, S), NEW w \in Seq(Plain), w # <<>>
  PROVE  Gives(P \o (<<"sp">> \o w), F, S \cup {WordSaid(w)})
<1> DEFINE a == Append(P, "sp")
<1>1. a \in Text /\ Within(a, "none", <<>>, F, S) /\ "sp" \in Units /\ <<"sp">> \in Text
  BY GivesSpace, UnitsHave, TextOps DEF Marks
<1>2. Same(a, P \o <<"sp">>)
  BY <1>1, TextOps
<1> HIDE DEF a
<1>3. a \o w \in Text /\ w \in Text /\ Within(a \o w, "none", <<>> \o w, F, S)
  BY <1>1, WithinPlain
<1>4. Same(<<>> \o w, w) /\ Same((P \o <<"sp">>) \o w, P \o (<<"sp">> \o w))
  BY <1>1, <1>3, TextOps, TextAssociative
<1>5. Gives(a \o w, F, S \cup {Meaning([type |-> "none", value |-> w])})
  BY <1>3, <1>4, GivesEnd DEF Same
<1>6. Meaning([type |-> "none", value |-> w]) = WordSaid(w)
  BY DEF Meaning, WordSaid
<1> QED
  BY <1>2, <1>4, <1>5, <1>6 DEF Same

\* A handle.
LEMMA GivesHandle ==
  ASSUME NEW P \in Text, NEW F, NEW S, Gives(P, F, S), NEW w \in Seq(Plain)
  PROVE  Gives(P \o (<<"sp", "~">> \o w), F, S \cup {<<"handle", <<"~">> \o w>>})
<1> DEFINE a == Append(P, "sp")
           b == Append(a, "~")
           v == <<"~">> \o w
<1>1. a \in Text /\ Within(a, "none", <<>>, F, S) /\ "sp" \in Units /\ "~" \in Units
  BY GivesSpace, UnitsHave, TextOps DEF Marks
<1>2. Same(P \o <<"sp", "~">>, b) /\ <<"sp", "~">> \in Text /\ <<"~">> \in Text
  BY <1>1, AppendTwo, TextOps
<1> HIDE DEF a
<1>3. b \in Text /\ Within(b, "handle", <<"~">>, F, S)
  <2>1. PICK T : Reads(a, "none", <<>>, T) /\ Means(T, F, S)
    BY <1>1 DEF Within
  <2>2. Reads(b, "handle", <<"~">>, T)
    BY <1>1, <2>1, ReadsTilde
  <2> QED
    BY <1>1, <2>1, <2>2, TextOps DEF Within
<1> HIDE DEF b
<1>4. b \o w \in Text /\ w \in Text /\ Within(b \o w, "handle", v, F, S)
  BY <1>3, WithinPlain
<1>5. v # <<>>
  <2>1. Contains(<<"~">>, "~")
    BY <1>1, TextContains
  <2>2. Contains(v, "~")
    BY <1>2, <1>4, <2>1, TextContains
  <2> QED
    BY <2>2, TextContains
<1>6. Same((P \o <<"sp", "~">>) \o w, P \o (<<"sp", "~">> \o w))
  BY <1>2, <1>4, TextAssociative
<1>7. Gives(b \o w, F, S \cup {Meaning([type |-> "handle", value |-> v])})
  <2> HIDE DEF v
  <2> QED
    BY <1>4, <1>5, GivesEnd
<1>8. Meaning([type |-> "handle", value |-> v]) = <<"handle", v>>
  BY DEF Meaning
<1> QED
  BY <1>2, <1>6, <1>7, <1>8 DEF Same

\* The key of an arg.
LEMMA GivesKey ==
  ASSUME NEW P \in Text, NEW F, NEW S, Gives(P, F, S), NEW k \in Seq(Plain)
  PROVE  /\ P \o ((<<"sp">> \o k) \o <<"=">>) \in Text /\ k \o <<"=">> \in Text /\ k \o <<"=">> # <<>>
         /\ Within(P \o ((<<"sp">> \o k) \o <<"=">>), "arg", k \o <<"=">>, F, S)
<1> DEFINE a == Append(P, "sp")
           b == a \o k
           e == k \o <<"=">>
<1>1. /\ a \in Text /\ Within(a, "none", <<>>, F, S) /\ "sp" \in Units /\ "=" \in Units
      /\ <<"sp">> \in Text /\ <<"=">> \in Text /\ Same(a, P \o <<"sp">>)
  BY GivesSpace, UnitsHave, TextOps DEF Marks
<1> HIDE DEF a
<1>2. b \in Text /\ k \in Text /\ Within(b, "none", <<>> \o k, F, S) /\ Same(<<>> \o k, k)
  BY <1>1, WithinPlain, TextOps
<1> HIDE DEF b
<1>3. PICK T : Reads(b, "none", k, T) /\ Means(T, F, S)
  BY <1>2 DEF Within, Same
<1>4. Reads(Append(b, "="), "arg", Append(k, "="), T)
  BY <1>2, <1>3, ReadsEquals
<1>5. Same(Append(b, "="), b \o <<"=">>) /\ Same(Append(k, "="), e) /\ e \in Text
  BY <1>1, <1>2, TextOps
<1>6. e # <<>>
  <2>1. Contains(<<"=">>, "=")
    BY <1>1, TextContains
  <2>2. Contains(e, "=")
    BY <1>1, <1>2, <2>1, TextContains
  <2> QED
    BY <2>2, TextContains
<1>7. Same(P \o ((<<"sp">> \o k) \o <<"=">>), ((P \o <<"sp">>) \o k) \o <<"=">>)
  BY <1>1, <1>2, FourInARow DEF Text
<1>8. Append(b, "=") \in Text
  BY <1>1, <1>2, TextOps
<1> HIDE DEF e
<1>9. Within(Append(b, "="), "arg", e, F, S)
  BY <1>3, <1>4, <1>5 DEF Within, Same
<1>10. Same(Append(b, "="), P \o ((<<"sp">> \o k) \o <<"=">>))
  BY <1>1, <1>5, <1>7 DEF Same, b
<1> QED
  BY <1>5, <1>6, <1>8, <1>9, <1>10 DEF Same, e

\* What an arg says.
LEMMA ArgMeaning ==
  ASSUME NEW k \in Seq(Plain), NEW v \in Text
  PROVE  Meaning([type |-> "arg", value |-> (k \o <<"=">>) \o v]) = ArgSaid(k, Unblock(v))
<1>1. k \in Text /\ ~Contains(k, "=")
  <2>1. Plain \subseteq Units \ {"="}
    BY DEF Plain
  <2>2. k \in Seq(Units \ {"="})
    BY <2>1, SeqMonotonic
  <2>3. k \in Seq(Units)
    BY <2>1, SeqMonotonic DEF Plain
  <2> QED
    BY <2>2, <2>3, Without DEF Text
<1>2. KeyValue((k \o <<"=">>) \o v) = <<k, Unblock(v)>>
  BY <1>1, KeyValueIs
<1> QED
  BY <1>2 DEF Meaning, ArgSaid

\* A value in quotes, and one that needs none.
LEMMA GivesValue ==
  ASSUME NEW P \in Text, NEW F, NEW S, Gives(P, F, S), NEW k \in Seq(Plain),
         NEW v \in Text, ~Contains(v, "<<"), NEW q \in Text,
         \/ ~Contains(v, "dq") /\ Same(q, (<<"dq">> \o v) \o <<"dq">>)
         \/ ~Contains(v, "sq") /\ Same(q, (<<"sq">> \o v) \o <<"sq">>)
         \/ (\A u \in {"sp", "dq", "sq"} : ~Contains(v, u)) /\ Balanced(v) /\ Same(q, v)
  PROVE  Gives(P \o (((<<"sp">> \o k) \o <<"=">>) \o q), F, S \cup {ArgSaid(k, v)})
<1> DEFINE h == (<<"sp">> \o k) \o <<"=">>
           a == P \o h
           e == k \o <<"=">>
<1>1. a \in Text /\ e \in Text /\ e # <<>> /\ Within(a, "arg", e, F, S)
  BY GivesKey
<1>2. h \in Text
  <2>1. k \in Text
    BY SeqMonotonic DEF Plain, Text
  <2>2. <<"sp">> \in Text /\ <<"=">> \in Text
    BY UnitsHave, TextOps DEF Marks
  <2>3. <<"sp">> \o k \in Text
    BY <2>1, <2>2, TextOps
  <2> QED
    BY <2>2, <2>3, TextOps
<1>3. Same(a \o q, P \o (h \o q)) /\ a \o q \in Text /\ e \o v \in Text
  <2> HIDE DEF h, e
  <2>1. Same((P \o h) \o q, P \o (h \o q))
    BY <1>2, TextAssociative
  <2>2. a \o q \in Text /\ e \o v \in Text
    BY <1>1, TextOps
  <2> QED
    BY <2>1, <2>2
<1> HIDE DEF a
<1>4. PICK T : Reads(a, "arg", e, T) /\ Means(T, F, S)
  BY <1>1 DEF Within
<1>5. Meaning([type |-> "arg", value |-> e \o v]) = ArgSaid(k, v)
  BY ArgMeaning, UnblockPlain
<1>6. e \o v # <<>>
  <2> HIDE DEF e
  <2> QED
    BY <1>1, ConcatSimplifications, ConcatEmptySeq DEF Text
<1> HIDE DEF e
<1>7. Reads(a \o q, "arg", e \o v, T)
  <2>1. CASE ~Contains(v, "dq") /\ Same(q, (<<"dq">> \o v) \o <<"dq">>)
    BY <1>1, <1>4, <2>1, ReadsQuoted DEF Same
  <2>2. CASE ~Contains(v, "sq") /\ Same(q, (<<"sq">> \o v) \o <<"sq">>)
    BY <1>1, <1>4, <2>2, ReadsQuoted DEF Same
  <2>3. CASE (\A u \in {"sp", "dq", "sq"} : ~Contains(v, u)) /\ Balanced(v) /\ Same(q, v)
    <3>1. \A u \in {"sp", "dq", "sq", "<<"} : ~Contains(v, u)
      BY <2>3
    <3> QED
      BY <1>1, <1>4, <2>3, <3>1, ReadsBare DEF Same
  <2> QED
    BY <2>1, <2>2, <2>3
<1>8. Gives(a \o q, F, S \cup {Meaning([type |-> "arg", value |-> e \o v])})
  <2>1. Within(a \o q, "arg", e \o v, F, S)
    BY <1>4, <1>7 DEF Within
  <2> DEFINE y == e \o v
  <2> HIDE DEF y
  <2> QED
    BY <1>3, <1>6, <2>1, GivesEnd DEF y
<1> QED
  BY <1>3, <1>5, <1>8 DEF Same, h

\* The units of names, and the marks around them.
LEMMA PlainIs ==
  /\ Plain \subseteq Units /\ Seq(Plain) \subseteq Text /\ Name \subseteq Seq(Plain)
  /\ {"witness", "publish", "ok", "error", "node_error", "body", "code", "what"} \subseteq Plain
  /\ {"sp", "=", "dq", "sq", "nl", "<<", ">>", "~", ":"} \subseteq Units
  /\ {<<"sp">>, <<"=">>, <<"dq">>, <<"sq">>, <<"nl">>, <<"<<">>, <<">>">>, <<"~">>} \subseteq Text
<1>1. Plain \subseteq Units
  BY DEF Plain
<1>2. Seq(Plain) \subseteq Text
  BY <1>1, SeqMonotonic DEF Text
<1>3. Name \subseteq Seq(Plain)
  <2>1. Units \ Marks \subseteq Plain
    BY DEF Plain, Brackets, Marks
  <2> QED
    BY <2>1, NameIn
<1>4. {"witness", "publish", "ok", "error", "node_error", "body", "code", "what"} \subseteq Plain
  BY UnitsHave DEF Plain, Brackets, Common
<1>5. {"sp", "=", "dq", "sq", "nl", "<<", ">>", "~", ":"} \subseteq Units
  BY UnitsHave DEF Marks
<1>6. {<<"sp">>, <<"=">>, <<"dq">>, <<"sq">>, <<"nl">>, <<"<<">>, <<">>">>, <<"~">>} \subseteq Text
  BY <1>5, TextOps
<1> QED
  BY <1>1, <1>2, <1>3, <1>4, <1>5, <1>6

\* An arg on one line says its value.
LEMMA GivesArg ==
  ASSUME NEW P \in Text, NEW F, NEW S, Gives(P, F, S), NEW k \in Seq(Plain),
         NEW v \in Text, Writable(v), ~Contains(v, "nl")
  PROVE  Gives(P \o serializeArg(k, v), F, S \cup {ArgSaid(k, v)})
<1> DEFINE q == Quoted(v)
           d == (<<"dq">> \o v) \o <<"dq">>
           s == (<<"sq">> \o v) \o <<"sq">>
<1>1. d \in Text /\ s \in Text
  <2>1. <<"dq">> \in Text /\ <<"sq">> \in Text
    BY PlainIs
  <2>2. <<"dq">> \o v \in Text /\ <<"sq">> \o v \in Text
    BY <2>1, TextOps
  <2> QED
    BY <2>1, <2>2, TextOps
<1>2. q = IF Contains(v, "dq") THEN s ELSE IF Blank(v) THEN d ELSE v
  BY DEF Quoted
<1>3. /\ ~Contains(v, "<<")
      /\ Contains(v, "sq") => ~Contains(v, "dq") /\ Blank(v)
      /\ q = v => Balanced(v)
  BY DEF Writable
<1> HIDE DEF q, d, s
<1>4. q \in Text
  BY <1>1, <1>2
<1>5. \/ ~Contains(v, "dq") /\ Same(q, d)
      \/ ~Contains(v, "sq") /\ Same(q, s)
      \/ (\A u \in {"sp", "dq", "sq"} : ~Contains(v, u)) /\ Balanced(v) /\ Same(q, v)
  BY <1>2, <1>3 DEF Same, Blank
<1>6. Gives(P \o (((<<"sp">> \o k) \o <<"=">>) \o q), F, S \cup {ArgSaid(k, v)})
  BY <1>3, <1>4, <1>5, GivesValue DEF d, s
<1> QED
  BY <1>6 DEF serializeArg, q

\* Short texts, unit by unit.
LEMMA Spelled ==
  ASSUME NEW a \in Units, NEW b \in Units, NEW c \in Units, NEW d \in Units
  PROVE  /\ Same((<<a>> \o <<b>>) \o <<c>>, <<a, b, c>>) /\ <<a, b, c>> \in Text
         /\ Same(<<a, b, c>> \o <<d>>, <<a, b, c, d>>) /\ <<a, b, c, d>> \in Text
<1>1. <<a>> \o <<b>> = Append(<<a>>, b) /\ Append(<<a>>, b) = <<a, b>> /\ <<a, b>> \in Text
  <2>1. <<a>> \in Text
    BY TextOps
  <2>2. Same(Append(<<a>>, b), <<a>> \o <<b>>)
    BY <2>1, TextOps
  <2>3. <<a, b>> = Append(<<a>>, b)
    OBVIOUS
  <2> QED
    BY <2>1, <2>2, <2>3, TextOps DEF Same
<1>2. <<a, b>> \o <<c>> = Append(<<a, b>>, c) /\ Append(<<a, b>>, c) = <<a, b, c>> /\ <<a, b, c>> \in Text
  <2>2. Same(Append(<<a, b>>, c), <<a, b>> \o <<c>>)
    BY <1>1, TextOps
  <2>3. <<a, b, c>> = Append(<<a, b>>, c)
    OBVIOUS
  <2>4. Append(<<a, b>>, c) \in Text
    BY <1>1, TextOps
  <2> QED
    BY <2>2, <2>3, <2>4 DEF Same
<1>3. <<a, b, c>> \o <<d>> = Append(<<a, b, c>>, d) /\ Append(<<a, b, c>>, d) = <<a, b, c, d>> /\ <<a, b, c, d>> \in Text
  <2>2. Same(Append(<<a, b, c>>, d), <<a, b, c>> \o <<d>>)
    BY <1>2, TextOps
  <2>3. <<a, b, c, d>> = Append(<<a, b, c>>, d)
    OBVIOUS
  <2>4. Append(<<a, b, c>>, d) \in Text
    BY <1>2, TextOps
  <2> QED
    BY <2>2, <2>3, <2>4 DEF Same
<1> QED
  BY <1>1, <1>2, <1>3 DEF Same

\* So do the args that are always in quotes.
LEMMA GivesInQuotes ==
  ASSUME NEW P \in Text, NEW F, NEW S, Gives(P, F, S), NEW c \in Plain,
         NEW v \in Text, WritableText(v), v # <<>>
  PROVE  Gives(P \o InQuotes(c, v), F, S \cup {ArgSaid(<<c>>, v)})
<1> DEFINE k == <<c>>
           d == (<<"dq">> \o v) \o <<"dq">>
           h == (<<"sp">> \o k) \o <<"=">>
           e == <<"sp", c, "=", "dq">>
<1>1. k \in Seq(Plain) /\ k \in Text /\ "sp" \in Units /\ "=" \in Units /\ "dq" \in Units /\ c \in Units
  BY PlainIs, Single
<1>2. d \in Text /\ h \in Text /\ e \in Text /\ <<"dq">> \in Text
  <2>1. <<"dq">> \in Text /\ <<"sp">> \in Text /\ <<"=">> \in Text
    BY PlainIs
  <2>2. <<"dq">> \o v \in Text /\ <<"sp">> \o k \in Text
    BY <1>1, <2>1, TextOps
  <2>3. d \in Text /\ h \in Text
    BY <2>1, <2>2, TextOps
  <2>4. e \in Text
    BY <1>1 DEF Text
  <2> QED
    BY <2>1, <2>3, <2>4
<1>3. ~Contains(v, "<<") /\ ~Contains(v, "dq")
  BY DEF WritableText
<1>4. Gives(P \o (h \o d), F, S \cup {ArgSaid(k, v)})
  <2>1. Same(d, (<<"dq">> \o v) \o <<"dq">>)
    BY DEF Same
  <2> HIDE DEF d, k
  <2> QED
    BY <1>1, <1>2, <1>3, <2>1, GivesValue
<1>5. h \o d = InQuotes(c, v)
  <2>1. InQuotes(c, v) = (e \o v) \o <<"dq">>
    BY DEF InQuotes, Optional
  <2>2. e = h \o <<"dq">>
    <3>1. /\ Same((<<"sp">> \o <<c>>) \o <<"=">>, <<"sp", c, "=">>)
          /\ Same(<<"sp", c, "=">> \o <<"dq">>, <<"sp", c, "=", "dq">>)
      BY <1>1, Spelled
    <3> QED
      BY <3>1 DEF Same
  <2>3. Same(h \o ((<<"dq">> \o v) \o <<"dq">>), ((h \o <<"dq">>) \o v) \o <<"dq">>)
    <3> HIDE DEF h
    <3> QED
      BY <1>2, FourInARow DEF Text
  <2> QED
    BY <2>1, <2>2, <2>3 DEF Same
<1> QED
  BY <1>4, <1>5

\* A name as a value, without quotes.
LEMMA NameIsBare ==
  ASSUME NEW v \in Name
  PROVE  /\ v \in Text /\ \A u \in Marks : ~Contains(v, u)
         /\ Balanced(v)
<1>1. v \in Text
  BY NoNames
<1>2. \A u \in Marks : ~Contains(v, u)
  <2>1. v \in Seq(Units \ Marks)
    BY DEF Name
  <2> QED
    BY <2>1, ContainsIn
<1>3. Balanced(v)
  <2>1. PICK n \in Nat : n = Len(v) /\ DOMAIN v = 1 .. n
    BY <1>1, LenProperties DEF Text
  <2>2. \A b \in Brackets : \A i \in DOMAIN v : v[i] # b
    <3>1. \A b \in Brackets : ~Contains(v, b)
      BY <1>2 DEF Brackets, Marks
    <3> QED
      BY <2>1, <3>1 DEF Contains
  <2> QED
    BY <2>2 DEF Balanced, Brackets
<1> QED
  BY <1>1, <1>2, <1>3

\* The code of an error is written as a name.
LEMMA GivesCode ==
  ASSUME NEW P \in Text, NEW F, NEW S, Gives(P, F, S), NEW v \in Name
  PROVE  Gives(P \o (<<"sp", "code", "=">> \o v), F, S \cup {ArgSaid(<<"code">>, v)})
<1>1. v \in Text /\ (\A u \in {"sp", "dq", "sq", "<<"} : ~Contains(v, u)) /\ Balanced(v)
  BY NameIsBare DEF Marks
<1>2. <<"code">> \in Seq(Plain)
  BY PlainIs, Single
<1>3. Gives(P \o (((<<"sp">> \o <<"code">>) \o <<"=">>) \o v), F, S \cup {ArgSaid(<<"code">>, v)})
  <2>1. Same(v, v)
    BY DEF Same
  <2> QED
    BY <1>1, <1>2, <2>1, GivesValue
<1>4. (<<"sp">> \o <<"code">>) \o <<"=">> = <<"sp", "code", "=">>
  <2>1. "sp" \in Units /\ "code" \in Units /\ "=" \in Units
    BY PlainIs
  <2>2. Same((<<"sp">> \o <<"code">>) \o <<"=">>, <<"sp", "code", "=">>)
    BY <2>1, Spelled
  <2> QED
    BY <2>2 DEF Same
<1> QED
  BY <1>3, <1>4

----------------------------------------------------------------------------
(* Blocks *)

\* A block opens,
LEMMA BlockBegins ==
  ASSUME NEW P \in Text, NEW F, NEW S, Gives(P, F, S), NEW k \in Seq(Plain)
  PROVE  InBlock(P \o (((<<"sp">> \o k) \o <<"=">>) \o <<"<<">>), k, <<>>, F, S)
<1> DEFINE h == (<<"sp">> \o k) \o <<"=">>
           a == P \o h
           e == k \o <<"=">>
           o == <<"<<">>
<1>1. a \in Text /\ e \in Text /\ Within(a, "arg", e, F, S)
  BY GivesKey
<1>2. h \in Text /\ o \in Text /\ "<<" \in Units
  <2>1. k \in Text /\ <<"sp">> \in Text /\ <<"=">> \in Text
    BY PlainIs
  <2>2. <<"sp">> \o k \in Text
    BY <2>1, TextOps
  <2> QED
    BY <2>1, <2>2, TextOps, PlainIs
<1>3. Same((P \o h) \o o, P \o (h \o o))
  <2> HIDE DEF h, o
  <2> QED
    BY <1>2, TextAssociative
<1> HIDE DEF a, e
<1>4. PICK T : Reads(a, "arg", e, T) /\ Means(T, F, S)
  BY <1>1 DEF Within
<1>5. Sits(Append(a, "<<"), "triangles", "arg", Append(e, "<<"), T)
  BY <1>1, <1>4, SitsBegin
<1>6. Same(Append(a, "<<"), a \o o) /\ Same(Append(e, "<<"), e \o o) /\ Same((e \o o) \o <<>>, e \o o)
  <2>1. Same(Append(a, "<<"), a \o <<"<<">>) /\ Same(Append(e, "<<"), e \o <<"<<">>)
    BY <1>1, <1>2, TextOps
  <2> HIDE DEF o
  <2>2. e \o o \in Text
    BY <1>1, <1>2, TextOps
  <2> QED
    BY <2>1, <2>2, TextOps DEF o
<1>7. Sits(a \o o, "triangles", "arg", (e \o o) \o <<>>, T)
  BY <1>5, <1>6 DEF Same
<1>8. InBlock(a \o o, k, <<>>, F, S)
  BY <1>4, <1>7 DEF InBlock, e
<1> QED
  BY <1>3, <1>8 DEF Same, a

\* goes on
LEMMA BlockOn ==
  ASSUME NEW P \in Text, NEW F, NEW S, NEW k \in Text, NEW w \in Text, InBlock(P, k, w, F, S),
         NEW x \in Text, ~Contains(x, ">>")
  PROVE  InBlock(P \o x, k, w \o x, F, S)
<1> DEFINE e == (k \o <<"=">>) \o <<"<<">>
           y == e \o w
<1>1. e \in Text
  <2>1. <<"=">> \in Text /\ <<"<<">> \in Text
    BY PlainIs
  <2>2. k \o <<"=">> \in Text
    BY <2>1, TextOps
  <2> QED
    BY <2>1, <2>2, TextOps
<1>2. PICK T : Sits(P, "triangles", "arg", y, T) /\ Means(T, F, S)
  BY DEF InBlock
<1>3. y \in Text
  <2> HIDE DEF e
  <2> QED
    BY <1>1, TextOps
<1>4. Same(y \o x, e \o (w \o x))
  <2> HIDE DEF e
  <2> QED
    BY <1>1, TextAssociative
<1> HIDE DEF y
<1>5. Sits(P \o x, "triangles", "arg", y \o x, T)
  <2>1. Ends("triangles") = ">>"
    BY DEF Ends
  <2> QED
    BY <1>2, <1>3, <2>1, SitsText
<1> QED
  BY <1>2, <1>4, <1>5 DEF InBlock, Same

\* and ends, if a newline that is its own does not come first where one is dropped.
LEMMA BlockEnds ==
  ASSUME NEW P \in Text, NEW F, NEW S, NEW k \in Seq(Plain), NEW v \in Text, v # <<>>,
         NEW lead \in {<<"nl">>, <<>>}, lead = <<>> => Head(v) # "nl",
         InBlock(P, k, lead \o Append(v, "nl"), F, S)
  PROVE  Gives(P \o <<">>">>, F, S \cup {ArgSaid(k, v)})
<1> DEFINE e == k \o <<"=">>
           w == lead \o Append(v, "nl")
           y == (e \o <<"<<">>) \o w
           b == (<<"<<">> \o w) \o <<">>">>
<1>1. k \in Text /\ e \in Text /\ w \in Text /\ <<"<<">> \in Text /\ <<">>">> \in Text /\ ">>" \in Units
  <2>1. k \in Text /\ <<"=">> \in Text /\ <<"<<">> \in Text /\ <<">>">> \in Text /\ ">>" \in Units /\ "nl" \in Units
        /\ <<"nl">> \in Text
    BY PlainIs
  <2>2. e \in Text /\ Append(v, "nl") \in Text /\ lead \in Text
    BY <2>1, TextOps
  <2> QED
    BY <2>1, <2>2, TextOps
<1>2. PICK T : Sits(P, "triangles", "arg", y, T) /\ Means(T, F, S)
  BY DEF InBlock
<1> HIDE DEF e, w
<1>3. y \in Text /\ b \in Text /\ <<"<<">> \o w \in Text /\ e \o <<"<<">> \in Text
  <2>1. <<"<<">> \o w \in Text /\ e \o <<"<<">> \in Text
    BY <1>1, TextOps
  <2> QED
    BY <1>1, <2>1, TextOps
<1>4. Same(Append(y, ">>"), e \o b)
  <2>1. Same(Append(y, ">>"), y \o <<">>">>)
    BY <1>1, <1>3, TextOps
  <2>2. Same(e \o ((<<"<<">> \o w) \o <<">>">>), ((e \o <<"<<">>) \o w) \o <<">>">>)
    BY <1>1, FourInARow DEF Text
  <2> QED
    BY <2>1, <2>2 DEF Same
<1>5. Append(y, ">>") # <<>> /\ Append(P, ">>") \in Text /\ Same(Append(P, ">>"), P \o <<">>">>)
  <2> HIDE DEF y
  <2>1. Contains(Append(y, ">>"), ">>")
    BY <1>1, <1>3, TextContains
  <2> QED
    BY <1>1, <2>1, TextContains, TextOps
<1> HIDE DEF y
<1>6. Reads(Append(P, ">>"), "arg", Append(y, ">>"), T)
  BY <1>2, SitsEnd
<1>7. Gives(Append(P, ">>"), F, S \cup {Meaning([type |-> "arg", value |-> Append(y, ">>")])})
  BY <1>2, <1>5, <1>6, GivesEnd DEF Within
<1>8. Unblock(b) = v
  BY UnblockBlock DEF w
<1> HIDE DEF b
<1>9. Meaning([type |-> "arg", value |-> e \o b]) = ArgSaid(k, v)
  BY <1>3, <1>8, ArgMeaning DEF e
<1> QED
  BY <1>4, <1>5, <1>7, <1>9 DEF Same

----------------------------------------------------------------------------
(* The parts of a message *)

Flagged(flags) == {WordSaid(f) : f \in flags}

\* Flags are words.
LEMMA GivesFlags ==
  ASSUME NEW P \in Text, NEW F, NEW S, Gives(P, F, S), NEW flags, flags \subseteq Words
  PROVE  Gives(P \o serializeFlags(flags), F, S \cup Flagged(flags))
<1> DEFINE g(i) == Optional(FlagOrder[i] \in flags, <<"sp">> \o FlagOrder[i])
           L == [i \in DOMAIN FlagOrder |-> g(i)]
           n == Len(FlagOrder)
           A(i) == {WordSaid(FlagOrder[j]) : j \in {h \in 1 .. i : FlagOrder[h] \in flags}}
<1>1. n \in Nat /\ DOMAIN FlagOrder = 1 .. n /\ \A i \in 1 .. n : FlagOrder[i] \in Name \ {<<>>}
  BY OrdersType
<1>2. \A i \in 1 .. n : g(i) \in Text
  <2> SUFFICES ASSUME NEW i \in 1 .. n PROVE g(i) \in Text
    OBVIOUS
  <2>1. FlagOrder[i] \in Text /\ <<"sp">> \in Text /\ <<>> \in Text
    BY <1>1, PlainIs, NoNames
  <2>2. <<"sp">> \o FlagOrder[i] \in Text
    BY <2>1, TextOps
  <2> QED
    BY <2>1, <2>2 DEF Optional
<1> HIDE DEF g, n
<1>3. L \in Seq(Text) /\ Len(L) = n /\ \A i \in 1 .. n : L[i] = g(i)
  <2>1. L \in [1 .. n -> Text]
    BY <1>1, <1>2
  <2>2. L \in Seq(Text) /\ Len(L) = n
    BY <1>1, <2>1, FunctionIsSeq
  <2> QED
    BY <1>1, <2>2
<1>4. serializeFlags(flags) = FlattenSeq(L)
  BY DEF serializeFlags, g
<1>5. Flagged(flags) = A(n)
  <2>1. \A f \in flags : \E j \in 1 .. n : f = FlagOrder[j]
    BY <1>1 DEF Words, ToSet
  <2>2. \A w \in Flagged(flags) : w \in A(n)
    BY <2>1 DEF Flagged
  <2>3. \A w \in A(n) : w \in Flagged(flags)
    BY DEF Flagged
  <2> QED
    BY <2>2, <2>3
<1> HIDE DEF L
<1>6. CASE n = 0
  <2>1. FlattenSeq(L) = <<>>
    BY <1>3, <1>6, FlattenType, EmptySeq DEF Text
  <2>2. A(n) = {}
    BY <1>6
  <2>3. Same(P \o <<>>, P)
    BY TextOps
  <2> QED
    BY <1>4, <1>5, <2>1, <2>2, <2>3 DEF Same
<1>7. CASE n # 0
  <2>1. PICK f : FlattenSeq(L) = f[n] /\ Joins(f, L, n, Units)
    BY <1>1, <1>3, <1>7, FlattenFunction DEF Text
  <2> DEFINE Good(i) == Gives(P \o f[i], F, S \cup A(i))
  <2>2. \A i \in 1 .. n : f[i] \in Text /\ g(i) \in Text
    BY <1>2, <2>1 DEF Joins, Text
  <2>3. ASSUME NEW i \in 1 .. n, NEW Q \in Text, NEW R, Gives(Q, F, R)
        PROVE  Gives(Q \o g(i), F, R \cup (IF FlagOrder[i] \in flags THEN {WordSaid(FlagOrder[i])} ELSE {}))
    <3>1. CASE FlagOrder[i] \in flags
      <4>1. FlagOrder[i] \in Seq(Plain) /\ FlagOrder[i] # <<>>
        BY <1>1, PlainIs
      <4>2. Gives(Q \o (<<"sp">> \o FlagOrder[i]), F, R \cup {WordSaid(FlagOrder[i])})
        BY <2>3, <4>1, GivesWord
      <4> QED
        BY <3>1, <4>2 DEF g, Optional
    <3>2. CASE FlagOrder[i] \notin flags
      <4>1. g(i) = <<>> /\ Same(Q \o <<>>, Q) /\ R \cup {} = R
        BY <3>2, TextOps DEF g, Optional
      <4> QED
        BY <2>3, <3>2, <4>1 DEF Same
    <3> QED
      BY <3>1, <3>2
  <2>4. \A i \in 0 .. n - 1 :
          A(i + 1) = A(i) \cup (IF FlagOrder[i + 1] \in flags THEN {WordSaid(FlagOrder[i + 1])} ELSE {})
    <3> SUFFICES ASSUME NEW i \in 0 .. n - 1
                 PROVE  A(i + 1) = A(i) \cup (IF FlagOrder[i + 1] \in flags THEN {WordSaid(FlagOrder[i + 1])} ELSE {})
      OBVIOUS
    <3>1. {h \in 1 .. i + 1 : FlagOrder[h] \in flags}
            = {h \in 1 .. i : FlagOrder[h] \in flags} \cup (IF FlagOrder[i + 1] \in flags THEN {i + 1} ELSE {})
      <4>1. 1 .. i + 1 = (1 .. i) \cup {i + 1}
        BY <1>1
      <4> QED
        BY <4>1
    <3> QED
      BY <3>1
  <2>5. Good(1)
    <3>1. A(0) = {} /\ 0 \in 0 .. n - 1 /\ 0 + 1 = 1 /\ 1 \in 1 .. n
      BY <1>1, <1>7
    <3>2. A(1) = IF FlagOrder[1] \in flags THEN {WordSaid(FlagOrder[1])} ELSE {}
      BY <2>4, <3>1
    <3>3. f[1] = g(1)
      BY <1>3, <2>1, <3>1 DEF Joins
    <3> HIDE DEF A
    <3> QED
      BY <2>3, <3>1, <3>2, <3>3
  <2>6. ASSUME NEW i \in 1 .. n - 1, Good(i) PROVE Good(i + 1)
    <3>1. i + 1 \in 2 .. n /\ i + 1 \in 1 .. n /\ i \in 1 .. n /\ i \in 0 .. n - 1 /\ (i + 1) - 1 = i
      BY <1>1
    <3>2. f[i + 1] = f[i] \o g(i + 1)
      BY <1>3, <2>1, <3>1 DEF Joins
    <3> DEFINE R == S \cup A(i)
               B == IF FlagOrder[i + 1] \in flags THEN {WordSaid(FlagOrder[i + 1])} ELSE {}
    <3>3. S \cup A(i + 1) = R \cup B
      BY <2>4, <3>1
    <3>4. Gives(P \o f[i], F, R) /\ P \o f[i] \in Text /\ f[i] \in Text /\ g(i + 1) \in Text
      BY <2>2, <2>6, <3>1, TextOps
    <3> HIDE DEF R, A
    <3>5. Gives((P \o f[i]) \o g(i + 1), F, R \cup B)
      BY <2>3, <3>1, <3>4
    <3>6. Same((P \o f[i]) \o g(i + 1), P \o (f[i] \o g(i + 1)))
      BY <3>4, TextAssociative
    <3> QED
      BY <3>2, <3>3, <3>5, <3>6 DEF Same
  <2>7. Good(n)
    <3> DEFINE B == {i \in 1 .. n : ~Good(i)}
    <3> HIDE DEF Good
    <3>1. \A i \in B : i - 1 \in B
      <4> SUFFICES ASSUME NEW i \in B PROVE i - 1 \in B
        OBVIOUS
      <4>1. i # 1
        BY <2>5
      <4>2. i - 1 \in 1 .. n - 1 /\ (i - 1) + 1 = i
        BY <1>1, <4>1
      <4> QED
        BY <1>1, <2>6, <4>2
    <3>2. B \subseteq Nat
      BY <1>1
    <3> HIDE DEF B
    <3>3. B = {}
      BY <3>1, <3>2, NoFirst
    <3> QED
      BY <1>1, <1>7, <3>3 DEF B
  <2> QED
    BY <1>4, <1>5, <2>1, <2>7
<1> QED
  BY <1>6, <1>7

\* The first tokens of a message, which tell its type.
WordToken(w) == [type |-> "none", value |-> w]

First(m) ==
  CASE m.type = "request"              -> <<WordToken(m.command)>>
    [] m.type \in {"response", "error"} -> <<AddressToken(m)>>
    [] m.type = "witness"              -> <<WordToken(<<"witness">>)>>
    [] m.type = "publish"              -> <<WordToken(<<"publish">>), WordToken(m.command)>>

\* What is said before the args, and after them.
Leads(m) ==
  CASE m.type = "request"  -> {<<"handle", <<"~">> \o m.handle>>}
    [] m.type = "response" -> {WordSaid(<<"ok">>)} \cup Flagged(m.flags \ {<<"ok">>})
    [] m.type = "error"    -> {WordSaid(<<"error">>), ArgSaid(<<"code">>, m.code), ArgSaid(<<"what">>, m.text)}
    [] m.type = "witness"  -> {ArgSaid(<<"body">>, m.text)}
    [] m.type = "publish"  -> {}

Trails(m) ==
  CASE m.type = "response" -> {}
    [] m.type = "error"    -> Flagged(m.flags) \cup {WordSaid(<<"node_error">>)}
    [] OTHER               -> Flagged(m.flags)

\* A text of one word.
LEMMA GivesFirst ==
  ASSUME NEW w \in Seq(Plain), w # <<>>
  PROVE  /\ w \in Text /\ WordToken(w) \in Tokens /\ Reads(w, "none", w, <<>>)
         /\ Ended(<<>>, "none", w) = <<WordToken(w)>>
         /\ Gives(w, <<WordToken(w)>>, {})
<1>1. w \in Text
  BY PlainIs
<1>2. Reads(w, "none", w, <<>>)
  <2>1. Reads(<<>> \o w, "none", <<>> \o w, <<>>)
    BY ReadsNothing, ReadsPlain, TextOps
  <2>2. Same(<<>> \o w, w)
    BY <1>1, TextOps
  <2> QED
    BY <2>1, <2>2 DEF Same
<1>3. WordToken(w) \in Tokens
  BY <1>1 DEF WordToken, Tokens, Kinds
<1>4. Ended(<<>>, "none", w) = <<WordToken(w)>>
  <2>1. Ended(<<>>, "none", w) = Append(<<>>, WordToken(w))
    BY DEF Ended, WordToken
  <2> QED
    BY <2>1
<1>5. Means(<<WordToken(w)>>, <<WordToken(w)>>, {})
  BY <1>3, MeansFirst, Single
<1> QED
  BY <1>1, <1>2, <1>3, <1>4, <1>5 DEF Gives

\* The address and the status of a response.
LEMMA AnswerGives ==
  ASSUME NEW m \in Sendable, Response(m), m.handle # <<>>
  PROVE  Answer(m) \in Text /\ Gives(Answer(m), <<AddressToken(m)>>, {WordSaid(<<StatusWord(m)>>)})
<1> DEFINE F == <<AddressToken(m)>>
           w == <<StatusWord(m)>>
<1>1. Answer(m) \in Text /\ Reads(Answer(m), "none", w, F) /\ AddressToken(m) \in Tokens
  BY AnswerIs, AnswerTokens
<1>2. F \in Seq(Tokens)
  BY <1>1, Single
<1>3. Means(F, F, {})
  BY <1>2, MeansFirst
<1>4. w # <<>>
  OBVIOUS
<1> HIDE DEF F, w
<1>5. Gives(Answer(m), F, {} \cup {Meaning([type |-> "none", value |-> w])})
  BY <1>1, <1>3, <1>4, GivesEnd DEF Within
<1>6. Meaning([type |-> "none", value |-> w]) = WordSaid(w)
  BY DEF Meaning, WordSaid
<1> QED
  BY <1>1, <1>5, <1>6 DEF F, w

\* What comes before the args.
LEMMA OpeningGives ==
  ASSUME NEW m \in Sendable, Entire(m), WritableText(m.text)
  PROVE  Opening(m) \in Text /\ Gives(Opening(m), First(m), Leads(m))
<1>1. /\ m.type \in Types /\ m.command \in Name /\ m.handle \in Name /\ m.code \in Name /\ m.text \in Text
      /\ m.flags \subseteq Words /\ Opening(m) \in Text
  BY SerializeIs DEF Sendable
<1>2. m.command \in Seq(Plain) /\ m.handle \in Seq(Plain) /\ m.code \in Seq(Plain)
  BY <1>1, PlainIs
<1>3. CASE m.type = "request"
  <2>1. m.command # <<>> /\ m.handle # <<>>
    BY <1>3 DEF Entire
  <2>2. Opening(m) = m.command \o (<<"sp", "~">> \o m.handle)
    BY <1>3, <2>1 DEF Opening, Optional
  <2>3. m.command \in Text /\ Gives(m.command, <<WordToken(m.command)>>, {})
    BY <1>2, <2>1, GivesFirst
  <2>4. Gives(Opening(m), <<WordToken(m.command)>>, {} \cup {<<"handle", <<"~">> \o m.handle>>})
    <3> DEFINE F == <<WordToken(m.command)>>
               w == m.handle
               c == m.command
    <3>1. c \in Text /\ Gives(c, F, {}) /\ w \in Seq(Plain)
      BY <1>2, <2>3
    <3> HIDE DEF F, w, c
    <3>2. Gives(c \o (<<"sp", "~">> \o w), F, {} \cup {<<"handle", <<"~">> \o w>>})
      BY <3>1, GivesHandle
    <3> QED
      BY <2>2, <3>2 DEF F, w, c
  <2> QED
    BY <1>1, <1>3, <2>4 DEF First, Leads
<1>4. CASE m.type = "response"
  <2>1. m.handle # <<>> /\ Response(m)
    BY <1>4 DEF Entire, Response
  <2>2. Answer(m) \in Text /\ Gives(Answer(m), <<AddressToken(m)>>, {WordSaid(<<"ok">>)})
    BY <1>4, <2>1, AnswerGives DEF StatusWord
  <2>3. Opening(m) = Answer(m) \o serializeFlags(m.flags \ {<<"ok">>})
    BY <1>4 DEF Opening, Answer
  <2>4. m.flags \ {<<"ok">>} \subseteq Words
    BY <1>1
  <2>5. Gives(Opening(m), <<AddressToken(m)>>, {WordSaid(<<"ok">>)} \cup Flagged(m.flags \ {<<"ok">>}))
    <3> DEFINE F == <<AddressToken(m)>>
               S == {WordSaid(<<"ok">>)}
               f == m.flags \ {<<"ok">>}
    <3> HIDE DEF F, S, f
    <3>1. Gives(Answer(m) \o serializeFlags(f), F, S \cup Flagged(f))
      BY <2>2, <2>4, GivesFlags DEF F, S, f
    <3> QED
      BY <2>3, <3>1 DEF F, S, f
  <2> QED
    BY <1>1, <1>4, <2>5 DEF First, Leads
<1>5. CASE m.type = "error"
  <2>1. m.handle # <<>> /\ m.code # <<>> /\ m.text # <<>> /\ Response(m)
    BY <1>5 DEF Entire, Response
  <2> DEFINE a == Answer(m)
             b == a \o (<<"sp", "code", "=">> \o m.code)
             F == <<AddressToken(m)>>
             S == {WordSaid(<<"error">>)}
  <2>2. a \in Text /\ Gives(a, F, S)
    BY <1>5, <2>1, AnswerGives DEF StatusWord
  <2>3. Opening(m) = b \o InQuotes("what", m.text)
    BY <1>5, <2>1 DEF Opening, Answer, Optional
  <2> HIDE DEF a, F, S
  <2>4. b \in Text
    <3>1. m.code \in Text /\ <<"sp", "code", "=">> \in Text
      <4>1. "sp" \in Units /\ "code" \in Units /\ "=" \in Units
        BY PlainIs
      <4> QED
        BY <1>2, <4>1, PlainIs, Spelled
    <3>2. <<"sp", "code", "=">> \o m.code \in Text
      BY <3>1, TextOps
    <3> QED
      BY <2>2, <3>2, TextOps
  <2>5. Gives(b, F, S \cup {ArgSaid(<<"code">>, m.code)})
    BY <1>1, <2>2, GivesCode
  <2> HIDE DEF b
  <2>6. Gives(b \o InQuotes("what", m.text), F,
              (S \cup {ArgSaid(<<"code">>, m.code)}) \cup {ArgSaid(<<"what">>, m.text)})
    BY <1>1, <2>1, <2>4, <2>5, PlainIs, GivesInQuotes
  <2>7. Leads(m) = (S \cup {ArgSaid(<<"code">>, m.code)}) \cup {ArgSaid(<<"what">>, m.text)}
    BY <1>5 DEF Leads, S
  <2> QED
    BY <1>1, <1>5, <2>3, <2>6, <2>7 DEF First, F
<1>6. CASE m.type = "witness"
  <2>1. m.text # <<>>
    BY <1>6 DEF Entire
  <2> DEFINE a == <<"witness">>
  <2>2. a \in Seq(Plain) /\ a # <<>>
    BY PlainIs, Single
  <2>3. Opening(m) = a \o InQuotes("body", m.text)
    BY <1>6 DEF Opening
  <2> HIDE DEF a
  <2>4. a \in Text /\ Gives(a, <<WordToken(a)>>, {})
    BY <2>2, GivesFirst
  <2>5. Gives(a \o InQuotes("body", m.text), <<WordToken(a)>>, {} \cup {ArgSaid(<<"body">>, m.text)})
    BY <1>1, <2>1, <2>4, PlainIs, GivesInQuotes
  <2>6. Leads(m) = {} \cup {ArgSaid(<<"body">>, m.text)}
    BY <1>6 DEF Leads
  <2> QED
    BY <1>1, <1>6, <2>3, <2>5, <2>6 DEF First, a
<1>7. CASE m.type = "publish"
  <2>1. m.command # <<>>
    BY <1>7 DEF Entire
  <2> DEFINE a == <<"publish">>
             s == Append(a, "sp")
             c == m.command
             F == <<WordToken(a), WordToken(c)>>
  <2>2. a \in Seq(Plain) /\ a # <<>> /\ <<"sp">> \in Text
    BY PlainIs, Single
  <2>3. Opening(m) = a \o (<<"sp">> \o c)
    BY <1>7, <2>1 DEF Opening, Optional
  <2> HIDE DEF a
  <2>4. /\ a \in Text /\ WordToken(a) \in Tokens /\ WordToken(c) \in Tokens /\ c \in Text
        /\ Reads(a, "none", a, <<>>) /\ Ended(<<>>, "none", a) = <<WordToken(a)>>
    BY <1>2, <2>1, <2>2, GivesFirst
  <2>5. Reads(s, "none", <<>>, <<WordToken(a)>>) /\ s \in Text /\ Same(s, a \o <<"sp">>)
    <3>1. Reads(s, "none", <<>>, Ended(<<>>, "none", a))
      BY <2>4, ReadsSpace
    <3>2. "sp" \in Units
      BY PlainIs
    <3>3. s \in Text /\ Same(s, a \o <<"sp">>)
      BY <2>4, <3>2, TextOps
    <3> QED
      BY <2>4, <3>1, <3>3
  <2> HIDE DEF s
  <2>6. Reads(s \o c, "none", c, <<WordToken(a)>>)
    <3>1. Reads(s \o c, "none", <<>> \o c, <<WordToken(a)>>)
      BY <1>2, <2>5, ReadsPlain
    <3>2. Same(<<>> \o c, c)
      BY <2>4, TextOps
    <3> QED
      BY <3>1, <3>2 DEF Same
  <2>7. Ended(<<WordToken(a)>>, "none", c) = F
    <3>1. Ended(<<WordToken(a)>>, "none", c) = Append(<<WordToken(a)>>, WordToken(c))
      BY <2>1 DEF Ended, WordToken
    <3> QED
      BY <3>1
  <2>8. F \in Seq(Tokens)
    BY <2>4
  <2>9. Means(F, F, {})
    <3> HIDE DEF F
    <3> QED
      BY <2>8, MeansFirst
  <2>10. Gives(s \o c, F, {})
    <3> HIDE DEF F
    <3> QED
      BY <2>1, <2>6, <2>7, <2>9 DEF Gives
  <2>11. Same((a \o <<"sp">>) \o c, a \o (<<"sp">> \o c))
    BY <2>2, <2>4, TextAssociative
  <2>12. Leads(m) = {} /\ First(m) = F
    BY <1>7 DEF Leads, First, a
  <2> QED
    BY <1>1, <2>3, <2>5, <2>10, <2>11, <2>12 DEF Same
<1> QED
  BY <1>1, <1>3, <1>4, <1>5, <1>6, <1>7 DEF Types

\* What comes after the args.
LEMMA EndingGives ==
  ASSUME NEW m \in Sendable, NEW P \in Text, NEW F, NEW S, Gives(P, F, S)
  PROVE  Gives(P \o Ending(m), F, S \cup Trails(m))
<1>1. m.type \in Types /\ m.flags \subseteq Words
  BY DEF Sendable
<1>2. Gives(P \o serializeFlags(m.flags), F, S \cup Flagged(m.flags))
  BY <1>1, GivesFlags
<1>3. CASE m.type = "response"
  <2>1. Ending(m) = <<>> /\ Trails(m) = {}
    BY <1>3 DEF Ending, Trails
  <2>2. Same(P \o <<>>, P) /\ S \cup {} = S
    BY TextOps
  <2> QED
    BY <2>1, <2>2 DEF Same
<1>4. CASE m.type = "error"
  <2> DEFINE f == serializeFlags(m.flags)
             w == <<"node_error">>
             R == S \cup Flagged(m.flags)
  <2>1. f \in Text /\ <<"sp">> \in Text /\ w \in Seq(Plain) /\ w \in Text /\ w # <<>>
    <3>1. w \in Seq(Plain) /\ w # <<>>
      BY PlainIs, Single
    <3>2. w \in Text /\ <<"sp">> \in Text
      BY <3>1, PlainIs
    <3> QED
      BY <3>1, <3>2, FlagsSpaced
  <2>2. Ending(m) = f \o <<"sp", "node_error">> /\ Trails(m) = Flagged(m.flags) \cup {WordSaid(w)}
    BY <1>4 DEF Ending, Trails
  <2>3. <<"sp", "node_error">> = <<"sp">> \o w
    <3>1. "node_error" \in Units
      BY PlainIs
    <3>2. Same(Append(<<"sp">>, "node_error"), <<"sp">> \o <<"node_error">>)
      BY <2>1, <3>1, TextOps
    <3>3. <<"sp", "node_error">> = Append(<<"sp">>, "node_error")
      OBVIOUS
    <3> QED
      BY <3>2, <3>3 DEF Same
  <2> HIDE DEF f, w
  <2>4. P \o f \in Text /\ Gives(P \o f, F, R)
    BY <1>2, <2>1, TextOps DEF f
  <2>5. Gives((P \o f) \o (<<"sp">> \o w), F, R \cup {WordSaid(w)})
    BY <2>1, <2>4, GivesWord
  <2>6. Same((P \o f) \o (<<"sp">> \o w), P \o (f \o (<<"sp">> \o w)))
    <3>1. <<"sp">> \o w \in Text
      BY <2>1, TextOps
    <3> QED
      BY <2>1, <3>1, TextAssociative
  <2>7. R \cup {WordSaid(w)} = S \cup Trails(m)
    BY <2>2
  <2> QED
    BY <2>2, <2>3, <2>5, <2>6, <2>7 DEF Same
<1>5. CASE m.type \notin {"response", "error"}
  <2>1. Ending(m) = serializeFlags(m.flags) /\ Trails(m) = Flagged(m.flags)
    BY <1>5 DEF Ending, Trails
  <2> QED
    BY <1>2, <2>1
<1> QED
  BY <1>3, <1>4, <1>5

----------------------------------------------------------------------------
(* What the parser makes of the tokens *)

\* The tokens of one kind.
LEMMA OfTypeIs ==
  ASSUME NEW k
  PROVE  \A T \in Seq(Tokens) : /\ OfType(T, k) \in Seq(Tokens)
                                /\ \A x : Contains(OfType(T, k), x) <=> Contains(T, x) /\ x.type = k
<1> DEFINE Good(T) == \A x : Contains(OfType(T, k), x) <=> Contains(T, x) /\ x.type = k
           G == {T \in Seq(Tokens) : Good(T)}
<1>1. <<>> \in G
  <2>1. \A x : ~Contains(<<>>, x)
    BY DEF Contains
  <2>2. OfType(<<>>, k) = <<>>
    <3>1. \A T \in Seq(Tokens), t \in Tokens : OfType(<<>>, k) = <<>>
      BY OfTypeAppend
    <3>2. WordToken(<<>>) \in Tokens
      BY TextOps DEF WordToken, Tokens, Kinds
    <3> QED
      BY <3>1, <3>2, EmptySeq
  <2> QED
    BY <2>1, <2>2, EmptySeq
<1>2. ASSUME NEW p \in Seq(Tokens), NEW t \in Tokens, p \in G PROVE Append(p, t) \in G
  <2> DEFINE l == Append(p, t)
             o == OfType(p, k)
             q == Picked(t, k)
  <2>1. o \in Seq(Tokens) /\ q \in Seq(Tokens) /\ Same(OfType(l, k), o \o q)
    BY OfTypeAppend
  <2>2. l = p \o <<t>> /\ <<t>> \in Seq(Tokens)
    BY AppendOne
  <2>3. \A x : Contains(l, x) <=> Contains(p, x) \/ x = t
    <3>1. \A x : Contains(p \o <<t>>, x) <=> Contains(p, x) \/ Contains(<<t>>, x)
      BY <2>2, Joined
    <3>2. \A x : Contains(<<t>>, x) <=> x = t
      BY Single
    <3> QED
      BY <2>2, <3>1, <3>2
  <2>4. \A x : Contains(q, x) <=> x = t /\ t.type = k
    <3>1. \A x : Contains(<<t>>, x) <=> x = t
      BY Single
    <3>2. \A x : ~Contains(<<>>, x)
      BY DEF Contains
    <3> QED
      BY <3>1, <3>2 DEF Picked, Optional
  <2> HIDE DEF o, q, l
  <2>6. \A x : Contains(o \o q, x) <=> Contains(o, x) \/ Contains(q, x)
    BY <2>1, Joined
  <2>7. Good(l)
    BY <1>2, <2>1, <2>3, <2>4, <2>6 DEF Same, o
  <2>8. l \in Seq(Tokens)
    BY AppendProperties DEF l
  <2> QED
    BY <2>7, <2>8 DEF l
<1>3. \A T \in Seq(Tokens) : T \in G
  <2> HIDE DEF G
  <2> QED
    BY <1>1, <1>2, SeqInduction
<1>4. ASSUME NEW T \in Seq(Tokens) PROVE OfType(T, k) \in Seq(Tokens)
  <2>1. WordToken(<<>>) \in Tokens
    BY TextOps DEF WordToken, Tokens, Kinds
  <2> QED
    BY <2>1, OfTypeAppend
<1> QED
  BY <1>3, <1>4

\* The tokens after the first ones, by type.
LEMMA RestSays ==
  ASSUME NEW T, NEW F, NEW S, Means(T, F, S), NEW k \in Kinds
  PROVE  LET o == OfType(SubSeq(T, Len(F) + 1, Len(T)), k)
         IN  /\ o \in Seq(Tokens) /\ \A i \in DOMAIN o : o[i].type = k
             /\ \A x : (\E i \in DOMAIN o : Meaning(o[i]) = x) <=> x \in S /\ x[1] = k
<1> DEFINE r == SubSeq(T, Len(F) + 1, Len(T))
           o == OfType(r, k)
<1>1. PICK n \in Nat, f \in Nat : n = Len(T) /\ f = Len(F) /\ f <= n
  BY LenProperties DEF Means
<1>2. r \in Seq(Tokens) /\ \A x : Contains(r, x) <=> \E i \in f + 1 .. n : T[i] = x
  <2>1. SubSeq(T, f + 1, n) \in Seq(Tokens) /\ Len(SubSeq(T, f + 1, n)) = n - f
        /\ \A i \in 1 .. n - f : SubSeq(T, f + 1, n)[i] = T[f + i]
    BY <1>1, PartOf DEF Means
  <2>2. r \in Seq(Tokens) /\ Len(r) = n - f /\ \A i \in 1 .. n - f : r[i] = T[f + i]
    BY <1>1, <2>1
  <2> HIDE DEF r
  <2>3. ASSUME NEW x, Contains(r, x) PROVE \E i \in f + 1 .. n : T[i] = x
    <3>1. PICK i \in 1 .. n - f : r[i] = x
      BY <2>2, <2>3 DEF Contains
    <3>2. f + i \in f + 1 .. n /\ T[f + i] = x
      BY <1>1, <2>2, <3>1
    <3> QED
      BY <3>2
  <2>4. ASSUME NEW i \in f + 1 .. n PROVE Contains(r, T[i])
    <3>1. i - f \in 1 .. n - f /\ f + (i - f) = i
      BY <1>1
    <3>2. r[i - f] = T[i]
      BY <2>2, <3>1
    <3> QED
      BY <2>2, <3>1, <3>2 DEF Contains
  <2> QED
    BY <2>2, <2>3, <2>4
<1> HIDE DEF r
<1>3. o \in Seq(Tokens) /\ \A x : Contains(o, x) <=> Contains(r, x) /\ x.type = k
  BY <1>2, OfTypeIs
<1> HIDE DEF o
<1>4. DOMAIN o = 1 .. Len(o)
  BY <1>3, LenProperties
<1>5. \A i \in DOMAIN o : o[i].type = k
  BY <1>3, <1>4 DEF Contains
<1>6. S = {Meaning(T[i]) : i \in f + 1 .. n}
  BY <1>1 DEF Means
<1>7. \A t : Meaning(t)[1] = t.type
  BY DEF Meaning
<1>8. ASSUME NEW x, x \in S, x[1] = k PROVE \E i \in DOMAIN o : Meaning(o[i]) = x
  <2>1. PICK j \in f + 1 .. n : x = Meaning(T[j])
    BY <1>6, <1>8
  <2>2. T[j].type = k
    BY <1>7, <1>8, <2>1
  <2>3. Contains(o, T[j])
    BY <1>2, <1>3, <2>2
  <2> QED
    BY <1>4, <2>1, <2>3 DEF Contains
<1>9. ASSUME NEW i \in DOMAIN o PROVE Meaning(o[i]) \in S /\ Meaning(o[i])[1] = k
  <2>1. Contains(o, o[i])
    BY <1>4 DEF Contains
  <2>2. PICK j \in f + 1 .. n : T[j] = o[i]
    BY <1>2, <1>3, <2>1
  <2> QED
    BY <1>5, <1>6, <1>7, <2>2
<1> QED
  BY <1>3, <1>5, <1>8, <1>9 DEF o, r

\* A finite set of numbers has its largest one.
LEMMA MaxIsLargest ==
  ASSUME NEW n \in Nat, NEW S, S \subseteq 1 .. n, S # {}
  PROVE  Max(S) \in S /\ \A y \in S : Max(S) >= y
<1> DEFINE R == {n - i : i \in S}
           m == Min(R)
<1>1. R \subseteq Nat /\ R # {}
  <2>1. \A i \in S : i \in 1 .. n
    OBVIOUS
  <2>2. \A i \in 1 .. n : n - i \in Nat
    OBVIOUS
  <2> QED
    BY <2>1, <2>2
<1>2. m \in R /\ \A y \in R : m <= y
  <2> HIDE DEF R
  <2> QED
    BY <1>1, MinIsSmallest
<1> HIDE DEF m
<1>3. PICK x \in S : m = n - x
  BY <1>2
<1>4. \A y \in S : x >= y
  <2> SUFFICES ASSUME NEW y \in S PROVE x >= y
    OBVIOUS
  <2>1. n - y \in R
    OBVIOUS
  <2>2. n - x <= n - y
    BY <1>2, <1>3, <2>1
  <2>3. x \in Int /\ y \in Int
    OBVIOUS
  <2> QED
    BY <2>2, <2>3
<1> QED
  BY <1>4 DEF Max

\* A key that has one value.
Gets(pairs, k, v) ==
  /\ \E i \in DOMAIN pairs : pairs[i][1] = k
  /\ \A i \in DOMAIN pairs : pairs[i][1] = k => pairs[i][2] = v

\* What a key is given, however often, if it is the same every time.
LEMMA LookupIs ==
  ASSUME NEW V, NEW pairs \in Seq(V), NEW k, NEW v, Gets(pairs, k, v)
  PROVE  Lookup(pairs, k) = v
<1>1. PICK n \in Nat : n = Len(pairs) /\ DOMAIN pairs = 1 .. n
  BY LenProperties
<1> DEFINE I == {i \in 1 .. Len(pairs) : pairs[i][1] = k}
<1>2. I \subseteq 1 .. n /\ I # {}
  BY <1>1 DEF Gets
<1>3. SelectLastInSeq(pairs, LAMBDA p : p[1] = k) = IF I # {} THEN Max(I) ELSE 0
  BY DEF SelectLastInSeq
<1> HIDE DEF I
<1>4. Max(I) \in I
  BY <1>2, MaxIsLargest
<1>5. Max(I) \in 1 .. n /\ pairs[Max(I)][1] = k
  BY <1>1, <1>4 DEF I
<1>6. Max(I) # 0
  BY <1>5
<1>7. Lookup(pairs, k) = pairs[Max(I)][2]
  BY <1>2, <1>3, <1>6 DEF Lookup
<1> QED
  BY <1>1, <1>5, <1>7 DEF Gets

Pairs == {KeyValue(x.value) : x \in Tokens}

\* The args and flags of what build() returns.
Says(p, S) ==
  /\ p.args \in Seq(Pairs) /\ p.flags \in Seq(Text)
  /\ \A a : (\E i \in DOMAIN p.args : p.args[i] = a) <=> <<"arg", a>> \in S
  /\ \A w : Contains(p.flags, w) <=> <<"none", w>> \in S

\* They are in the tokens after the first.
LEMMA ArgsAndFlags ==
  ASSUME NEW T, NEW F, NEW S, Means(T, F, S), NEW p,
         p.args = [i \in DOMAIN OfType(SubSeq(T, Len(F) + 1, Len(T)), "arg") |->
                     KeyValue(OfType(SubSeq(T, Len(F) + 1, Len(T)), "arg")[i].value)],
         p.flags = [i \in DOMAIN OfType(SubSeq(T, Len(F) + 1, Len(T)), "none") |->
                      OfType(SubSeq(T, Len(F) + 1, Len(T)), "none")[i].value]
  PROVE  Says(p, S)
<1> DEFINE o == OfType(SubSeq(T, Len(F) + 1, Len(T)), "arg")
           u == OfType(SubSeq(T, Len(F) + 1, Len(T)), "none")
<1>1. /\ o \in Seq(Tokens) /\ \A i \in DOMAIN o : o[i].type = "arg"
      /\ \A x : (\E i \in DOMAIN o : Meaning(o[i]) = x) <=> x \in S /\ x[1] = "arg"
  BY RestSays DEF Kinds
<1>2. /\ u \in Seq(Tokens) /\ \A i \in DOMAIN u : u[i].type = "none"
      /\ \A x : (\E i \in DOMAIN u : Meaning(u[i]) = x) <=> x \in S /\ x[1] = "none"
  BY RestSays DEF Kinds
<1>3. p.args = [i \in DOMAIN o |-> KeyValue(o[i].value)] /\ p.flags = [i \in DOMAIN u |-> u[i].value]
  OBVIOUS
<1> HIDE DEF o, u
<1>4. p.args \in Seq(Pairs)
  <2>1. PICK n \in Nat : n = Len(o) /\ DOMAIN o = 1 .. n
    BY <1>1, LenProperties
  <2>2. \A i \in 1 .. n : KeyValue(o[i].value) \in Pairs
    BY <1>1, <2>1, ElementOfSeq DEF Pairs
  <2>3. p.args \in [1 .. n -> Pairs]
    BY <1>3, <2>1, <2>2
  <2> QED
    BY <2>3, FunctionIsSeq
<1>5. ASSUME NEW a PROVE (\E i \in DOMAIN p.args : p.args[i] = a) <=> <<"arg", a>> \in S
  <2>1. \A i \in DOMAIN o : Meaning(o[i]) = <<"arg", KeyValue(o[i].value)>>
    BY <1>1 DEF Meaning
  <2>2. (\E i \in DOMAIN o : Meaning(o[i]) = <<"arg", a>>) <=> <<"arg", a>> \in S
    <3>1. <<"arg", a>>[1] = "arg"
      OBVIOUS
    <3> QED
      BY <1>1, <3>1
  <2>3. \A i \in DOMAIN o : Meaning(o[i]) = <<"arg", a>> <=> KeyValue(o[i].value) = a
    BY <2>1
  <2> QED
    BY <1>3, <2>2, <2>3
<1>6. ASSUME NEW w PROVE p.flags \in Seq(Text) /\ (Contains(p.flags, w) <=> <<"none", w>> \in S)
  <2>1. \A i \in DOMAIN u : Meaning(u[i]) = <<"none", u[i].value>>
    BY <1>2 DEF Meaning
  <2>2. (\E i \in DOMAIN u : Meaning(u[i]) = <<"none", w>>) <=> <<"none", w>> \in S
    <3>1. <<"none", w>>[1] = "none"
      OBVIOUS
    <3> QED
      BY <1>2, <3>1
  <2>3. \A i \in DOMAIN u : Meaning(u[i]) = <<"none", w>> <=> u[i].value = w
    BY <2>1
  <2>4. PICK n \in Nat : n = Len(u) /\ DOMAIN u = 1 .. n
    BY <1>2, LenProperties
  <2>5. p.flags \in Seq(Text) /\ Len(p.flags) = n /\ \A i \in 1 .. n : p.flags[i] = u[i].value
    <3>0. \A i \in 1 .. n : u[i] \in Tokens
      BY <1>2, <2>4, ElementOfSeq
    <3>1. \A i \in 1 .. n : u[i].value \in Text
      BY <3>0 DEF Tokens
    <3>2. p.flags \in [1 .. n -> Text]
      BY <1>3, <2>4, <3>1
    <3> QED
      BY <1>3, <2>4, <3>2, FunctionIsSeq
  <2>6. Contains(p.flags, w) <=> \E i \in 1 .. n : u[i].value = w
    BY <2>5 DEF Contains
  <2> QED
    BY <2>2, <2>3, <2>4, <2>5, <2>6
<1> QED
  BY <1>4, <1>5, <1>6 DEF Says

\* The handle that a token of its own gives.
LEMMA HandleSays ==
  ASSUME NEW T, NEW F, NEW S, Means(T, F, S), NEW h,
         \A x : <<"handle", x>> \in S <=> x = h
  PROVE  LET o == OfType(SubSeq(T, Len(F) + 1, Len(T)), "handle")
         IN  o # <<>> /\ Last(o).value = h
<1> DEFINE o == OfType(SubSeq(T, Len(F) + 1, Len(T)), "handle")
<1>1. /\ o \in Seq(Tokens) /\ \A i \in DOMAIN o : o[i].type = "handle"
      /\ \A x : (\E i \in DOMAIN o : Meaning(o[i]) = x) <=> x \in S /\ x[1] = "handle"
  BY RestSays DEF Kinds
<1> HIDE DEF o
<1>2. PICK n \in Nat : n = Len(o) /\ DOMAIN o = 1 .. n
  BY <1>1, LenProperties
<1>3. <<"handle", h>> \in S /\ <<"handle", h>>[1] = "handle"
  OBVIOUS
<1>4. PICK i \in 1 .. n : Meaning(o[i]) = <<"handle", h>>
  BY <1>1, <1>2, <1>3
<1>5. n \in 1 .. n
  BY <1>4
<1>6. Meaning(o[n]) \in S /\ Meaning(o[n]) = <<"handle", o[n].value>>
  BY <1>1, <1>2, <1>5 DEF Meaning
<1>7. o # <<>>
  BY <1>1, <1>2, <1>5, EmptySeq
<1> QED
  BY <1>2, <1>6, <1>7 DEF Last, o

\* There is no handle if none is said.
LEMMA NoHandleSays ==
  ASSUME NEW T, NEW F, NEW S, Means(T, F, S), \A x : <<"handle", x>> \notin S
  PROVE  OfType(SubSeq(T, Len(F) + 1, Len(T)), "handle") = <<>>
<1> DEFINE o == OfType(SubSeq(T, Len(F) + 1, Len(T)), "handle")
<1>1. /\ o \in Seq(Tokens) /\ \A i \in DOMAIN o : o[i].type = "handle"
      /\ \A x : (\E i \in DOMAIN o : Meaning(o[i]) = x) <=> x \in S /\ x[1] = "handle"
  BY RestSays DEF Kinds
<1> HIDE DEF o
<1>2. \A i \in DOMAIN o : FALSE
  BY <1>1 DEF Meaning
<1>3. PICK n \in Nat : n = Len(o) /\ DOMAIN o = 1 .. n
  BY <1>1, LenProperties
<1>4. n = 0
  <2>1. n >= 1 => 1 \in 1 .. n
    OBVIOUS
  <2> QED
    BY <1>2, <1>3, <2>1
<1>5. o = <<>>
  BY <1>1, <1>3, <1>4, EmptySeq
<1> QED
  BY <1>5 DEF o

----------------------------------------------------------------------------
(* What build() makes of a whole message *)

\* A message has no fields that its type has no setters for.
Proper(m) ==
  /\ "command" \notin FieldsOf(m.type) => m.command = <<>>
  /\ "handle" \notin FieldsOf(m.type) => m.handle = <<>>
  /\ "code" \notin FieldsOf(m.type) => m.code = <<>>
  /\ "text" \notin FieldsOf(m.type) => m.text = <<>>

\* The fields, type by type.
LEMMA FieldsAre ==
  /\ FieldsOf("request") = {"command", "handle"} /\ FieldsOf("response") = {"command", "handle"}
  /\ FieldsOf("error") = {"command", "handle", "code", "text"}
  /\ FieldsOf("witness") = {"text"} /\ FieldsOf("publish") = {"command"}
BY DEF FieldsOf, requestFields, responseFields, errorFields, witnessFields, publishFields

\* All that the message says: before its args, with them, and after them.
Own(m) ==
  CASE m.type = "error"   -> {<<"code">>, <<"what">>}
    [] m.type = "witness" -> {<<"body">>}
    [] OTHER              -> {}

AllArgs(m) ==
  [k \in DOMAIN m.args \cup Own(m) |->
     IF k \in DOMAIN m.args THEN m.args[k] ELSE IF k = <<"code">> THEN m.code ELSE m.text]

Listed(m) == {ArgSaid(k, m.args[k]) : k \in DOMAIN m.args}
Said(m)   == (Leads(m) \cup Listed(m)) \cup Trails(m)

\* What is said of each kind.
LEMMA KindsDiffer ==
  /\ \A a, k, v : <<"arg", a>> = ArgSaid(k, v) <=> a = <<k, v>>
  /\ \A a, w : <<"arg", a>> # WordSaid(w) /\ <<"handle", a>> # WordSaid(w)
  /\ \A a, k, v : <<"none", a>> # ArgSaid(k, v) /\ <<"handle", a>> # ArgSaid(k, v)
  /\ \A a, w : <<"none", a>> = WordSaid(w) <=> a = w
  /\ \A a, w : <<"none", a>> # <<"handle", w>> /\ <<"arg", a>> # <<"handle", w>>
  /\ \A a, w : <<"handle", a>> = <<"handle", w>> <=> a = w
BY DEF ArgSaid, WordSaid

\* The flags are words.
LEMMA FlaggedSays ==
  ASSUME NEW flags
  PROVE  /\ \A a : <<"arg", a>> \notin Flagged(flags) /\ <<"handle", a>> \notin Flagged(flags)
         /\ \A w : <<"none", w>> \in Flagged(flags) <=> w \in flags
<1>1. \A x : x \in Flagged(flags) <=> \E f \in flags : x = WordSaid(f)
  BY DEF Flagged
<1> QED
  BY <1>1, KindsDiffer

\* The args are args, each with its value.
LEMMA ListedSays ==
  ASSUME NEW m
  PROVE  /\ \A w : <<"none", w>> \notin Listed(m) /\ <<"handle", w>> \notin Listed(m)
         /\ \A a : <<"arg", a>> \in Listed(m) <=> \E k \in DOMAIN m.args : a = <<k, m.args[k]>>
<1>1. \A x : x \in Listed(m) <=> \E k \in DOMAIN m.args : x = ArgSaid(k, m.args[k])
  BY DEF Listed
<1> QED
  BY <1>1, KindsDiffer

\* After the args come words.
LEMMA TrailsSay ==
  ASSUME NEW m \in Sendable
  PROVE  \A a : <<"arg", a>> \notin Trails(m) /\ <<"handle", a>> \notin Trails(m)
<1>1. \A f, a : <<"arg", a>> \notin Flagged(f) /\ <<"handle", a>> \notin Flagged(f)
  BY FlaggedSays
<1>2. \A a, w : <<"arg", a>> # WordSaid(w) /\ <<"handle", a>> # WordSaid(w)
  BY KindsDiffer
<1>3. \/ Trails(m) = {} \/ Trails(m) = Flagged(m.flags)
      \/ Trails(m) = Flagged(m.flags) \cup {WordSaid(<<"node_error">>)}
  BY DEF Trails
<1> SUFFICES ASSUME NEW a PROVE <<"arg", a>> \notin Trails(m) /\ <<"handle", a>> \notin Trails(m)
  OBVIOUS
<1> DEFINE x == <<"arg", a>>
           y == <<"handle", a>>
           f == Flagged(m.flags)
           w == WordSaid(<<"node_error">>)
<1>4. x \notin f /\ y \notin f
  BY <1>1
<1>5. x # w /\ y # w
  BY <1>2
<1>6. Trails(m) = {} \/ Trails(m) = f \/ Trails(m) = f \cup {w}
  BY <1>3
<1> HIDE DEF x, y, f, w
<1>7. x \notin Trails(m) /\ y \notin Trails(m)
  BY <1>4, <1>5, <1>6
<1> QED
  BY <1>7 DEF x, y

\* The flags are those the handlers should see.
LEMMA WordsSaid ==
  ASSUME NEW m \in Sendable
  PROVE  \A w : <<"none", w>> \in Said(m) <=> w \in Expected(m).flags
<1>0. m.type \in Types
  BY DEF Sendable
<1>1. Expected(m).flags = CASE m.type = "response" -> m.flags \cup {<<"ok">>}
                            [] m.type = "error"    -> m.flags \cup {<<"error">>, <<"node_error">>}
                            [] OTHER               -> m.flags
  BY DEF Expected, Sendable
<1> SUFFICES ASSUME NEW w PROVE <<"none", w>> \in Said(m) <=> w \in Expected(m).flags
  OBVIOUS
<1>2. <<"none", w>> \in Said(m) <=> <<"none", w>> \in Leads(m) \/ <<"none", w>> \in Trails(m)
  BY ListedSays DEF Said
<1>3. \A f : <<"none", w>> \in Flagged(f) <=> w \in f
  BY FlaggedSays
<1>4. CASE m.type = "response"
  <2>1. <<"none", w>> \in Leads(m) <=> w = <<"ok">> \/ w \in m.flags \ {<<"ok">>}
    BY <1>3, <1>4, KindsDiffer DEF Leads
  <2>2. <<"none", w>> \notin Trails(m)
    BY <1>4 DEF Trails
  <2> QED
    BY <1>1, <1>2, <1>4, <2>1, <2>2
<1>5. CASE m.type = "error"
  <2>1. <<"none", w>> \in Leads(m) <=> w = <<"error">>
    BY <1>5, KindsDiffer DEF Leads
  <2>2. <<"none", w>> \in Trails(m) <=> w = <<"node_error">> \/ w \in m.flags
    BY <1>3, <1>5, KindsDiffer DEF Trails
  <2> QED
    BY <1>1, <1>2, <1>5, <2>1, <2>2
<1>6. CASE m.type \in {"request", "witness", "publish"}
  <2>1. <<"none", w>> \notin Leads(m)
    BY <1>6, KindsDiffer DEF Leads
  <2>2. <<"none", w>> \in Trails(m) <=> w \in m.flags
    BY <1>3, <1>6 DEF Trails
  <2> QED
    BY <1>1, <1>2, <1>6, <2>1, <2>2
<1> QED
  BY <1>0, <1>4, <1>5, <1>6 DEF Types

\* Only a request says its handle in a token of its own.
LEMMA HandlesSaid ==
  ASSUME NEW m \in Sendable
  PROVE  \A x : <<"handle", x>> \in Said(m) <=> m.type = "request" /\ x = <<"~">> \o m.handle
<1>0. m.type \in Types
  BY DEF Sendable
<1> SUFFICES ASSUME NEW x
             PROVE  <<"handle", x>> \in Said(m) <=> m.type = "request" /\ x = <<"~">> \o m.handle
  OBVIOUS
<1>1. <<"handle", x>> \notin Trails(m)
  BY TrailsSay
<1>2. CASE m.type = "request"
  <2>1. <<"handle", x>> \in Leads(m) <=> x = <<"~">> \o m.handle
    BY <1>2, KindsDiffer DEF Leads
  <2> QED
    BY <1>1, <1>2, <2>1, ListedSays DEF Said
<1>3. CASE m.type # "request"
  <2>1. <<"handle", x>> \notin Leads(m)
    <3>1. CASE m.type = "response"
      <4>1. Leads(m) = {WordSaid(<<"ok">>)} \cup Flagged(m.flags \ {<<"ok">>})
        BY <3>1 DEF Leads
      <4>2. <<"handle", x>> \notin Flagged(m.flags \ {<<"ok">>})
        BY FlaggedSays
      <4> QED
        BY <4>1, <4>2, KindsDiffer
    <3>2. CASE m.type \in {"error", "witness", "publish"}
      BY <3>2, KindsDiffer DEF Leads
    <3> QED
      BY <1>0, <1>3, <3>1, <3>2 DEF Types
  <2> QED
    BY <1>1, <1>3, <2>1, ListedSays DEF Said
<1> QED
  BY <1>2, <1>3

\* The args are those of the message, and its own.
LEMMA ArgsSaid ==
  ASSUME NEW m \in Sendable, ~Reserved(m)
  PROVE  /\ DOMAIN m.args \cap Own(m) = {} /\ DOMAIN AllArgs(m) = DOMAIN m.args \cup Own(m)
         /\ \A k \in DOMAIN m.args : AllArgs(m)[k] = m.args[k]
         /\ m.type = "error" => AllArgs(m)[<<"code">>] = m.code /\ AllArgs(m)[<<"what">>] = m.text
         /\ m.type = "witness" => AllArgs(m)[<<"body">>] = m.text
         /\ \A a : <<"arg", a>> \in Said(m) <=> \E k \in DOMAIN AllArgs(m) : a = <<k, AllArgs(m)[k]>>
<1>0. m.type \in Types
  BY DEF Sendable
<1>1. DOMAIN m.args \cap Own(m) = {}
  BY <1>0 DEF Reserved, Own, Types
<1>2. /\ DOMAIN AllArgs(m) = DOMAIN m.args \cup Own(m)
      /\ \A k \in DOMAIN m.args : AllArgs(m)[k] = m.args[k]
      /\ \A k \in Own(m) : AllArgs(m)[k] = IF k = <<"code">> THEN m.code ELSE m.text
  BY <1>1 DEF AllArgs
<1>3. <<"code">> # <<"what">> /\ <<"code">> # <<"body">>
  OBVIOUS
<1>4. m.type = "error" => Own(m) = {<<"code">>, <<"what">>}
  BY DEF Own
<1>5. m.type = "witness" => Own(m) = {<<"body">>}
  BY DEF Own
<1>6. m.type \in {"request", "response", "publish"} => Own(m) = {}
  BY DEF Own
<1>7. ASSUME NEW a
      PROVE  <<"arg", a>> \in Said(m) <=> \E k \in DOMAIN AllArgs(m) : a = <<k, AllArgs(m)[k]>>
  <2>1. <<"arg", a>> \notin Trails(m)
    BY TrailsSay
  <2>2. <<"arg", a>> \in Leads(m) <=> \E k \in Own(m) : a = <<k, AllArgs(m)[k]>>
    <3>1. CASE m.type = "error"
      <4>1. <<"arg", a>> \in Leads(m) <=> a = <<<<"code">>, m.code>> \/ a = <<<<"what">>, m.text>>
        BY <3>1, KindsDiffer DEF Leads
      <4>2. AllArgs(m)[<<"code">>] = m.code /\ AllArgs(m)[<<"what">>] = m.text
        BY <1>2, <1>3, <1>4, <3>1
      <4> QED
        BY <1>4, <3>1, <4>1, <4>2
    <3>2. CASE m.type = "witness"
      <4>1. <<"arg", a>> \in Leads(m) <=> a = <<<<"body">>, m.text>>
        BY <3>2, KindsDiffer DEF Leads
      <4>2. AllArgs(m)[<<"body">>] = m.text
        BY <1>2, <1>3, <1>5, <3>2
      <4> QED
        BY <1>5, <3>2, <4>1, <4>2
    <3>3. CASE m.type \in {"request", "response", "publish"}
      <4>1. <<"arg", a>> \notin Leads(m)
        <5>1. CASE m.type = "response"
          <6>1. Leads(m) = {WordSaid(<<"ok">>)} \cup Flagged(m.flags \ {<<"ok">>})
            BY <5>1 DEF Leads
          <6>2. <<"arg", a>> \notin Flagged(m.flags \ {<<"ok">>})
            BY FlaggedSays
          <6> QED
            BY <6>1, <6>2, KindsDiffer
        <5>2. CASE m.type \in {"request", "publish"}
          BY <5>2, KindsDiffer DEF Leads
        <5> QED
          BY <3>3, <5>1, <5>2
      <4> QED
        BY <1>6, <3>3, <4>1
    <3> QED
      BY <1>0, <3>1, <3>2, <3>3 DEF Types
  <2>3. <<"arg", a>> \in Listed(m) <=> \E k \in DOMAIN m.args : a = <<k, AllArgs(m)[k]>>
    BY <1>2, ListedSays
  <2>4. <<"arg", a>> \in Said(m) <=> \/ \E k \in Own(m) : a = <<k, AllArgs(m)[k]>>
                                     \/ \E k \in DOMAIN m.args : a = <<k, AllArgs(m)[k]>>
    BY <2>1, <2>2, <2>3 DEF Said
  <2> QED
    BY <1>2, <2>4
<1>8. m.type = "error" => AllArgs(m)[<<"code">>] = m.code /\ AllArgs(m)[<<"what">>] = m.text
  BY <1>2, <1>3, <1>4
<1>9. m.type = "witness" => AllArgs(m)[<<"body">>] = m.text
  BY <1>2, <1>3, <1>5
<1> QED
  BY <1>1, <1>2, <1>7, <1>8, <1>9

\* The args in S are B.
Tells(S, B) == \A a : <<"arg", a>> \in S <=> \E k \in DOMAIN B : a = <<k, B[k]>>

\* What listen() puts into the map, and in the fields.
LEMMA ArgsUnderstood ==
  ASSUME NEW p, NEW S, Says(p, S), NEW B, Tells(S, B)
  PROVE  /\ \A k \in DOMAIN B : Lookup(p.args, k) = B[k]
         /\ \A k : (\E i \in DOMAIN p.args : p.args[i][1] = k) <=> k \in DOMAIN B
         /\ \A own : ArgMap(p.args, own) = [k \in DOMAIN B \ own |-> B[k]]
<1>1. \A a : (\E i \in DOMAIN p.args : p.args[i] = a) <=> \E k \in DOMAIN B : a = <<k, B[k]>>
  BY DEF Says, Tells
<1>2. \A i \in DOMAIN p.args : \E k \in DOMAIN B : p.args[i] = <<k, B[k]>>
  BY <1>1
<1>3. \A i \in DOMAIN p.args : p.args[i][1] \in DOMAIN B /\ p.args[i][2] = B[p.args[i][1]]
  BY <1>2
<1>4. \A k \in DOMAIN B : \E i \in DOMAIN p.args : p.args[i] = <<k, B[k]>>
  BY <1>1
<1>5. \A k \in DOMAIN B : \E i \in DOMAIN p.args : p.args[i][1] = k
  BY <1>4
<1>6. ASSUME NEW k \in DOMAIN B PROVE Lookup(p.args, k) = B[k]
  <2>1. \A i \in DOMAIN p.args : p.args[i][1] = k => p.args[i][2] = B[k]
    BY <1>3
  <2>2. PICK v : v = B[k]
    OBVIOUS
  <2>3. p.args \in Seq(Pairs) /\ \E i \in DOMAIN p.args : p.args[i][1] = k
    BY <1>5 DEF Says
  <2>4. \A i \in DOMAIN p.args : p.args[i][1] = k => p.args[i][2] = v
    BY <2>1, <2>2
  <2> DEFINE q == p.args
  <2> HIDE DEF q
  <2>5. q \in Seq(Pairs) /\ Gets(q, k, v)
    BY <2>3, <2>4 DEF q, Gets
  <2>6. Lookup(q, k) = v
    <3> HIDE DEF Pairs
    <3> QED
      BY <2>5, LookupIs
  <2> QED
    BY <2>2, <2>6 DEF q
<1>7. \A k : (\E i \in DOMAIN p.args : p.args[i][1] = k) <=> k \in DOMAIN B
  BY <1>3, <1>5
<1>8. {p.args[i][1] : i \in DOMAIN p.args} = DOMAIN B
  BY <1>3, <1>5
<1>9. ASSUME NEW own PROVE ArgMap(p.args, own) = [k \in DOMAIN B \ own |-> B[k]]
  BY <1>6, <1>8 DEF ArgMap
<1> QED
  BY <1>6, <1>7, <1>9

\* What build() makes of tokens that begin as F and of which the rest says S.
LEMMA BuildSays ==
  ASSUME NEW T, NEW F, NEW S, Means(T, F, S), Len(T) >= 1,
         Len(F) = IF TypeOf(T[1]) = "publish" /\ Len(T) > 1 THEN 2 ELSE 1
  PROVE  LET p       == build(T)
             type    == TypeOf(T[1])
             address == Tail(T[1].value)
             colon   == find(address, ":")
             handles == OfType(SubSeq(T, Len(F) + 1, Len(T)), "handle")
         IN  /\ p.type = type /\ Says(p, S)
             /\ type \in {"request", "witness"} => p.capability = T[1].value
             /\ type = "publish" /\ Len(F) = 2 => p.capability = T[2].value
             /\ type = "response" /\ colon # 0 =>
                  p.capability = SubSeq(address, colon + 1, Len(address))
             /\ handles # <<>> => p.handle = Tail(Last(handles).value)
             /\ handles = <<>> /\ type = "response" /\ colon # 0 =>
                  p.handle = SubSeq(address, 1, colon - 1)
<1> DEFINE p       == build(T)
           type    == TypeOf(T[1])
           named   == type = "publish" /\ Len(T) > 1
           rest    == SubSeq(T, IF named THEN 3 ELSE 2, Len(T))
           address == Tail(T[1].value)
           colon   == find(address, ":")
           pairs   == OfType(rest, "arg")
           handles == OfType(rest, "handle")
           words   == OfType(rest, "none")
<1>1. T # <<>> /\ Head(T) = T[1] /\ Len(T) \in Nat
  <2>1. T \in Seq(Tokens)
    BY DEF Means
  <2> QED
    BY <2>1, EmptySeq, HeadTailProperties, LenProperties
<1>2. p = [type |-> type,
           capability |->
             CASE type = "response" /\ colon = 0   -> <<>>
               [] type = "response" /\ colon # 0   -> SubSeq(address, colon + 1, Len(address))
               [] type = "publish" /\ named        -> T[2].value
               [] type = "publish" /\ ~named       -> <<>>
               [] OTHER                            -> T[1].value,
           handle |->
             CASE handles # <<>>                                       -> Tail(Last(handles).value)
               [] handles = <<>> /\ type = "response" /\ colon = 0     -> address
               [] handles = <<>> /\ type = "response" /\ colon # 0     -> SubSeq(address, 1, colon - 1)
               [] OTHER                                                -> <<>>,
           args |-> [i \in DOMAIN pairs |-> KeyValue(pairs[i].value)],
           flags |-> [i \in DOMAIN words |-> words[i].value]]
  BY <1>1 DEF build
<1>3. rest = SubSeq(T, Len(F) + 1, Len(T)) /\ (named <=> Len(F) = 2)
  <2>1. (IF named THEN 3 ELSE 2) = Len(F) + 1
    OBVIOUS
  <2> QED
    BY <2>1
<1> HIDE DEF p, type, address, colon, rest, named
<1>4. Says(p, S)
  <2>1. p.args = [i \in DOMAIN pairs |-> KeyValue(pairs[i].value)]
    BY <1>2
  <2>2. p.flags = [i \in DOMAIN words |-> words[i].value]
    BY <1>2
  <2>3. /\ p.args = [i \in DOMAIN OfType(SubSeq(T, Len(F) + 1, Len(T)), "arg") |->
                     KeyValue(OfType(SubSeq(T, Len(F) + 1, Len(T)), "arg")[i].value)]
        /\ p.flags = [i \in DOMAIN OfType(SubSeq(T, Len(F) + 1, Len(T)), "none") |->
                      OfType(SubSeq(T, Len(F) + 1, Len(T)), "none")[i].value]
    BY <1>3, <2>1, <2>2
  <2> QED
    BY <2>3, ArgsAndFlags
<1> HIDE DEF handles, pairs, words
<1>5. p.type = type
  BY <1>2
<1>6. type \in {"request", "witness"} => p.capability = T[1].value
  BY <1>2
<1>7. type = "publish" /\ named => p.capability = T[2].value
  BY <1>2
<1>8. type = "response" /\ colon # 0 => p.capability = SubSeq(address, colon + 1, Len(address))
  BY <1>2
<1>9. handles # <<>> => p.handle = Tail(Last(handles).value)
  BY <1>2
<1>10. handles = <<>> /\ type = "response" /\ colon # 0 => p.handle = SubSeq(address, 1, colon - 1)
  BY <1>2
<1> QED
  BY <1>3, <1>4, <1>5, <1>6, <1>7, <1>8, <1>9, <1>10 DEF p, type, address, colon, handles

\* The address of a response is its handle and its command.
LEMMA AddressIs ==
  ASSUME NEW m \in Sendable, m.handle # <<>>
  PROVE  LET address == Tail(Addressed(m))
             colon   == find(address, ":")
         IN  /\ colon # 0
             /\ SubSeq(address, 1, colon - 1) = m.handle
             /\ SubSeq(address, colon + 1, Len(address)) = m.command
<1> DEFINE h == m.handle
           c == m.command
           s == Append(h, ":") \o c
           colon == find(s, ":")
<1>1. h \in Text /\ c \in Text /\ ~Contains(h, ":") /\ ~Contains(c, ":") /\ ":" \in Units /\ "~" \in Units
  <2>1. h \in Name /\ c \in Name /\ ":" \in Marks
    BY DEF Sendable, Marks
  <2> QED
    BY <2>1, NameIsBare, PlainIs
<1>2. Tail(Addressed(m)) = s
  <2> DEFINE a == <<"~">>
             b == <<":">>
  <2>1. Addressed(m) = ((a \o h) \o b) \o c
    BY DEF Addressed
  <2>2. a \in Text /\ b \in Text /\ h \o b = Append(h, ":")
    BY <1>1, TextOps DEF Same
  <2> HIDE DEF a, b
  <2>3. a \o ((h \o b) \o c) = ((a \o h) \o b) \o c
    <3>1. a \in Seq(Units) /\ b \in Seq(Units) /\ h \in Seq(Units) /\ c \in Seq(Units)
      BY <1>1, <2>2 DEF Text
    <3> HIDE DEF h, c
    <3>2. Same(a \o ((h \o b) \o c), ((a \o h) \o b) \o c)
      BY <3>1, FourInARow
    <3> QED
      BY <3>2 DEF Same
  <2>4. (h \o b) \o c = s
    BY <2>2
  <2>5. s \in Text
    BY <1>1, TextOps
  <2> HIDE DEF s
  <2>6. Tail(<<"~">> \o s) = s
    BY <1>1, <2>5, AfterHead DEF Text
  <2> QED
    BY <2>1, <2>3, <2>4, <2>6 DEF a
<1>3. s \in Text /\ Contains(s, ":")
  <2> DEFINE t == Append(h, ":")
  <2>1. t \in Text /\ Contains(t, ":")
    BY <1>1, TextOps, TextContains
  <2> HIDE DEF t
  <2>2. t \o c \in Text /\ Contains(t \o c, ":")
    <3> HIDE DEF h, c
    <3>1. t \o c \in Text
      BY <1>1, <2>1, TextOps
    <3>2. Contains(t \o c, ":") <=> Contains(t, ":") \/ Contains(c, ":")
      BY <1>1, <2>1, TextContains
    <3> QED
      BY <2>1, <3>1, <3>2
  <2> QED
    BY <2>2 DEF t
<1>4. colon = Position(s, ":")
  BY DEF find, SelectInSeq, Position
<1> HIDE DEF colon
<1>5. PICK a \in Seq(Units), b \in Seq(Units) : Splits(s, ":", a, b)
  <2> HIDE DEF s
  <2> QED
    BY <1>3, SplitAtFirst DEF Text
<1>6. Same(Append(a, ":") \o b, Append(h, ":") \o c) /\ ~Contains(a, ":")
  BY <1>5 DEF Splits, Same
<1>7. a = h /\ b = c
  <2>1. h \in Seq(Units) /\ c \in Seq(Units)
    BY <1>1 DEF Text
  <2> QED
    BY <1>1, <1>5, <1>6, <2>1, OneSplit DEF Same
<1> HIDE DEF s
<1>8. colon \in 1 .. Len(s)
  BY <1>4, <1>5 DEF Splits
<1>9. SubSeq(s, 1, colon - 1) = h /\ SubSeq(s, colon + 1, Len(s)) = c
  BY <1>4, <1>5, <1>7 DEF Splits, Same
<1>10. colon # 0
  BY <1>8
<1> QED
  BY <1>2, <1>9, <1>10 DEF colon

\* The first token says the type, and what else it does.
LEMMA FirstSays ==
  ASSUME NEW m \in Sendable, Entire(m), ~Reserved(m), NEW T, NEW S, Means(T, First(m), S)
  PROVE  /\ Len(T) >= 1
         /\ TypeOf(T[1]) = IF m.type = "error" THEN "response" ELSE m.type
         /\ m.type = "publish" => Len(T) > 1 /\ Len(First(m)) = 2 /\ T[2].value = m.command
         /\ m.type # "publish" => Len(First(m)) = 1
         /\ m.type = "request" => T[1].value = m.command
         /\ Response(m) => T[1].value = Addressed(m)
<1>0. m.type \in Types
  BY DEF Sendable
<1>1. Len(First(m)) <= Len(T) /\ Len(T) \in Nat /\ \A i \in 1 .. Len(First(m)) : T[i] = First(m)[i]
  BY LenProperties DEF Means
<1>2. CASE m.type = "request"
  <2>1. First(m) = <<WordToken(m.command)>>
    BY <1>2 DEF First
  <2>2. Len(First(m)) = 1 /\ T[1] = WordToken(m.command) /\ Len(T) >= 1
    BY <1>1, <2>1
  <2>3. ~Keyword(m.command)
    BY <1>2 DEF Reserved
  <2>4. TypeOf(T[1]) = "request"
    <3>1. T[1].type = "none" /\ T[1].value = m.command
      BY <2>2 DEF WordToken
    <3>2. T[1].value # <<"witness">> /\ T[1].value # <<"publish">>
      BY <2>3, <3>1 DEF Keyword
    <3> QED
      BY <3>1, <3>2 DEF TypeOf
  <2> QED
    BY <1>2, <2>2, <2>4 DEF WordToken, Response
<1>3. CASE Response(m)
  <2>1. First(m) = <<AddressToken(m)>>
    BY <1>3 DEF First, Response
  <2>2. Len(First(m)) = 1 /\ T[1] = AddressToken(m) /\ Len(T) >= 1
    BY <1>1, <2>1
  <2>3. TypeOf(T[1]) = "response"
    BY <2>2 DEF TypeOf, AddressToken
  <2> QED
    BY <1>3, <2>2, <2>3 DEF AddressToken, Response
<1>4. CASE m.type = "witness"
  <2>1. First(m) = <<WordToken(<<"witness">>)>>
    BY <1>4 DEF First
  <2>2. Len(First(m)) = 1 /\ T[1] = WordToken(<<"witness">>) /\ Len(T) >= 1
    BY <1>1, <2>1
  <2>3. TypeOf(T[1]) = "witness"
    BY <2>2 DEF TypeOf, WordToken
  <2> QED
    BY <1>4, <2>2, <2>3 DEF Response
<1>5. CASE m.type = "publish"
  <2>1. First(m) = <<WordToken(<<"publish">>), WordToken(m.command)>>
    BY <1>5 DEF First
  <2>2. Len(First(m)) = 2 /\ First(m)[1] = WordToken(<<"publish">>) /\ First(m)[2] = WordToken(m.command)
    BY <2>1
  <2>3. T[1] = WordToken(<<"publish">>) /\ T[2] = WordToken(m.command) /\ Len(T) > 1 /\ Len(T) >= 1
    BY <1>1, <2>2
  <2>4. TypeOf(T[1]) = "publish"
    BY <2>3 DEF TypeOf, WordToken
  <2>5. T[2].value = m.command
    BY <2>3 DEF WordToken
  <2> QED
    BY <1>5, <2>2, <2>3, <2>4, <2>5 DEF Response
<1> QED
  BY <1>0, <1>2, <1>3, <1>4, <1>5 DEF Types, Response

\* What the objects of the handlers are made of.
Object(t, c, h, d, x, a, f) ==
  [type |-> t, command |-> c, handle |-> h, code |-> d, text |-> x, args |-> a, flags |-> f]

\* The object of a request.
LEMMA RequestIs ==
  ASSUME NEW p
  PROVE  requestOf(p) = Object("request", p.capability, p.handle,
                          <<>>, <<>>, ArgMap(p.args, {}), ToSet(p.flags))
<1> DEFINE o  == <<>>
           c  == p.capability
           h  == p.handle
           a  == ArgMap(p.args, {})
           f  == ToSet(p.flags)
           r0 == Create("request")
           r1 == [r0 EXCEPT !.command = c]
           r2 == [r1 EXCEPT !.handle = h]
           r3 == [r2 EXCEPT !.args = a]
           r4 == [r3 EXCEPT !.flags = f]
<1>0. requestOf(p) = [r0 EXCEPT !.command = c, !.handle = h, !.args = a, !.flags = f]
  BY DEF requestOf
<1> HIDE DEF c, h, a, f
<1>1. [r0 EXCEPT !.command = c, !.handle = h, !.args = a, !.flags = f] = r4
  <2> HIDE DEF r0
  <2> QED
    OBVIOUS
<1>2. r0 = Object("request", o, o, o, o, o, {})
  BY DEF Create, Object
<1> HIDE DEF o
<1>3. r1 = Object("request", c, o, o, o, o, {})
  <2> HIDE DEF r0
  <2>1. DOMAIN r0 = {"type", "command", "handle", "code", "text", "args", "flags"}
    BY <1>2 DEF Object
  <2>2. r1 = [i \in DOMAIN r0 |-> IF i = "command" THEN c ELSE r0[i]]
    BY <1>2 DEF Object
  <2> QED
    BY <1>2, <2>1, <2>2 DEF Object
<1>4. r2 = Object("request", c, h, o, o, o, {})
  <2> HIDE DEF r1
  <2>1. DOMAIN r1 = {"type", "command", "handle", "code", "text", "args", "flags"}
    BY <1>3 DEF Object
  <2>2. r2 = [i \in DOMAIN r1 |-> IF i = "handle" THEN h ELSE r1[i]]
    BY <1>3 DEF Object
  <2> QED
    BY <1>3, <2>1, <2>2 DEF Object
<1>5. r3 = Object("request", c, h, o, o, a, {})
  <2> HIDE DEF r2
  <2>1. DOMAIN r2 = {"type", "command", "handle", "code", "text", "args", "flags"}
    BY <1>4 DEF Object
  <2>2. r3 = [i \in DOMAIN r2 |-> IF i = "args" THEN a ELSE r2[i]]
    BY <1>4 DEF Object
  <2> QED
    BY <1>4, <2>1, <2>2 DEF Object
<1>6. r4 = Object("request", c, h, o, o, a, f)
  <2> HIDE DEF r3
  <2>1. DOMAIN r3 = {"type", "command", "handle", "code", "text", "args", "flags"}
    BY <1>5 DEF Object
  <2>2. r4 = [i \in DOMAIN r3 |-> IF i = "flags" THEN f ELSE r3[i]]
    BY <1>5 DEF Object
  <2> QED
    BY <1>5, <2>1, <2>2 DEF Object
<1> HIDE DEF r4
<1> QED
  BY <1>0, <1>1, <1>6 DEF r0, o, c, h, a, f

\* The object of a response.
LEMMA ResponseIs ==
  ASSUME NEW p
  PROVE  responseOf(p) = Object("response", p.capability, p.handle,
                           <<>>, <<>>, ArgMap(p.args, {}), ToSet(p.flags))
<1> DEFINE o  == <<>>
           c  == p.capability
           h  == p.handle
           a  == ArgMap(p.args, {})
           f  == ToSet(p.flags)
           r0 == Create("response")
           r1 == [r0 EXCEPT !.command = c]
           r2 == [r1 EXCEPT !.handle = h]
           r3 == [r2 EXCEPT !.args = a]
           r4 == [r3 EXCEPT !.flags = f]
<1>0. responseOf(p) = [r0 EXCEPT !.command = c, !.handle = h, !.args = a, !.flags = f]
  BY DEF responseOf
<1> HIDE DEF c, h, a, f
<1>1. [r0 EXCEPT !.command = c, !.handle = h, !.args = a, !.flags = f] = r4
  <2> HIDE DEF r0
  <2> QED
    OBVIOUS
<1>2. r0 = Object("response", o, o, o, o, o, {})
  BY DEF Create, Object
<1> HIDE DEF o
<1>3. r1 = Object("response", c, o, o, o, o, {})
  <2> HIDE DEF r0
  <2>1. DOMAIN r0 = {"type", "command", "handle", "code", "text", "args", "flags"}
    BY <1>2 DEF Object
  <2>2. r1 = [i \in DOMAIN r0 |-> IF i = "command" THEN c ELSE r0[i]]
    BY <1>2 DEF Object
  <2> QED
    BY <1>2, <2>1, <2>2 DEF Object
<1>4. r2 = Object("response", c, h, o, o, o, {})
  <2> HIDE DEF r1
  <2>1. DOMAIN r1 = {"type", "command", "handle", "code", "text", "args", "flags"}
    BY <1>3 DEF Object
  <2>2. r2 = [i \in DOMAIN r1 |-> IF i = "handle" THEN h ELSE r1[i]]
    BY <1>3 DEF Object
  <2> QED
    BY <1>3, <2>1, <2>2 DEF Object
<1>5. r3 = Object("response", c, h, o, o, a, {})
  <2> HIDE DEF r2
  <2>1. DOMAIN r2 = {"type", "command", "handle", "code", "text", "args", "flags"}
    BY <1>4 DEF Object
  <2>2. r3 = [i \in DOMAIN r2 |-> IF i = "args" THEN a ELSE r2[i]]
    BY <1>4 DEF Object
  <2> QED
    BY <1>4, <2>1, <2>2 DEF Object
<1>6. r4 = Object("response", c, h, o, o, a, f)
  <2> HIDE DEF r3
  <2>1. DOMAIN r3 = {"type", "command", "handle", "code", "text", "args", "flags"}
    BY <1>5 DEF Object
  <2>2. r4 = [i \in DOMAIN r3 |-> IF i = "flags" THEN f ELSE r3[i]]
    BY <1>5 DEF Object
  <2> QED
    BY <1>5, <2>1, <2>2 DEF Object
<1> HIDE DEF r4
<1> QED
  BY <1>0, <1>1, <1>6 DEF r0, o, c, h, a, f

\* The object of an error.
LEMMA ErrorIs ==
  ASSUME NEW p
  PROVE  errorOf(p) = Object("error", p.capability, p.handle,
                        Lookup(p.args, <<"code">>), Lookup(p.args, <<"what">>), ArgMap(p.args, {<<"code">>, <<"what">>}), ToSet(p.flags))
<1> DEFINE o  == <<>>
           c  == p.capability
           h  == p.handle
           d  == Lookup(p.args, <<"code">>)
           x  == Lookup(p.args, <<"what">>)
           a  == ArgMap(p.args, {<<"code">>, <<"what">>})
           f  == ToSet(p.flags)
           r0 == Create("error")
           r1 == [r0 EXCEPT !.command = c]
           r2 == [r1 EXCEPT !.handle = h]
           r3 == [r2 EXCEPT !.code = d]
           r4 == [r3 EXCEPT !.text = x]
           r5 == [r4 EXCEPT !.args = a]
           r6 == [r5 EXCEPT !.flags = f]
<1>0. errorOf(p) = [r0 EXCEPT !.command = c, !.handle = h, !.code = d, !.text = x, !.args = a, !.flags = f]
  BY DEF errorOf
<1> HIDE DEF c, h, d, x, a, f
<1>1. [r0 EXCEPT !.command = c, !.handle = h, !.code = d, !.text = x, !.args = a, !.flags = f] = r6
  <2> HIDE DEF r0
  <2> QED
    OBVIOUS
<1>2. r0 = Object("error", o, o, o, o, o, {})
  BY DEF Create, Object
<1> HIDE DEF o
<1>3. r1 = Object("error", c, o, o, o, o, {})
  <2> HIDE DEF r0
  <2>1. DOMAIN r0 = {"type", "command", "handle", "code", "text", "args", "flags"}
    BY <1>2 DEF Object
  <2>2. r1 = [i \in DOMAIN r0 |-> IF i = "command" THEN c ELSE r0[i]]
    BY <1>2 DEF Object
  <2> QED
    BY <1>2, <2>1, <2>2 DEF Object
<1>4. r2 = Object("error", c, h, o, o, o, {})
  <2> HIDE DEF r1
  <2>1. DOMAIN r1 = {"type", "command", "handle", "code", "text", "args", "flags"}
    BY <1>3 DEF Object
  <2>2. r2 = [i \in DOMAIN r1 |-> IF i = "handle" THEN h ELSE r1[i]]
    BY <1>3 DEF Object
  <2> QED
    BY <1>3, <2>1, <2>2 DEF Object
<1>5. r3 = Object("error", c, h, d, o, o, {})
  <2> HIDE DEF r2
  <2>1. DOMAIN r2 = {"type", "command", "handle", "code", "text", "args", "flags"}
    BY <1>4 DEF Object
  <2>2. r3 = [i \in DOMAIN r2 |-> IF i = "code" THEN d ELSE r2[i]]
    BY <1>4 DEF Object
  <2> QED
    BY <1>4, <2>1, <2>2 DEF Object
<1>6. r4 = Object("error", c, h, d, x, o, {})
  <2> HIDE DEF r3
  <2>1. DOMAIN r3 = {"type", "command", "handle", "code", "text", "args", "flags"}
    BY <1>5 DEF Object
  <2>2. r4 = [i \in DOMAIN r3 |-> IF i = "text" THEN x ELSE r3[i]]
    BY <1>5 DEF Object
  <2> QED
    BY <1>5, <2>1, <2>2 DEF Object
<1>7. r5 = Object("error", c, h, d, x, a, {})
  <2> HIDE DEF r4
  <2>1. DOMAIN r4 = {"type", "command", "handle", "code", "text", "args", "flags"}
    BY <1>6 DEF Object
  <2>2. r5 = [i \in DOMAIN r4 |-> IF i = "args" THEN a ELSE r4[i]]
    BY <1>6 DEF Object
  <2> QED
    BY <1>6, <2>1, <2>2 DEF Object
<1>8. r6 = Object("error", c, h, d, x, a, f)
  <2> HIDE DEF r5
  <2>1. DOMAIN r5 = {"type", "command", "handle", "code", "text", "args", "flags"}
    BY <1>7 DEF Object
  <2>2. r6 = [i \in DOMAIN r5 |-> IF i = "flags" THEN f ELSE r5[i]]
    BY <1>7 DEF Object
  <2> QED
    BY <1>7, <2>1, <2>2 DEF Object
<1> HIDE DEF r6
<1> QED
  BY <1>0, <1>1, <1>8 DEF r0, o, c, h, d, x, a, f

\* A message and what the handlers should see of it differ in the flags only.
LEMMA ExpectedIs ==
  ASSUME NEW m \in Sendable
  PROVE  Expected(m) = [type |-> m.type, command |-> m.command, handle |-> m.handle, code |-> m.code,
                        text |-> m.text, args |-> m.args, flags |-> Expected(m).flags]
<1> DEFINE f == CASE m.type = "response" -> m.flags \cup {<<"ok">>}
                  [] m.type = "error"    -> m.flags \cup {<<"error">>, <<"node_error">>}
                  [] OTHER               -> m.flags
<1>1. Expected(m) = [m EXCEPT !.flags = f]
  BY DEF Expected
<1> HIDE DEF f
<1>2. m = [type |-> m.type, command |-> m.command, handle |-> m.handle, code |-> m.code,
           text |-> m.text, args |-> m.args, flags |-> m.flags]
  BY DEF Sendable
<1>3. [m EXCEPT !.flags = f] =
        [type |-> m.type, command |-> m.command, handle |-> m.handle, code |-> m.code,
         text |-> m.text, args |-> m.args, flags |-> f]
  BY <1>2
<1>4. Expected(m).flags = f
  BY <1>1, <1>3
<1> QED
  BY <1>1, <1>3, <1>4

\* The args and flags of what build() makes of a message.
LEMMA PartsUnderstood ==
  ASSUME NEW m \in Sendable, ~Reserved(m), NEW p, Says(p, Said(m))
  PROVE  /\ ToSet(p.flags) = Expected(m).flags
         /\ \A w : Contains(p.flags, w) <=> w \in Expected(m).flags
         /\ ArgMap(p.args, Own(m)) = m.args
         /\ m.type = "error" => /\ Lookup(p.args, <<"code">>) = m.code /\ Lookup(p.args, <<"what">>) = m.text
                                /\ HasArg(p, "code") /\ HasArg(p, "what")
         /\ m.type = "witness" => Lookup(p.args, <<"body">>) = m.text /\ HasArg(p, "body")
<1> DEFINE B == AllArgs(m)
<1>1. /\ DOMAIN m.args \cap Own(m) = {} /\ DOMAIN B = DOMAIN m.args \cup Own(m)
      /\ \A k \in DOMAIN m.args : B[k] = m.args[k]
      /\ m.type = "error" => B[<<"code">>] = m.code /\ B[<<"what">>] = m.text
      /\ m.type = "witness" => B[<<"body">>] = m.text
      /\ \A a : <<"arg", a>> \in Said(m) <=> \E k \in DOMAIN B : a = <<k, B[k]>>
  BY ArgsSaid
<1> HIDE DEF B
<1>2. /\ \A k \in DOMAIN B : Lookup(p.args, k) = B[k]
      /\ \A k : (\E i \in DOMAIN p.args : p.args[i][1] = k) <=> k \in DOMAIN B
      /\ \A own : ArgMap(p.args, own) = [k \in DOMAIN B \ own |-> B[k]]
  <2>1. Tells(Said(m), B)
    BY <1>1 DEF Tells
  <2> QED
    BY <2>1, ArgsUnderstood
<1>3. \A w : Contains(p.flags, w) <=> w \in Expected(m).flags
  BY WordsSaid DEF Says
<1>4. ToSet(p.flags) = Expected(m).flags
  <2>1. p.flags \in Seq(Text)
    BY DEF Says
  <2>2. PICK n \in Nat : n = Len(p.flags) /\ DOMAIN p.flags = 1 .. n
    BY <2>1, LenProperties
  <2>3. \A w : w \in ToSet(p.flags) <=> \E i \in 1 .. n : p.flags[i] = w
    BY <2>2 DEF ToSet
  <2>4. \A w : Contains(p.flags, w) <=> \E i \in 1 .. n : p.flags[i] = w
    BY <2>2 DEF Contains
  <2> QED
    BY <1>3, <2>3, <2>4
<1>5. ArgMap(p.args, Own(m)) = m.args
  <2>1. DOMAIN B \ Own(m) = DOMAIN m.args
    BY <1>1
  <2>2. ArgMap(p.args, Own(m)) = [k \in DOMAIN m.args |-> m.args[k]]
    <3>1. ArgMap(p.args, Own(m)) = [k \in DOMAIN B \ Own(m) |-> B[k]]
      BY <1>2
    <3>2. [k \in DOMAIN B \ Own(m) |-> B[k]] = [k \in DOMAIN m.args |-> B[k]]
      BY <2>1
    <3>3. [k \in DOMAIN m.args |-> B[k]] = [k \in DOMAIN m.args |-> m.args[k]]
      BY <1>1
    <3> QED
      BY <3>1, <3>2, <3>3
  <2>3. m.args \in UNION {[K -> Text] : K \in SUBSET Keys}
    BY DEF Sendable
  <2>4. m.args = [k \in DOMAIN m.args |-> m.args[k]]
    BY <2>3
  <2> QED
    BY <2>2, <2>4
<1>6. ASSUME m.type = "error"
      PROVE  /\ Lookup(p.args, <<"code">>) = m.code /\ Lookup(p.args, <<"what">>) = m.text
             /\ HasArg(p, "code") /\ HasArg(p, "what")
  <2>1. <<"code">> \in DOMAIN B /\ <<"what">> \in DOMAIN B
    BY <1>1, <1>6 DEF Own
  <2> QED
    BY <1>1, <1>2, <1>6, <2>1 DEF HasArg
<1>7. ASSUME m.type = "witness" PROVE Lookup(p.args, <<"body">>) = m.text /\ HasArg(p, "body")
  <2>1. <<"body">> \in DOMAIN B
    BY <1>1, <1>7 DEF Own
  <2> QED
    BY <1>1, <1>2, <1>7, <2>1 DEF HasArg
<1> QED
  BY <1>3, <1>4, <1>5, <1>6, <1>7

\* No command, topic or handle is empty, has a "=" or begins with a "~".
LEMMA NameIsGood ==
  ASSUME NEW v \in Name, v # <<>>
  PROVE  ~Contains(v, "=") /\ Head(v) # "~"
<1>1. ~Contains(v, "=") /\ ~Contains(v, "~")
  BY NameIsBare DEF Marks
<1>2. v \in Seq(Units)
  BY NameIsBare DEF Text
<1>3. Len(v) \in Nat /\ Len(v) # 0
  BY <1>2, EmptySeq, LenProperties
<1>4. 1 \in 1 .. Len(v)
  BY <1>3
<1> QED
  BY <1>1, <1>4 DEF Contains

\* Where the text says all that the message says, a handler gets the message.
LEMMA Understood ==
  ASSUME NEW m \in Sendable, Proper(m), Entire(m), ~Reserved(m),
         NEW T, Means(T, First(m), Said(m))
  PROVE  ~Malformed(build(T)) /\ Received(build(T)) = Expected(m)
<1> DEFINE p == build(T)
           F == First(m)
           S == Said(m)
           o == OfType(SubSeq(T, Len(F) + 1, Len(T)), "handle")
           colon == find(Tail(T[1].value), ":")
           address == Tail(T[1].value)
<1>0. m.type \in Types
  BY DEF Sendable
<1>1. /\ Len(T) >= 1
      /\ TypeOf(T[1]) = IF m.type = "error" THEN "response" ELSE m.type
      /\ m.type = "publish" => Len(T) > 1 /\ Len(F) = 2 /\ T[2].value = m.command
      /\ m.type # "publish" => Len(F) = 1
      /\ m.type = "request" => T[1].value = m.command
      /\ Response(m) => T[1].value = Addressed(m)
  BY FirstSays
<1>2. /\ p.type = TypeOf(T[1]) /\ Says(p, S)
      /\ TypeOf(T[1]) \in {"request", "witness"} => p.capability = T[1].value
      /\ TypeOf(T[1]) = "publish" /\ Len(F) = 2 => p.capability = T[2].value
      /\ TypeOf(T[1]) = "response" /\ colon # 0 =>
           p.capability = SubSeq(address, colon + 1, Len(address))
      /\ o # <<>> => p.handle = Tail(Last(o).value)
      /\ o = <<>> /\ TypeOf(T[1]) = "response" /\ colon # 0 =>
           p.handle = SubSeq(address, 1, colon - 1)
  <2>1. Len(F) = IF TypeOf(T[1]) = "publish" /\ Len(T) > 1 THEN 2 ELSE 1
    BY <1>0, <1>1 DEF Types
  <2> HIDE DEF F, S
  <2>2. Means(T, F, S) /\ Len(T) >= 1
    BY <1>1 DEF F, S
  <2> QED
    BY <2>1, <2>2, BuildSays
<1>3. /\ ToSet(p.flags) = Expected(m).flags
      /\ \A w : Contains(p.flags, w) <=> w \in Expected(m).flags
      /\ ArgMap(p.args, Own(m)) = m.args
      /\ m.type = "error" => /\ Lookup(p.args, <<"code">>) = m.code /\ Lookup(p.args, <<"what">>) = m.text
                             /\ HasArg(p, "code") /\ HasArg(p, "what")
      /\ m.type = "witness" => Lookup(p.args, <<"body">>) = m.text /\ HasArg(p, "body")
  <2> HIDE DEF p
  <2> QED
    BY <1>2, PartsUnderstood
<1>4. Expected(m) = [type |-> m.type, command |-> m.command, handle |-> m.handle, code |-> m.code,
                     text |-> m.text, args |-> m.args, flags |-> Expected(m).flags]
  BY ExpectedIs
<1>5. m.command \in Name /\ m.handle \in Name
  BY DEF Sendable
<1>6. m.type = "request" => p.handle = m.handle
  <2> SUFFICES ASSUME m.type = "request" PROVE p.handle = m.handle
    OBVIOUS
  <2>1. \A x : <<"handle", x>> \in Said(m) <=> x = <<"~">> \o m.handle
    BY HandlesSaid
  <2>2. o # <<>> /\ Last(o).value = <<"~">> \o m.handle
    <3> DEFINE h == <<"~">> \o m.handle
    <3> HIDE DEF h, F, S
    <3>1. Means(T, F, S) /\ \A x : <<"handle", x>> \in S <=> x = h
      BY <2>1 DEF F, S, h
    <3>2. o # <<>> /\ Last(o).value = h
      BY <3>1, HandleSays
    <3> QED
      BY <3>2 DEF h
  <2>3. Tail(<<"~">> \o m.handle) = m.handle
    BY <1>5, NameIsBare, PlainIs, AfterHead DEF Text
  <2> QED
    BY <1>2, <2>2, <2>3
<1>7. Response(m) => p.handle = m.handle /\ p.capability = m.command /\ m.handle # <<>> /\ m.command # <<>>
  <2> SUFFICES ASSUME Response(m)
               PROVE  p.handle = m.handle /\ p.capability = m.command /\ m.handle # <<>> /\ m.command # <<>>
    OBVIOUS
  <2>1. m.handle # <<>> /\ m.command # <<>> /\ TypeOf(T[1]) = "response" /\ m.type # "request"
    BY <1>1 DEF Entire, Response
  <2>2. o = <<>>
    <3>1. \A x : <<"handle", x>> \notin Said(m)
      BY <2>1, HandlesSaid
    <3> HIDE DEF F, S
    <3>2. Means(T, F, S) /\ \A x : <<"handle", x>> \notin S
      BY <3>1 DEF F, S
    <3> QED
      BY <3>2, NoHandleSays
  <2>3. /\ colon # 0 /\ SubSeq(address, 1, colon - 1) = m.handle
        /\ SubSeq(address, colon + 1, Len(address)) = m.command
    BY <1>1, <2>1, AddressIs
  <2> QED
    BY <1>2, <2>1, <2>2, <2>3
<1> HIDE DEF p, F, S, o, colon, address
<1>8. CASE m.type = "request"
  <2>1. p.type = "request" /\ p.capability = m.command /\ m.command # <<>> /\ m.handle # <<>>
    BY <1>1, <1>2, <1>8 DEF Entire
  <2>2. ~Contains(m.command, "=")
    BY <1>5, <2>1, NameIsGood
  <2>3. ~Malformed(p)
    BY <1>6, <1>8, <2>1, <2>2 DEF Malformed, BadRequest
  <2>4. Own(m) = {} /\ m.code = <<>> /\ m.text = <<>>
    BY <1>8, FieldsAre DEF Own, Proper
  <2>5. Received(p) = requestOf(p)
    BY <2>1 DEF Received
  <2>6. requestOf(p) = [type |-> "request", command |-> p.capability, handle |-> p.handle,
                       code |-> <<>>, text |-> <<>>,
                       args |-> ArgMap(p.args, Own(m)), flags |-> ToSet(p.flags)]
    BY <2>4, RequestIs DEF Object
  <2>7. Received(p) = Expected(m)
    BY <1>3, <1>4, <1>6, <1>8, <2>1, <2>3, <2>4, <2>5, <2>6
  <2> QED
    BY <2>3, <2>7 DEF p
<1>9. CASE m.type = "response"
  <2>1. p.type = "response" /\ p.capability = m.command /\ p.handle = m.handle /\ m.command # <<>> /\ m.handle # <<>>
    BY <1>1, <1>2, <1>7, <1>9 DEF Response
  <2>2. <<"error">> \notin m.flags
    BY <1>9 DEF Reserved
  <2>3. Expected(m).flags = m.flags \cup {<<"ok">>}
    BY <1>9 DEF Expected, Sendable
  <2>4. HasFlag(p, "ok") /\ ~HasFlag(p, "error")
    BY <1>3, <2>2, <2>3 DEF HasFlag
  <2>5. ~Malformed(p)
    BY <2>1, <2>4 DEF Malformed, BadResponse
  <2>6. Own(m) = {} /\ m.code = <<>> /\ m.text = <<>>
    BY <1>9, FieldsAre DEF Own, Proper
  <2>7. Received(p) = responseOf(p)
    BY <2>1, <2>4 DEF Received
  <2>8. responseOf(p) = [type |-> "response", command |-> p.capability, handle |-> p.handle,
                       code |-> <<>>, text |-> <<>>,
                       args |-> ArgMap(p.args, Own(m)), flags |-> ToSet(p.flags)]
    BY <2>6, ResponseIs DEF Object
  <2>9. Received(p) = Expected(m)
    BY <1>3, <1>4, <1>9, <2>1, <2>5, <2>6, <2>7, <2>8
  <2> QED
    BY <2>5, <2>9 DEF p
<1>10. CASE m.type = "error"
  <2>1. p.type = "response" /\ p.capability = m.command /\ p.handle = m.handle /\ m.command # <<>> /\ m.handle # <<>>
    BY <1>1, <1>2, <1>7, <1>10 DEF Response
  <2>2. <<"ok">> \notin m.flags
    BY <1>10 DEF Reserved
  <2>3. Expected(m).flags = m.flags \cup {<<"error">>, <<"node_error">>}
    BY <1>10 DEF Expected, Sendable
  <2>4. HasFlag(p, "error") /\ ~HasFlag(p, "ok")
    BY <1>3, <2>2, <2>3 DEF HasFlag
  <2>5. ~Malformed(p)
    BY <1>3, <1>10, <2>1, <2>4 DEF Malformed, BadResponse
  <2>6. Own(m) = {<<"code">>, <<"what">>}
    BY <1>10 DEF Own
  <2>7. Received(p) = errorOf(p)
    BY <2>1, <2>4 DEF Received
  <2>8. errorOf(p) = [type |-> "error", command |-> p.capability, handle |-> p.handle,
                       code |-> Lookup(p.args, <<"code">>), text |-> Lookup(p.args, <<"what">>),
                       args |-> ArgMap(p.args, Own(m)), flags |-> ToSet(p.flags)]
    BY <2>6, ErrorIs DEF Object
  <2>9. Received(p) = Expected(m)
    BY <1>3, <1>4, <1>10, <2>1, <2>5, <2>6, <2>7, <2>8
  <2> QED
    BY <2>5, <2>9 DEF p
<1>11. CASE m.type = "witness"
  <2>1. p.type = "witness"
    BY <1>1, <1>2, <1>11
  <2>2. ~Malformed(p)
    BY <1>3, <1>11, <2>1 DEF Malformed
  <2>3. Own(m) = {<<"body">>} /\ m.code = <<>> /\ m.command = <<>> /\ m.handle = <<>>
    BY <1>11, FieldsAre DEF Own, Proper
  <2>4. Received(p) = witnessOf(p)
    BY <2>1 DEF Received
  <2> QED
    BY <1>3, <1>4, <1>11, <2>1, <2>2, <2>3, <2>4 DEF witnessOf, Create, p
<1>12. CASE m.type = "publish"
  <2>1. p.type = "publish" /\ p.capability = m.command /\ m.command # <<>>
    BY <1>1, <1>2, <1>12 DEF Entire
  <2>2. ~Contains(m.command, "=") /\ Head(m.command) # "~"
    BY <1>5, <2>1, NameIsGood
  <2>3. ~Malformed(p)
    BY <2>1, <2>2 DEF Malformed, BadPublish
  <2>4. Own(m) = {} /\ m.code = <<>> /\ m.text = <<>> /\ m.handle = <<>>
    BY <1>12, FieldsAre DEF Own, Proper
  <2>5. Received(p) = publishOf(p)
    BY <2>1 DEF Received
  <2> QED
    BY <1>3, <1>4, <1>12, <2>1, <2>3, <2>4, <2>5 DEF publishOf, Create, p
<1> QED
  BY <1>0, <1>8, <1>9, <1>10, <1>11, <1>12 DEF Types

----------------------------------------------------------------------------
(* What the calls build *)

\* One call sets a field that the type has.
LEMMA ApplyProper ==
  ASSUME NEW m \in Sendable, Proper(m),
         NEW c \in [op : Ops, key : Text \cup {NullPtr}, value : Text \cup {NullPtr}],
         IsCall(c), c.op \in {"arg", "flag"} \cup FieldsOf(m.type)
  PROVE  Apply(m, c) \in Sendable /\ Apply(m, c).type = m.type /\ Proper(Apply(m, c))
<1>1. Apply(m, c) \in Sendable
  BY ApplyType
<1>2. DOMAIN m = {"type", "command", "handle", "code", "text", "args", "flags"}
  BY DEF Sendable
<1>3. CASE ~Effective(c)
  BY <1>1, <1>3 DEF Apply
<1>4. CASE Effective(c)
  <2> DEFINE k == CString(c.key)
             v == CString(c.value)
             n == Apply(m, c)
  <2>1. n = CASE c.op = "arg"  -> [m EXCEPT !.args = Assign(@, k, v)]
              [] c.op = "flag" -> [m EXCEPT !.flags = @ \cup {v}]
              [] OTHER         -> [m EXCEPT ![c.op] = v]
    BY <1>4 DEF Apply
  <2> HIDE DEF k, v, n
  <2>2. CASE c.op = "arg"
    <3>1. n = [m EXCEPT !.args = Assign(@, k, v)]
      BY <2>1, <2>2
    <3>2. \A f \in {"type", "command", "handle", "code", "text"} : n[f] = m[f]
      BY <1>2, <3>1
    <3> QED
      BY <1>1, <3>2 DEF Proper, n
  <2>3. CASE c.op = "flag"
    <3>1. n = [m EXCEPT !.flags = @ \cup {v}]
      BY <2>1, <2>3
    <3>2. \A f \in {"type", "command", "handle", "code", "text"} : n[f] = m[f]
      BY <1>2, <3>1
    <3> QED
      BY <1>1, <3>2 DEF Proper, n
  <2>4. CASE c.op \in FieldsOf(m.type)
    <3>1. FieldsOf(m.type) \subseteq {"command", "handle", "code", "text"}
      BY FieldsAre DEF Sendable, Types
    <3>2. c.op # "arg" /\ c.op # "flag" /\ c.op # "type"
      BY <2>4, <3>1
    <3>3. n = [m EXCEPT ![c.op] = v]
      BY <2>1, <3>2
    <3>4. \A f \in {"type", "command", "handle", "code", "text"} : f # c.op => n[f] = m[f]
      BY <1>2, <3>3
    <3>5. n.type = m.type
      BY <3>2, <3>4
    <3> QED
      BY <1>1, <2>4, <3>4, <3>5 DEF Proper, n
  <2> QED
    BY <2>2, <2>3, <2>4
<1> QED
  BY <1>3, <1>4

\* What the calls of a program build has the fields of its type only.
LEMMA BuiltProper ==
  ASSUME NEW p \in Programs
  PROVE  Built(p) \in Sendable /\ Proper(Built(p))
<1> DEFINE S == {m \in Sendable : m.type = p.type /\ Proper(m)}
<1>1. /\ p.type \in Types /\ IsProgram(p)
      /\ p.calls \in Seq([op : Ops, key : Text \cup {NullPtr}, value : Text \cup {NullPtr}])
      /\ \A i \in DOMAIN p.calls : IsCall(p.calls[i])
  BY RoundTripAssumption
<1>2. \A i \in 1 .. Len(p.calls) :
        /\ p.calls[i] \in [op : Ops, key : Text \cup {NullPtr}, value : Text \cup {NullPtr}]
        /\ IsCall(p.calls[i]) /\ p.calls[i].op \in {"arg", "flag"} \cup FieldsOf(p.type)
  BY <1>1, LenProperties, ElementOfSeq DEF IsProgram
<1>3. Create(p.type) \in S
  <2>1. <<>> \in [{} -> Text] /\ {} \in SUBSET Keys
    OBVIOUS
  <2>2. <<>> \in UNION {[K -> Text] : K \in SUBSET Keys}
    BY <2>1
  <2>3. Create(p.type) \in Sendable
    BY <1>1, <2>2, NoNames DEF Create, Sendable
  <2> QED
    BY <2>3 DEF Create, Proper
<1>4. \A i \in 1 .. Len(p.calls) : \A m \in S : Apply(m, p.calls[i]) \in S
  BY <1>2, ApplyProper
<1>5. Built(p) \in S
  <2> HIDE DEF S
  <2> QED
    BY <1>3, <1>4, BuiltIn
<1> QED
  BY <1>5

----------------------------------------------------------------------------
(* The first line of a message *)

\* What the message says up to the i-th key.
Before(m, i) == {ArgSaid(k, m.args[k]) : k \in DOMAIN m.args \cap {KeyOrder[j] : j \in 1 .. i - 1}}
SoFar(m, i)  == Leads(m) \cup Before(m, i)

\* From one key to the next.
LEMMA SoFarIs ==
  ASSUME NEW m \in Sendable
  PROVE  /\ SoFar(m, 1) = Leads(m)
         /\ \A i \in 1 .. Len(KeyOrder) :
              SoFar(m, i + 1) = SoFar(m, i) \cup
                (IF KeyOrder[i] \in DOMAIN m.args THEN {ArgSaid(KeyOrder[i], m.args[KeyOrder[i]])} ELSE {})
         /\ SoFar(m, Len(KeyOrder) + 1) \cup Trails(m) = Said(m)
<1>1. PICK n \in Nat : n = Len(KeyOrder) /\ DOMAIN KeyOrder = 1 .. n
  BY ArgsType
<1> DEFINE I(i) == {KeyOrder[j] : j \in 1 .. i - 1}
<1>2. I(1) = {}
  OBVIOUS
<1>3. \A i \in 1 .. n : I(i + 1) = I(i) \cup {KeyOrder[i]}
  <2> SUFFICES ASSUME NEW i \in 1 .. n PROVE I(i + 1) = I(i) \cup {KeyOrder[i]}
    OBVIOUS
  <2>1. 1 .. (i + 1) - 1 = 1 .. i - 1 \cup {i}
    OBVIOUS
  <2> QED
    BY <2>1
<1>4. DOMAIN m.args \subseteq I(n + 1)
  <2>1. DOMAIN m.args \subseteq Keys
    BY DEF Sendable
  <2>2. Keys = {KeyOrder[j] : j \in 1 .. n}
    BY <1>1 DEF Keys, ToSet
  <2>3. (n + 1) - 1 = n
    OBVIOUS
  <2> QED
    BY <2>1, <2>2, <2>3
<1>5. \A i : Before(m, i) = {ArgSaid(k, m.args[k]) : k \in DOMAIN m.args \cap I(i)}
  BY DEF Before
<1> HIDE DEF I
<1>6. SoFar(m, 1) = Leads(m)
  BY <1>2, <1>5 DEF SoFar
<1>7. ASSUME NEW i \in 1 .. n
      PROVE  SoFar(m, i + 1) = SoFar(m, i) \cup
                (IF KeyOrder[i] \in DOMAIN m.args THEN {ArgSaid(KeyOrder[i], m.args[KeyOrder[i]])} ELSE {})
  BY <1>3, <1>5 DEF SoFar
<1>8. Before(m, n + 1) = Listed(m)
  BY <1>4, <1>5 DEF Listed
<1> QED
  BY <1>1, <1>6, <1>7, <1>8 DEF SoFar, Said

\* Text that does not end with a return, which the end of the line would take.
Dry(x) == x = <<>> \/ Last(x) # "cr"

\* What keeps text dry, and what it is for.
LEMMA DryIs ==
  /\ \A x \in Text : ~Contains(x, "cr") => Dry(x)
  /\ \A a, b \in Text : Dry(a) /\ Dry(b) => Dry(a \o b)
  /\ \A a \in Text, u \in Units : u # "cr" => Dry(a \o <<u>>) /\ Dry(Append(a, u))
  /\ \A v \in Text : ~EatsReturn(v) => Dry(v)
  /\ \A x \in Text, e \in BOOLEAN : Dry(x) => Chomp(Returned(x, e)) = x
<1>1. ASSUME NEW x \in Text, x # <<>> PROVE Len(x) \in 1 .. Len(x) /\ Last(x) = x[Len(x)] /\ Last(x) \in Units
  <2>1. x \in Seq(Units)
    BY DEF Text
  <2>2. Len(x) \in Nat \ {0} /\ Last(x) = x[Len(x)] /\ Last(x) \in Units
    BY <1>1, <2>1, FrontAndLast
  <2> QED
    BY <2>2
<1>2. ASSUME NEW x \in Text, ~Contains(x, "cr") PROVE Dry(x)
  BY <1>1, <1>2 DEF Dry, Contains
<1>3. ASSUME NEW a \in Text, NEW b \in Text, Dry(a), Dry(b) PROVE Dry(a \o b)
  <2>1. a \in Seq(Units) /\ b \in Seq(Units)
    BY DEF Text
  <2>2. CASE b = <<>>
    BY <1>3, <2>2, TextOps DEF Same
  <2>3. CASE b # <<>>
    <3>1. Last(a \o b) = Last(b)
      BY <2>1, <2>3, Joined
    <3> QED
      BY <1>3, <2>3, <3>1 DEF Dry
  <2> QED
    BY <2>2, <2>3
<1>4. ASSUME NEW a \in Text, NEW u \in Units, u # "cr" PROVE Dry(a \o <<u>>) /\ Dry(Append(a, u))
  <2>1. a \in Seq(Units)
    BY DEF Text
  <2>2. Last(Append(a, u)) = u
    BY <2>1, FrontOfAppend
  <2>3. Append(a, u) = a \o <<u>>
    BY TextOps DEF Same
  <2> QED
    BY <1>4, <2>2, <2>3 DEF Dry
<1>5. ASSUME NEW v \in Text, ~EatsReturn(v) PROVE Dry(v)
  <2>1. CASE v = <<>>
    BY <2>1 DEF Dry
  <2>2. CASE v # <<>>
    <3>1. DOMAIN v = 1 .. Len(v)
      BY LenProperties DEF Text
    <3> QED
      BY <1>1, <1>5, <2>2, <3>1 DEF EatsReturn, Dry
  <2> QED
    BY <2>1, <2>2
<1>6. ASSUME NEW x \in Text, NEW e \in BOOLEAN, Dry(x) PROVE Chomp(Returned(x, e)) = x
  <2>1. CASE e
    BY <2>1, ChompIs DEF Returned
  <2>2. CASE ~e
    BY <1>6, <2>2 DEF Returned, Dry, Chomp
  <2> QED
    BY <2>1, <2>2
<1> QED
  BY <1>2, <1>3, <1>4, <1>5, <1>6

\* The i-th key has a value on several lines.
OpensBlock(m, i) == KeyOrder[i] \in DOMAIN m.args /\ Contains(m.args[KeyOrder[i]], "nl")

\* A value on one line, as it is written.
LEMMA ArgDry ==
  ASSUME NEW k \in Name, NEW v \in Text, ~EatsReturn(v), ~Contains(v, "nl")
  PROVE  serializeArg(k, v) \in Text /\ Dry(serializeArg(k, v))
<1> DEFINE a == <<"sp">>
           e == <<"=">>
           d == <<"dq">>
           s == <<"sq">>
           q == Quoted(v)
<1>0. "sp" \in Units /\ "=" \in Units /\ "dq" \in Units /\ "sq" \in Units
  BY UnitsHave DEF Marks
<1>1. a \in Text /\ e \in Text /\ d \in Text /\ s \in Text /\ k \in Text
  BY <1>0, TextOps, NoNames
<1>2. q = (s \o v) \o s \/ q = (d \o v) \o d \/ q = v
  BY DEF Quoted
<1>3. Dry(v)
  BY DryIs
<1>4. Dry((s \o v) \o s) /\ (s \o v) \o s \in Text
  <2> DEFINE z == s \o v
  <2>1. z \in Text
    <3> HIDE DEF s
    <3> QED
      BY <1>1, TextOps
  <2> HIDE DEF z
  <2>2. Dry(z \o <<"sq">>)
    BY <1>0, <2>1, DryIs
  <2>3. z \o s \in Text
    BY <1>1, <2>1, TextOps
  <2> QED
    BY <2>2, <2>3 DEF z
<1>5. Dry((d \o v) \o d) /\ (d \o v) \o d \in Text
  <2> DEFINE z == d \o v
  <2>1. z \in Text
    <3> HIDE DEF d
    <3> QED
      BY <1>1, TextOps
  <2> HIDE DEF z
  <2>2. Dry(z \o <<"dq">>)
    BY <1>0, <2>1, DryIs
  <2>3. z \o d \in Text
    BY <1>1, <2>1, TextOps
  <2> QED
    BY <2>2, <2>3 DEF z
<1>6. q \in Text /\ Dry(q)
  BY <1>2, <1>3, <1>4, <1>5
<1>7. serializeArg(k, v) = ((a \o k) \o e) \o q
  BY DEF serializeArg
<1> HIDE DEF q, a
<1> DEFINE y == a \o k
           h == y \o e
<1>8. y \in Text
  BY <1>1, TextOps
<1> HIDE DEF y
<1>9. h \in Text
  BY <1>1, <1>8, TextOps
<1>10. Dry(h)
  BY <1>0, <1>8, DryIs
<1> HIDE DEF h
<1>11. Dry(h \o q) /\ h \o q \in Text
  BY <1>6, <1>9, <1>10, DryIs, TextOps
<1> QED
  BY <1>7, <1>11 DEF h, y

\* An arg on one line opens nothing and leaves the line dry; one that is not
\* there is nothing.
LEMMA ArgPlain ==
  ASSUME NEW m \in Sendable, AllWritable(m), NEW i \in 1 .. Len(KeyOrder), ~OpensBlock(m, i)
  PROVE  /\ ArgAt(m, i) \in Text /\ Dry(ArgAt(m, i))
         /\ ~Contains(ArgAt(m, i), "nl") /\ ~Contains(ArgAt(m, i), "<<")
<1> DEFINE k == KeyOrder[i]
           v == m.args[k]
           V == Units \ {"nl", "<<"}
<1>1. (Units \ Marks) \cup {"sp", "=", "dq", "sq"} \subseteq V
  BY UnitsHave DEF Marks
<1>2. CASE k \notin DOMAIN m.args
  BY <1>2, TextContains, TextOps DEF ArgAt, Optional, Dry
<1>3. CASE k \in DOMAIN m.args
  <2>1. v \in Text /\ k \in Name /\ ~Contains(v, "nl") /\ Writable(v)
    BY <1>3, ArgsType DEF OpensBlock, AllWritable
  <2>2. ~Contains(v, "<<") /\ ~EatsReturn(v) /\ v \in Seq(Units)
    BY <2>1 DEF Writable, Text
  <2>3. v \in Seq(Units \ {"nl"})
    BY <2>1, <2>2, Without
  <2>4. v \in Seq((Units \ {"nl"}) \ {"<<"})
    BY <2>2, <2>3, Without
  <2>5. V = (Units \ {"nl"}) \ {"<<"}
    OBVIOUS
  <2>6. v \in Seq(V)
    BY <2>4, <2>5
  <2> DEFINE a == serializeArg(k, v)
  <2>7. ArgAt(m, i) = a
    BY <1>3 DEF ArgAt, Optional
  <2>8. "nl" \notin V /\ "<<" \notin V
    OBVIOUS
  <2>9. a \in Seq(V) /\ a \in Text /\ Dry(a)
    <3> HIDE DEF k, v, V
    <3> QED
      BY <1>1, <2>1, <2>2, <2>6, OneLineType, ArgDry
  <2> HIDE DEF a, V
  <2> QED
    BY <2>7, <2>8, <2>9, ContainsIn
<1> QED
  BY <1>2, <1>3

\* What is left to read when a block has just begun, or goes on: the value of
\* the j-th key, or what is still to come of it.
Rest(m, j, v) == v \o (<<"nl", ">>">> \o From(m, j + 1))

\* The block of one of the keys from the i-th on has begun, P is the message so
\* far, and y is left to read.
Begun(m, i, P, y) ==
  \E j \in i .. Len(KeyOrder) :
    /\ OpensBlock(m, j) /\ Same(y, Rest(m, j, m.args[KeyOrder[j]]))
    /\ InBlock(P, KeyOrder[j], <<>>, First(m), SoFar(m, j))

\* x is the first line of h and what there is from the i-th key on, with y
\* behind it, and what follows from c \o x being read.
Scanned(m, c, h, i, x, y) ==
  /\ CutAt(h \o From(m, i), x, y) /\ Dry(x)
  /\ \E w \in Text : Same(x, h \o w) /\ Spaced(w)
  /\ \/ ~Contains(x, "<<") /\ Same(y, After) /\ Gives(c \o x, First(m), Said(m))
     \/ EndsOpen(x) /\ Begun(m, i, c \o x, y)

\* The text of an arg on one line is part of the line.
LEMMA ScanStep ==
  ASSUME NEW m \in Sendable, NEW i \in 1 .. Len(KeyOrder), NEW c \in Text, NEW h \in Text,
         NEW x \in Text, NEW y \in Text, Scanned(m, c, h \o ArgAt(m, i), i + 1, x, y)
  PROVE  Scanned(m, c, h, i, x, y)
<1> DEFINE a == ArgAt(m, i)
           F == From(m, i + 1)
<1>1. a \in Text /\ Spaced(a) /\ F \in Text /\ Same(From(m, i), a \o F) /\ Len(KeyOrder) \in Nat
  <2>1. Len(KeyOrder) \in Nat
    BY ArgsType
  <2>2. i + 1 \in 1 .. Len(KeyOrder) + 1
    BY <2>1
  <2> QED
    BY <2>1, <2>2, ArgSpaced, FromIs
<1>2. PICK w \in Text : Same(x, (h \o a) \o w) /\ Spaced(w)
  BY DEF Scanned
<1>3. Same((h \o a) \o F, Append(x, "nl") \o y) /\ ~Contains(x, "nl") /\ Dry(x)
  BY DEF Scanned, CutAt
<1> HIDE DEF a, F
<1>4. Same((h \o a) \o F, h \o (a \o F)) /\ Same((h \o a) \o w, h \o (a \o w))
  BY <1>1, TextAssociative
<1>5. CutAt(h \o From(m, i), x, y)
  BY <1>1, <1>3, <1>4 DEF Same, CutAt
<1>6. Same(x, h \o (a \o w)) /\ a \o w \in Text /\ Spaced(a \o w)
  BY <1>1, <1>2, <1>4, TextOps, SpacedIs DEF Same
<1>7. Begun(m, i + 1, c \o x, y) => Begun(m, i, c \o x, y)
  <2>1. i + 1 .. Len(KeyOrder) \subseteq i .. Len(KeyOrder)
    BY <1>1
  <2> QED
    BY <2>1 DEF Begun
<1>8. \/ ~Contains(x, "<<") /\ Same(y, After) /\ Gives(c \o x, First(m), Said(m))
      \/ EndsOpen(x) /\ Begun(m, i, c \o x, y)
  BY <1>7 DEF Scanned
<1> QED
  BY <1>3, <1>5, <1>6, <1>8 DEF Scanned

\* A block begins on the line.
LEMMA ScanBlock ==
  ASSUME NEW m \in Sendable, NEW i \in 1 .. Len(KeyOrder), OpensBlock(m, i),
         NEW c \in Text, NEW h \in Text, ~Contains(h, "nl"), ~Contains(h, "<<"),
         Gives(c \o h, First(m), SoFar(m, i))
  PROVE  \E x, y \in Text : Scanned(m, c, h, i, x, y)
<1> DEFINE o == <<"<<", "nl">>
           b == <<"<<">>
           l == <<"nl", ">>">>
           F == From(m, i + 1)
           s == KeyText(i)
           u == h \o s
           x == Append(u, "<<")
<1>1. "nl" \in Units /\ "<<" \in Units /\ ">>" \in Units
  BY UnitsHave DEF Marks
<1>2. PICK v \in Text : v = m.args[KeyOrder[i]] /\ Contains(v, "nl")
  BY ArgsType DEF OpensBlock
<1> DEFINE y == v \o (l \o F)
<1>3. /\ s \in Text /\ ~Contains(s, "nl") /\ ~Contains(s, "<<") /\ Spaced(s) /\ s # <<>>
      /\ Same(ArgAt(m, i), ((s \o o) \o v) \o l)
  BY <1>2, BlockForm DEF OpensBlock
<1>4. F \in Text /\ Same(From(m, i), ArgAt(m, i) \o F) /\ i \in i .. Len(KeyOrder)
  <2>1. i + 1 \in 1 .. Len(KeyOrder) + 1 /\ i \in i .. Len(KeyOrder)
    BY ArgsType
  <2> QED
    BY <2>1, FromIs
<1>5. o \in Text /\ l \in Text /\ b \in Text
  BY <1>1 DEF Text
<1>6. s \o b = ((<<"sp">> \o KeyOrder[i]) \o <<"=">>) \o <<"<<">> /\ KeyOrder[i] \in Seq(Plain)
  <2>1. KeyOrder[i] \in Seq(Plain)
    BY ArgsType, PlainIs
  <2> QED
    BY <2>1 DEF KeyText
<1> HIDE DEF s
<1>7. u \in Text /\ ~Contains(u, "nl") /\ ~Contains(u, "<<")
  BY <1>3, TextOps, TextContains
<1>8. Same(u \o o, Append(x, "nl")) /\ x \in Text /\ ~Contains(x, "nl") /\ EndsOpen(x) /\ Dry(x)
  <2> HIDE DEF u
  <2>1. x \in Text /\ ~Contains(x, "nl") /\ Dry(x)
    BY <1>1, <1>7, TextOps, TextContains, DryIs
  <2>2. EndsOpen(x)
    BY <1>7 DEF EndsOpen, Same
  <2> QED
    BY <1>1, <1>7, <2>1, <2>2, AppendTwo
<1>9. l \o F \in Text /\ y \in Text
  <2> HIDE DEF l, F
  <2>1. l \o F \in Text
    BY <1>4, <1>5, TextOps
  <2> QED
    BY <2>1, TextOps
<1>10. Same(y, Rest(m, i, m.args[KeyOrder[i]]))
  BY <1>2 DEF Rest, Same
<1> HIDE DEF o, F
<1>11. Same(h \o From(m, i), Append(x, "nl") \o y)
  <2> HIDE DEF l
  <2> DEFINE a == s \o o
  <2>1. a \in Text
    BY <1>3, <1>5, TextOps
  <2> HIDE DEF a
  <2>2. Same((a \o v) \o (l \o F), ((a \o v) \o l) \o F) /\ Same(a \o (v \o (l \o F)), ((a \o v) \o l) \o F)
    BY <1>4, <1>5, <2>1, FourInARow DEF Text
  <2>3. From(m, i) = a \o y
    BY <1>3, <1>4, <2>2 DEF Same, a
  <2> HIDE DEF y, x
  <2>4. Same((h \o a) \o y, h \o (a \o y))
    BY <1>9, <2>1, TextAssociative
  <2>5. Same((h \o s) \o o, h \o (s \o o))
    BY <1>3, <1>5, TextAssociative
  <2> QED
    BY <1>8, <2>3, <2>4, <2>5 DEF Same, a, u
<1>12. Same(x, h \o (s \o b)) /\ s \o b \in Text /\ Spaced(s \o b)
  <2>1. Same((h \o s) \o b, h \o (s \o b)) /\ s \o b \in Text /\ Spaced(s \o b)
    BY <1>3, <1>5, TextAssociative, TextOps, SpacedIs
  <2>2. Same(Append(u, "<<"), u \o b)
    BY <1>1, <1>7, TextOps
  <2> QED
    BY <2>1, <2>2 DEF Same
<1>13. InBlock(c \o x, KeyOrder[i], <<>>, First(m), SoFar(m, i))
  <2> DEFINE P == c \o h
             k == KeyOrder[i]
  <2>1. P \in Text
    BY TextOps
  <2> HIDE DEF P, k
  <2>2. InBlock(P \o (((<<"sp">> \o k) \o <<"=">>) \o <<"<<">>), k, <<>>, First(m), SoFar(m, i))
    BY <1>6, <2>1, BlockBegins DEF P, k
  <2>3. InBlock(P \o (s \o b), k, <<>>, First(m), SoFar(m, i))
    BY <1>6, <2>2 DEF k
  <2> HIDE DEF b
  <2> DEFINE t == s \o b
  <2>4. t \in Text /\ Same(x, h \o t)
    BY <1>12
  <2> HIDE DEF t, x
  <2>5. Same((c \o h) \o t, c \o (h \o t))
    BY <2>4, TextAssociative
  <2> QED
    BY <2>3, <2>4, <2>5 DEF Same, P, t, k
<1> HIDE DEF y, x
<1>14. Begun(m, i, c \o x, y)
  BY <1>4, <1>10, <1>13 DEF Begun
<1>15. CutAt(h \o From(m, i), x, y)
  BY <1>8, <1>11 DEF CutAt
<1>16. \E w \in Text : Same(x, h \o w) /\ Spaced(w)
  BY <1>12
<1> QED
  BY <1>8, <1>9, <1>14, <1>15, <1>16 DEF Scanned

\* No key is left.
LEMMA ScanEnd ==
  ASSUME NEW m \in Sendable, NEW c \in Text, NEW h \in Text, ~Contains(h, "nl"), ~Contains(h, "<<"),
         Dry(h), Gives(c \o h, First(m), SoFar(m, Len(KeyOrder) + 1))
  PROVE  \E x, y \in Text : Scanned(m, c, h, Len(KeyOrder) + 1, x, y)
<1> DEFINE n == Len(KeyOrder)
           e == Ending(m)
           x == h \o e
           E == Append(e, "nl")
<1>1. e \in Text /\ Spaced(e) /\ ~Contains(e, "nl") /\ ~Contains(e, "<<") /\ "nl" \in Units /\ After \in Text
  BY EndingSpaced, AfterType
<1>2. From(m, n + 1) = Append(e, "nl") \o After
  BY FromIs DEF Same
<1>3. ~Contains(e, "cr")
  <2> DEFINE V == Units \ {"cr"}
  <2>1. (Units \ Marks) \cup Common \subseteq V
    BY UnitsHave DEF Marks, Common
  <2>2. "cr" \notin V
    OBVIOUS
  <2> HIDE DEF V
  <2> QED
    BY <2>1, <2>2, EndingType, ContainsIn
<1>4. Gives(c \o x, First(m), Said(m))
  <2> DEFINE P == c \o h
  <2>1. P \in Text
    BY TextOps
  <2>2. SoFar(m, n + 1) \cup Trails(m) = Said(m)
    BY SoFarIs
  <2> HIDE DEF P
  <2>3. Gives(P \o Ending(m), First(m), SoFar(m, n + 1) \cup Trails(m))
    BY <2>1, EndingGives DEF P
  <2> HIDE DEF e
  <2>4. Same((c \o h) \o e, c \o (h \o e))
    BY <1>1, TextAssociative
  <2> QED
    BY <2>2, <2>3, <2>4 DEF Same, P, e
<1> HIDE DEF e
<1>5. x \in Text /\ ~Contains(x, "nl") /\ ~Contains(x, "<<")
  BY <1>1, TextOps, TextContains
<1>6. Dry(x)
  BY <1>1, <1>3, DryIs
<1>7. E \in Text
  BY <1>1, TextOps
<1>8. Same(h \o E, Append(x, "nl"))
  <2>1. h \o Append(e, "nl") = Append(h \o e, "nl")
    BY <1>1, AppendToConcat DEF Text
  <2> QED
    BY <2>1 DEF Same
<1> HIDE DEF E
<1>9. Same((h \o E) \o After, h \o (E \o After))
  BY <1>1, <1>7, TextAssociative
<1>10. Same(x, h \o e) /\ Same(After, After)
  BY DEF Same
<1> HIDE DEF x
<1>11. CutAt(h \o From(m, n + 1), x, After)
  BY <1>2, <1>5, <1>8, <1>9 DEF CutAt, Same, E
<1> QED
  BY <1>1, <1>4, <1>5, <1>6, <1>10, <1>11 DEF Scanned

\* Text that can come before the i-th key on a line.
Ready(m, c, h, i) ==
  ~Contains(h, "nl") /\ ~Contains(h, "<<") /\ Dry(h) /\ Gives(c \o h, First(m), SoFar(m, i))

\* An arg on one line brings it to the next key.
LEMMA ReadyStep ==
  ASSUME NEW m \in Sendable, AllWritable(m), NEW i \in 1 .. Len(KeyOrder), ~OpensBlock(m, i),
         NEW c \in Text, NEW h \in Text, Ready(m, c, h, i)
  PROVE  h \o ArgAt(m, i) \in Text /\ Ready(m, c, h \o ArgAt(m, i), i + 1)
<1> DEFINE a == ArgAt(m, i)
           P == c \o h
<1>1. a \in Text /\ Dry(a) /\ ~Contains(a, "nl") /\ ~Contains(a, "<<")
  BY ArgPlain
<1>2. P \in Text
  BY TextOps
<1> HIDE DEF P
<1>3. Gives(P \o a, First(m), SoFar(m, i + 1))
  <2>1. CASE KeyOrder[i] \notin DOMAIN m.args
    <3>1. a = <<>> /\ SoFar(m, i + 1) = SoFar(m, i)
      BY <2>1, SoFarIs DEF ArgAt, Optional
    <3>2. Same(P \o <<>>, P)
      BY <1>2, TextOps
    <3> QED
      BY <3>1, <3>2 DEF Ready, P, Same
  <2>2. CASE KeyOrder[i] \in DOMAIN m.args
    <3> DEFINE k == KeyOrder[i]
               v == m.args[k]
    <3>1. k \in Seq(Plain) /\ v \in Text /\ Writable(v) /\ ~Contains(v, "nl")
      BY <2>2, ArgsType, PlainIs DEF OpensBlock, AllWritable
    <3>2. a = serializeArg(k, v) /\ SoFar(m, i + 1) = SoFar(m, i) \cup {ArgSaid(k, v)}
      BY <2>2, SoFarIs DEF ArgAt, Optional
    <3>3. Gives(P, First(m), SoFar(m, i))
      BY DEF Ready, P
    <3> HIDE DEF k, v, a
    <3>4. Gives(P \o serializeArg(k, v), First(m), SoFar(m, i) \cup {ArgSaid(k, v)})
      BY <1>2, <3>1, <3>3, GivesArg
    <3> QED
      BY <3>2, <3>4
  <2> QED
    BY <2>1, <2>2
<1> HIDE DEF a
<1>4. Same((c \o h) \o a, c \o (h \o a))
  BY <1>1, TextAssociative
<1> DEFINE g == h \o a
<1>5. g \in Text /\ ~Contains(g, "nl") /\ ~Contains(g, "<<")
  BY <1>1, TextOps, TextContains DEF Ready
<1>6. Dry(g)
  BY <1>1, DryIs DEF Ready
<1>7. Gives(c \o g, First(m), SoFar(m, i + 1))
  BY <1>3, <1>4 DEF Same, P
<1> HIDE DEF g
<1> QED
  BY <1>5, <1>6, <1>7 DEF Ready, g, a

\* There is a first line, and it ends the message, with all it says, or a block
\* begins at its end.
LEMMA ScanIs ==
  ASSUME NEW m \in Sendable, AllWritable(m), NEW c \in Text
  PROVE  \A i \in 1 .. Len(KeyOrder) + 1 : \A h \in Text :
           Ready(m, c, h, i) => \E x, y \in Text : Scanned(m, c, h, i, x, y)
<1> DEFINE Good(i) == \A h \in Text : Ready(m, c, h, i) => \E x, y \in Text : Scanned(m, c, h, i, x, y)
<1>1. PICK n \in Nat : n = Len(KeyOrder)
  BY ArgsType
<1>2. Good(n + 1)
  BY <1>1, ScanEnd DEF Ready
<1>3. \A i \in 1 .. n : Good(i + 1) => Good(i)
  <2> SUFFICES ASSUME NEW i \in 1 .. n, Good(i + 1), NEW h \in Text, Ready(m, c, h, i)
               PROVE  \E x, y \in Text : Scanned(m, c, h, i, x, y)
    OBVIOUS
  <2>1. i \in 1 .. Len(KeyOrder)
    BY <1>1
  <2>2. CASE ~OpensBlock(m, i)
    <3> DEFINE g == h \o ArgAt(m, i)
    <3>1. g \in Text /\ Ready(m, c, g, i + 1)
      BY <2>1, <2>2, ReadyStep
    <3>2. PICK x \in Text, y \in Text : Scanned(m, c, g, i + 1, x, y)
      <4> HIDE DEF g
      <4> QED
        BY <3>1
    <3> QED
      BY <2>1, <3>2, ScanStep
  <2>3. CASE OpensBlock(m, i)
    BY <2>1, <2>3, ScanBlock DEF Ready
  <2> QED
    BY <2>2, <2>3
<1> HIDE DEF Good
<1>4. \A i \in 1 .. n + 1 : Good(i)
  <2> DEFINE B == {k \in 0 .. n : ~Good(n + 1 - k)}
  <2>1. ASSUME NEW k \in B PROVE k - 1 \in B
    <3>1. k \in 0 .. n /\ ~Good(n + 1 - k)
      OBVIOUS
    <3>2. k # 0
      <4> SUFFICES ASSUME k = 0 PROVE FALSE
        OBVIOUS
      <4>1. n + 1 - k = n + 1
        OBVIOUS
      <4> QED
        BY <1>2, <3>1, <4>1
    <3> DEFINE i == n + 1 - k
    <3>3. i \in 1 .. n /\ i + 1 = n + 1 - (k - 1) /\ k - 1 \in 0 .. n
      BY <3>1, <3>2
    <3>4. ~Good(i + 1)
      <4> HIDE DEF i
      <4> QED
        BY <1>3, <3>1, <3>3 DEF i
    <3>5. ~Good(n + 1 - (k - 1))
      BY <3>3, <3>4
    <3> QED
      BY <3>3, <3>5
  <2>2. B \subseteq Nat
    OBVIOUS
  <2>3. B = {}
    <3> HIDE DEF B
    <3> QED
      BY <2>1, <2>2, NoFirst
  <2> SUFFICES ASSUME NEW i \in 1 .. n + 1 PROVE Good(i)
    OBVIOUS
  <2> DEFINE k == n + 1 - i
  <2>4. k \in 0 .. n /\ n + 1 - k = i
    OBVIOUS
  <2> HIDE DEF k
  <2>5. Good(n + 1 - k)
    BY <2>3, <2>4
  <2> QED
    BY <2>4, <2>5
<1> QED
  BY <1>1, <1>4 DEF Good

\* The opening is dry: a what or a body is in quotes.
LEMMA OpeningDry ==
  ASSUME NEW m \in Sendable, Proper(m), Entire(m)
  PROVE  Dry(Opening(m))
<1> DEFINE V == Units \ {"cr"}
<1>1. m.text \in Text /\ Opening(m) \in Text /\ m.type \in Types
  BY SerializeIs DEF Sendable
<1>2. CASE m.text = <<>>
  <2>1. (Units \ Marks) \cup Common \subseteq V
    BY UnitsHave DEF Marks, Common
  <2>2. "cr" \notin V /\ m.text \in Seq(V)
    BY <1>2, EmptySeq
  <2> HIDE DEF V
  <2> QED
    BY <1>1, <2>1, <2>2, OpeningType, ContainsIn, DryIs
<1>3. ASSUME NEW c \in Units, NEW a \in Text, m.text # <<>>
      PROVE  Dry(a \o InQuotes(c, m.text))
  <2> DEFINE s == <<"sp", c, "=", "dq">>
             w == s \o m.text
             d == <<"dq">>
             b == a \o w
  <2>1. "sp" \in Units /\ "=" \in Units /\ "dq" \in Units
    BY UnitsHave DEF Marks
  <2>2. s \in Text /\ d \in Text
    BY <2>1 DEF Text
  <2>3. InQuotes(c, m.text) = w \o d
    BY <1>3 DEF InQuotes, Optional
  <2> HIDE DEF s
  <2>4. w \in Text
    BY <1>1, <2>2, TextOps
  <2> HIDE DEF w
  <2>5. b \in Text
    BY <2>4, TextOps
  <2>6. Dry(b \o <<"dq">>)
    <3> HIDE DEF b
    <3> QED
      BY <2>1, <2>5, DryIs
  <2>7. Same((a \o w) \o d, a \o (w \o d))
    <3> HIDE DEF d
    <3> QED
      BY <2>2, <2>4, TextAssociative
  <2> QED
    BY <2>3, <2>6, <2>7 DEF Same
<1>4. CASE m.text # <<>> /\ m.type = "error"
  <2> DEFINE z == Addressed(m) \o <<"sp", "error">>
             y == Optional(m.code # <<>>, <<"sp", "code", "=">> \o m.code)
  <2>1. Opening(m) = (z \o y) \o InQuotes("what", m.text)
    BY <1>4 DEF Opening
  <2>2. /\ (Units \ Marks) \cup Common \subseteq Units /\ "what" \in Units
        /\ {"sp", "error", "code", "="} \subseteq Units
    BY UnitsHave DEF Marks, Common
  <2>3. Addressed(m) \in Text /\ m.code \in Text /\ <<>> \in Text
    BY <2>2, AddressedType, NoNames DEF Sendable, Text, Common
  <2>4. <<"sp", "error">> \in Text /\ <<"sp", "code", "=">> \in Text
    BY <2>2 DEF Text
  <2>5. z \in Text
    BY <2>3, <2>4, TextOps
  <2>6. y \in Text
    BY <2>3, <2>4, TextOps DEF Optional
  <2> HIDE DEF z, y
  <2>7. z \o y \in Text
    BY <2>5, <2>6, TextOps
  <2> QED
    BY <1>3, <1>4, <2>1, <2>2, <2>7
<1>5. CASE m.text # <<>> /\ m.type = "witness"
  <2>1. "witness" \in Units /\ "body" \in Units
    BY UnitsHave DEF Common
  <2>2. <<"witness">> \in Text
    BY <2>1, TextOps
  <2> QED
    BY <1>3, <1>5, <2>1, <2>2 DEF Opening
<1>6. m.text # <<>> => m.type \in {"error", "witness"}
  <2>1. "text" \notin FieldsOf(m.type) => m.text = <<>>
    BY DEF Proper
  <2> QED
    BY <1>1, <2>1, FieldsAre DEF Types
<1> QED
  BY <1>2, <1>4, <1>5, <1>6

\* The values a node is sure to get.
Sound(m) == Entire(m) /\ AllWritable(m) /\ OneBlockLeads(m) /\ ~Reserved(m)

Value(m, j) == m.args[KeyOrder[j]]

\* The parser will drop the newline behind the "<<", if there is one; then none
\* of the value.
Lead(m, j, lead) == lead \in {<<"nl">>, <<>>} /\ (lead = <<>> => Head(Value(m, j)) # "nl")

\* Inside a block: w of the value is read and p is left.
InValue(m, P, R) ==
  \E j \in 1 .. Len(KeyOrder), w, p, lead \in Text :
    /\ OpensBlock(m, j) /\ Lead(m, j, lead)
    /\ Same(Value(m, j), w \o p) /\ Same(R, Rest(m, j, p))
    /\ InBlock(P, KeyOrder[j], lead \o w, First(m), SoFar(m, j))

\* The value is read, and the line that ends the block is next.
AtClose(m, P, R) ==
  \E j \in 1 .. Len(KeyOrder), lead \in Text :
    /\ OpensBlock(m, j) /\ Lead(m, j, lead) /\ Same(R, <<">>">> \o From(m, j + 1))
    /\ InBlock(P, KeyOrder[j], lead \o Append(Value(m, j), "nl"), First(m), SoFar(m, j))

\* A line of a value does not end with a return.
LEMMA LineDry ==
  ASSUME NEW v \in Text, ~EatsReturn(v), NEW w \in Text, NEW p \in Text, Same(v, w \o p)
  PROVE  /\ ~Contains(p, "nl") => Dry(p)
         /\ \A x, g \in Text : Same(p, Append(x, "nl") \o g) => Dry(x)
<1>1. p # <<>> => Last(p) = Last(v) /\ v # <<>>
  BY Joined DEF Same, Text
<1>2. Dry(p)
  BY <1>1, DryIs DEF Dry
<1>3. ASSUME NEW x \in Text, NEW g \in Text, Same(p, Append(x, "nl") \o g) PROVE Dry(x)
  <2> SUFFICES ASSUME x # <<>>, Last(x) = "cr" PROVE FALSE
    BY DEF Dry
  <2> DEFINE t == Append(x, "nl")
             r == t \o g
  <2>1. x \in Seq(Units) /\ w \in Seq(Units) /\ g \in Seq(Units) /\ "nl" \in Units
    BY UnitsHave DEF Text, Marks
  <2>2. PICK n \in Nat \ {0} : n = Len(x) /\ x[n] = "cr"
    BY <2>1, FrontAndLast
  <2>3. PICK k \in Nat : k = Len(w)
    BY <2>1, LenProperties
  <2>4. PICK l \in Nat : l = Len(g)
    BY <2>1, LenProperties
  <2>5. t \in Seq(Units) /\ Len(t) = n + 1 /\ t[n] = "cr" /\ t[n + 1] = "nl"
    BY <2>1, <2>2, AppendProperties
  <2> HIDE DEF t
  <2>6. r \in Seq(Units) /\ Len(r) = n + 1 + l
        /\ \A i \in 1 .. n + 1 + l : r[i] = IF i <= n + 1 THEN t[i] ELSE g[i - (n + 1)]
    <3>1. /\ r \in Seq(Units) /\ Len(r) = Len(t) + Len(g)
          /\ \A i \in 1 .. Len(t) + Len(g) : r[i] = IF i <= Len(t) THEN t[i] ELSE g[i - Len(t)]
      BY <2>1, <2>5, ConcatProperties
    <3> HIDE DEF r
    <3> QED
      BY <2>4, <2>5, <3>1
  <2>7. r[n] = "cr" /\ r[n + 1] = "nl"
    <3>1. n \in 1 .. n + 1 + l /\ n <= n + 1 /\ n + 1 \in 1 .. n + 1 + l /\ n + 1 <= n + 1
      BY <2>2, <2>4
    <3> QED
      BY <2>5, <2>6, <3>1
  <2>8. v = w \o r
    BY <1>3 DEF Same, t
  <2> HIDE DEF r
  <2>9. /\ v \in Seq(Units) /\ Len(v) = k + (n + 1 + l)
        /\ \A i \in 1 .. k + (n + 1 + l) : v[i] = IF i <= k THEN w[i] ELSE r[i - k]
    <3> DEFINE s == w \o r
    <3>1. /\ s \in Seq(Units) /\ Len(s) = Len(w) + Len(r)
          /\ \A i \in 1 .. Len(w) + Len(r) : s[i] = IF i <= Len(w) THEN w[i] ELSE r[i - Len(w)]
      BY <2>1, <2>6, ConcatProperties
    <3>2. v = s
      BY <2>8
    <3> HIDE DEF s
    <3> QED
      BY <2>3, <2>6, <3>1, <3>2
  <2>10. v[k + n] = "cr" /\ v[(k + n) + 1] = "nl" /\ k + n \in 1 .. k + (n + 1 + l)
    <3>1. /\ k + n \in 1 .. k + (n + 1 + l) /\ ~(k + n <= k) /\ (k + n) - k = n
          /\ (k + n) + 1 \in 1 .. k + (n + 1 + l) /\ ~((k + n) + 1 <= k) /\ ((k + n) + 1) - k = n + 1
      BY <2>2, <2>3, <2>4
    <3> QED
      BY <2>7, <2>9, <3>1
  <2>11. k + n \in DOMAIN v
    BY <2>9, <2>10, LenProperties
  <2> QED
    BY <2>10, <2>11 DEF EatsReturn
<1> QED
  BY <1>2, <1>3

\* The opening can come before the first key.
LEMMA OpeningReady ==
  ASSUME NEW m \in Sendable, Proper(m), Entire(m), AllWritable(m)
  PROVE  Opening(m) \in Text /\ Ready(m, <<>>, Opening(m), 1)
<1>1. WritableText(m.text)
  BY DEF AllWritable
<1>2. Opening(m) \in Text /\ Gives(Opening(m), First(m), Leads(m)) /\ Dry(Opening(m))
  BY <1>1, OpeningGives, OpeningDry
<1>3. m.text \in Seq(Units)
  BY DEF Sendable, Text
<1>4. ASSUME NEW u \in {"nl", "<<"} PROVE ~Contains(Opening(m), u)
  <2> DEFINE V == Units \ {u}
  <2>1. m.text \in Seq(V)
    BY <1>1, <1>3, Without DEF WritableText
  <2>2. (Units \ Marks) \cup Common \subseteq V
    BY UnitsHave DEF Marks, Common
  <2>3. Opening(m) \in Seq(V)
    BY <2>1, <2>2, OpeningType
  <2> QED
    BY <2>3, ContainsIn
<1>5. Same(<<>> \o Opening(m), Opening(m)) /\ SoFar(m, 1) = Leads(m)
  BY <1>2, TextOps, SoFarIs
<1> QED
  BY <1>2, <1>4, <1>5 DEF Ready, Same

\* What is to be seen of the first line.
OpeningCut(m, x, y) ==
  /\ CutAt(Opening(m) \o From(m, 1), x, y) /\ Dry(x)
  /\ \/ ~Contains(x, "<<") /\ Same(y, After) /\ Gives(x, First(m), Said(m))
     \/ EndsOpen(x) /\ InValue(m, Append(x, "nl"), y)

\* The first line of the message.
LEMMA FirstLineScanned ==
  ASSUME NEW m \in Sendable, Proper(m), Sound(m)
  PROVE  \E x, y \in Text : OpeningCut(m, x, y)
<1> DEFINE o == Opening(m)
           c == <<>>
<1>1. o \in Text /\ Ready(m, c, o, 1) /\ AllWritable(m)
  BY OpeningReady DEF Sound
<1>2. c \in Text /\ 1 \in 1 .. Len(KeyOrder) + 1
  BY ArgsType, TextOps
<1> HIDE DEF o, c
<1>3. PICK x \in Text, y \in Text : Scanned(m, c, o, 1, x, y)
  BY <1>1, <1>2, ScanIs
<1>4. c \o x = x
  BY TextOps DEF c, Same
<1>5. ASSUME Begun(m, 1, x, y) PROVE InValue(m, Append(x, "nl"), y)
  <2>1. PICK j \in 1 .. Len(KeyOrder) :
          /\ OpensBlock(m, j) /\ Same(y, Rest(m, j, m.args[KeyOrder[j]]))
          /\ InBlock(x, KeyOrder[j], <<>>, First(m), SoFar(m, j))
    BY <1>5 DEF Begun
  <2> DEFINE k == KeyOrder[j]
             l == <<"nl">>
             v == Value(m, j)
             w == <<>>
  <2>2. k \in Text /\ v \in Text /\ w \in Text /\ l \in Text /\ "nl" \in Units
    BY <2>1, ArgsType, NoNames, AfterType, TextOps DEF OpensBlock, Value
  <2>3. ~Contains(l, ">>")
    BY <2>2, TextContains
  <2>4. Lead(m, j, l)
    BY DEF Lead
  <2>5. Same(v, w \o v)
    <3>1. Same(w \o v, v)
      BY <2>2, TextOps
    <3> QED
      BY <3>1 DEF Same
  <2>6. InBlock(x, k, w, First(m), SoFar(m, j)) /\ Same(y, Rest(m, j, v))
    BY <2>1 DEF Value
  <2> HIDE DEF k, l, v, w
  <2>7. InBlock(x \o l, k, w \o l, First(m), SoFar(m, j))
    BY <2>2, <2>3, <2>6, BlockOn
  <2>8. w \o l = l \o w
    <3>1. Same(w \o l, l) /\ Same(l \o w, l)
      BY <2>2, TextOps DEF w
    <3> QED
      BY <3>1 DEF Same
  <2>9. Append(x, "nl") = x \o l
    BY <2>2, TextOps DEF Same, l
  <2>10. InBlock(Append(x, "nl"), KeyOrder[j], l \o w, First(m), SoFar(m, j))
    BY <2>7, <2>8, <2>9 DEF k
  <2>11. Same(Value(m, j), w \o v)
    BY <2>5 DEF v
  <2> QED
    BY <2>1, <2>2, <2>4, <2>6, <2>10, <2>11 DEF InValue
<1>6. OpeningCut(m, x, y)
  <2>1. CutAt(Opening(m) \o From(m, 1), x, y) /\ Dry(x)
    BY <1>3 DEF Scanned, o
  <2>2. \/ ~Contains(x, "<<") /\ Same(y, After) /\ Gives(x, First(m), Said(m))
        \/ EndsOpen(x) /\ Begun(m, 1, x, y)
    BY <1>3, <1>4 DEF Scanned
  <2> QED
    BY <1>5, <2>1, <2>2 DEF OpeningCut
<1> QED
  BY <1>6

----------------------------------------------------------------------------
(* The lines of a block *)

\* What is to be seen of a line of a block, and of the line that ends it.
ValueCut(m, P, R, x, y) ==
  /\ CutAt(R, x, y) /\ Dry(x) /\ ~Contains(x, ">>")
  /\ InValue(m, P \o Append(x, "nl"), y) \/ AtClose(m, P \o Append(x, "nl"), y)

CloseCut(m, P, R, x, y) ==
  /\ CutAt(R, x, y) /\ Dry(x) /\ \E w \in Text : Same(x, <<">>">> \o w) /\ Spaced(w)
  /\ \/ ~Contains(x, "<<") /\ Same(y, After) /\ Gives(P \o x, First(m), Said(m))
     \/ EndsOpen(x) /\ InValue(m, P \o x, y)

\* A value with several lines.
LEMMA BlockValue ==
  ASSUME NEW m \in Sendable, AllWritable(m), NEW j \in 1 .. Len(KeyOrder), OpensBlock(m, j)
  PROVE  /\ Value(m, j) \in Text /\ Value(m, j) # <<>> /\ KeyOrder[j] \in Text /\ KeyOrder[j] \in Seq(Plain)
         /\ ~EatsReturn(Value(m, j)) /\ ~Contains(Value(m, j), ">>") /\ Contains(Value(m, j), "nl")
         /\ SoFar(m, j + 1) = SoFar(m, j) \cup {ArgSaid(KeyOrder[j], Value(m, j))}
         /\ From(m, j + 1) \in Text /\ j + 1 \in 1 .. Len(KeyOrder) + 1
<1>1. KeyOrder[j] \in DOMAIN m.args /\ Contains(Value(m, j), "nl") /\ Value(m, j) \in Text
  BY ArgsType DEF OpensBlock, Value
<1>2. KeyOrder[j] \in Text /\ KeyOrder[j] \in Seq(Plain)
  BY ArgsType, NoNames, PlainIs
<1>3. Writable(Value(m, j))
  BY <1>1 DEF AllWritable, Value
<1>4. ~EatsReturn(Value(m, j)) /\ ~Contains(Value(m, j), ">>")
  BY <1>1, <1>3 DEF Writable
<1>5. Value(m, j) # <<>>
  BY <1>1, TextContains
<1>6. SoFar(m, j + 1) = SoFar(m, j) \cup {ArgSaid(KeyOrder[j], Value(m, j))}
  BY <1>1, SoFarIs DEF Value
<1>7. j + 1 \in 1 .. Len(KeyOrder) + 1
  BY ArgsType
<1>8. From(m, j + 1) \in Text
  BY <1>7, FromIs
<1> QED
  BY <1>1, <1>2, <1>4, <1>5, <1>6, <1>7, <1>8

\* A line of a block, or the end of its last.
LEMMA ValueLine ==
  ASSUME NEW m \in Sendable, AllWritable(m), NEW P \in Text, NEW R \in Text, InValue(m, P, R)
  PROVE  \E x, y \in Text : ValueCut(m, P, R, x, y)
<1>1. PICK j \in 1 .. Len(KeyOrder), w \in Text, p \in Text, lead \in Text :
        /\ OpensBlock(m, j) /\ Lead(m, j, lead)
        /\ Same(Value(m, j), w \o p) /\ Same(R, Rest(m, j, p))
        /\ InBlock(P, KeyOrder[j], lead \o w, First(m), SoFar(m, j))
  BY DEF InValue
<1> DEFINE k == KeyOrder[j]
           F == From(m, j + 1)
           c == <<"nl", ">>">>
           G == c \o F
           v == Value(m, j)
           S == SoFar(m, j)
           q == lead \o w
<1>2. v \in Text /\ k \in Text /\ ~EatsReturn(v) /\ ~Contains(v, ">>") /\ F \in Text
  BY <1>1, BlockValue
<1>3. "nl" \in Units /\ ">>" \in Units
  BY UnitsHave DEF Marks
<1>4. c \in Text
  BY <1>3 DEF Text
<1>5. G \in Text /\ q \in Text /\ R = p \o G /\ v = w \o p /\ InBlock(P, k, q, First(m), S)
  <2>1. R = p \o G
    BY <1>1 DEF Rest, Same
  <2> HIDE DEF c, F
  <2> QED
    BY <1>1, <1>2, <1>4, <2>1, TextOps DEF Same
<1>6. ~Contains(p, ">>") /\ ~Contains(w, ">>")
  <2> HIDE DEF v
  <2> QED
    BY <1>2, <1>5, TextContains
<1>7. ASSUME NEW t \in Text, ~Contains(t, ">>") PROVE InBlock(P \o t, k, q \o t, First(m), S)
  <2> HIDE DEF k, q, S
  <2> QED
    BY <1>2, <1>5, <1>7, BlockOn
<1> HIDE DEF F, c, S, v
<1>8. CASE Contains(p, "nl")
  <2>1. PICK x \in Text, g \in Text :
          ~Contains(x, "nl") /\ Same(p, Append(x, "nl") \o g)
    BY <1>8, TextSplits
  <2> DEFINE t == Append(x, "nl")
             y == g \o G
  <2>2. t \in Text /\ y \in Text
    <3> HIDE DEF G
    <3> QED
      BY <1>3, <1>5, TextOps
  <2>3. Dry(x)
    BY <1>2, <1>5, <2>1, LineDry DEF Same
  <2> HIDE DEF t
  <2>4. p = t \o g
    BY <2>1 DEF Same, t
  <2>5. ~Contains(t, ">>") /\ ~Contains(x, ">>")
    <3>1. ~Contains(t, ">>")
      BY <1>6, <2>2, <2>4, TextContains
    <3> QED
      BY <1>3, <3>1, TextContains DEF t
  <2> HIDE DEF G
  <2>6. CutAt(R, x, y)
    <3>1. Same((t \o g) \o G, t \o (g \o G))
      BY <1>5, <2>2, TextAssociative
    <3> QED
      BY <1>5, <2>1, <2>4, <3>1 DEF CutAt, Same, t
  <2>7. Same(v, (w \o t) \o g) /\ w \o t \in Text
    <3>1. Same((w \o t) \o g, w \o (t \o g))
      BY <2>2, TextAssociative
    <3> QED
      BY <1>5, <2>2, <2>4, <3>1, TextOps DEF Same
  <2>8. InBlock(P \o t, k, lead \o (w \o t), First(m), S)
    <3>1. Same((lead \o w) \o t, lead \o (w \o t))
      BY <2>2, TextAssociative
    <3>2. InBlock(P \o t, k, q \o t, First(m), S)
      BY <1>7, <2>2, <2>5
    <3> QED
      BY <3>1, <3>2 DEF Same, q
  <2>9. Same(y, Rest(m, j, g))
    BY DEF Rest, Same, G, F, c
  <2>10. InValue(m, P \o t, y)
    <3> HIDE DEF y
    <3> DEFINE z == w \o t
    <3>1. z \in Text /\ Same(Value(m, j), z \o g) /\ InBlock(P \o t, KeyOrder[j], lead \o z, First(m), SoFar(m, j))
      BY <2>7, <2>8 DEF v, k, S
    <3> HIDE DEF z
    <3> QED
      BY <1>1, <2>9, <3>1 DEF InValue
  <2> HIDE DEF y
  <2> QED
    BY <2>1, <2>2, <2>3, <2>5, <2>6, <2>10 DEF ValueCut, t
<1>9. CASE ~Contains(p, "nl")
  <2> DEFINE l == <<">>">>
             e == <<"nl">>
             y == l \o F
             t == Append(p, "nl")
  <2>1. l \in Text /\ e \in Text /\ t \in Text
    BY <1>3, TextOps
  <2>2. y \in Text
    <3> HIDE DEF l
    <3> QED
      BY <1>2, <2>1, TextOps
  <2>3. Dry(p)
    BY <1>2, <1>5, <1>9, LineDry DEF Same
  <2>4. ~Contains(t, ">>")
    BY <1>3, <1>6, TextContains
  <2>5. Same(c, e \o l)
    <3>1. c = Append(e, ">>")
      BY DEF c
    <3> HIDE DEF e
    <3> QED
      BY <1>3, <2>1, <3>1, TextOps
  <2>6. Same(t, p \o e)
    BY <1>3, TextOps
  <2> HIDE DEF l, e, t
  <2>7. CutAt(R, p, y)
    <3>1. Same((p \o e) \o (l \o F), ((p \o e) \o l) \o F) /\ Same(p \o ((e \o l) \o F), ((p \o e) \o l) \o F)
      BY <1>2, <2>1, FourInARow DEF Text
    <3>2. Same(R, t \o (l \o F))
      BY <1>5, <2>5, <2>6, <3>1 DEF Same
    <3> QED
      BY <1>9, <3>2 DEF CutAt, t
  <2>8. InBlock(P \o t, k, lead \o Append(v, "nl"), First(m), S)
    <3>1. InBlock(P \o t, k, q \o t, First(m), S)
      BY <1>7, <2>1, <2>4
    <3>2. Same((lead \o w) \o t, lead \o (w \o t))
      BY <2>1, TextAssociative
    <3>3. w \o Append(p, "nl") = Append(w \o p, "nl")
      BY <1>3, AppendToConcat DEF Text
    <3> QED
      BY <1>5, <3>1, <3>2, <3>3 DEF Same, q, t
  <2>9. AtClose(m, P \o t, y)
    <3>1. Same(y, <<">>">> \o From(m, j + 1))
      BY DEF Same, l, F
    <3> HIDE DEF y
    <3> QED
      BY <1>1, <2>8, <3>1 DEF AtClose, k, v, S
  <2> HIDE DEF y
  <2> QED
    BY <1>6, <2>2, <2>3, <2>7, <2>9 DEF ValueCut, t
<1> QED
  BY <1>8, <1>9

\* The line that ends a block, with what follows on it.
LEMMA CloseLine ==
  ASSUME NEW m \in Sendable, Sound(m), NEW P \in Text, NEW R \in Text, AtClose(m, P, R)
  PROVE  \E x, y \in Text : CloseCut(m, P, R, x, y)
<1>1. PICK j \in 1 .. Len(KeyOrder), lead \in Text :
        /\ OpensBlock(m, j) /\ Lead(m, j, lead) /\ Same(R, <<">>">> \o From(m, j + 1))
        /\ InBlock(P, KeyOrder[j], lead \o Append(Value(m, j), "nl"), First(m), SoFar(m, j))
  BY DEF AtClose
<1> DEFINE k == KeyOrder[j]
           v == Value(m, j)
           S == SoFar(m, j)
           h == <<">>">>
           i == j + 1
<1>2. /\ v \in Text /\ v # <<>> /\ k \in Seq(Plain) /\ i \in 1 .. Len(KeyOrder) + 1
      /\ SoFar(m, i) = S \cup {ArgSaid(k, v)} /\ AllWritable(m)
  BY <1>1, BlockValue DEF Sound
<1>3. "nl" \in Units /\ ">>" \in Units /\ "<<" \in Units
  BY UnitsHave DEF Marks
<1>4. Gives(P \o <<">>">>, First(m), S \cup {ArgSaid(k, v)})
  <2>1. lead \in {<<"nl">>, <<>>} /\ (lead = <<>> => Head(v) # "nl")
        /\ InBlock(P, k, lead \o Append(v, "nl"), First(m), S)
    BY <1>1 DEF Lead
  <2> HIDE DEF k, v, S
  <2> QED
    BY <1>2, <2>1, BlockEnds
<1>5. h \in Text /\ ~Contains(h, "nl") /\ ~Contains(h, "<<") /\ Dry(h)
  <2>1. h \in Text /\ \A u : Contains(h, u) <=> u = ">>"
    BY <1>3, TextOps, TextContains
  <2> HIDE DEF h
  <2> QED
    BY <2>1, DryIs
<1>6. Ready(m, P, h, i)
  BY <1>2, <1>4, <1>5 DEF Ready
<1> HIDE DEF h
<1>7. PICK x \in Text, y \in Text : Scanned(m, P, h, i, x, y)
  <2> HIDE DEF i
  <2> QED
    BY <1>2, <1>5, <1>6, ScanIs
<1>8. ASSUME Begun(m, i, P \o x, y) PROVE InValue(m, P \o x, y)
  <2>1. PICK n \in i .. Len(KeyOrder) :
          /\ OpensBlock(m, n) /\ Same(y, Rest(m, n, m.args[KeyOrder[n]]))
          /\ InBlock(P \o x, KeyOrder[n], <<>>, First(m), SoFar(m, n))
    BY <1>8 DEF Begun
  <2>2. n \in 1 .. Len(KeyOrder) /\ j < n /\ DOMAIN KeyOrder = 1 .. Len(KeyOrder)
    BY ArgsType
  <2>3. Head(Value(m, n)) # "nl"
    <3>1. OneBlockLeads(m)
      BY DEF Sound
    <3> QED
      BY <1>1, <2>1, <2>2, <3>1 DEF OneBlockLeads, OpensBlock, Value
  <2> DEFINE w == <<>>
             g == Value(m, n)
  <2>4. w \in Text /\ g \in Text
    BY <1>2, <2>1, <2>2, BlockValue, TextOps
  <2>5. Lead(m, n, w)
    BY <2>3 DEF Lead
  <2>6. InBlock(P \o x, KeyOrder[n], w, First(m), SoFar(m, n)) /\ Same(y, Rest(m, n, g))
    BY <2>1 DEF Value
  <2> HIDE DEF w, g
  <2>7. Same(w \o g, g) /\ Same(w \o w, w)
    BY <2>4, TextOps DEF w
  <2>8. Same(Value(m, n), w \o g) /\ InBlock(P \o x, KeyOrder[n], w \o w, First(m), SoFar(m, n))
    BY <2>6, <2>7 DEF Same, g
  <2> QED
    BY <2>1, <2>2, <2>4, <2>5, <2>6, <2>8 DEF InValue
<1>9. CutAt(R, x, y) /\ Dry(x)
  BY <1>1, <1>7 DEF Scanned, Same, h
<1>10. \E w \in Text : Same(x, <<">>">> \o w) /\ Spaced(w)
  BY <1>7 DEF Scanned, h
<1>11. \/ ~Contains(x, "<<") /\ Same(y, After) /\ Gives(P \o x, First(m), Said(m))
       \/ EndsOpen(x) /\ InValue(m, P \o x, y)
  BY <1>7, <1>8 DEF Scanned
<1> QED
  BY <1>9, <1>10, <1>11 DEF CloseCut

----------------------------------------------------------------------------
(* The turns of the loop over a message that can be carried *)

\* Where the loop is with a message that can be carried, and R to read.
SentStage(R) ==
  \/ multiline = FALSE /\ output = <<>> /\ Same(R, Opening(sent) \o From(sent, 1))
  \/ multiline = TRUE /\ output = <<>> /\ (InValue(sent, line, R) \/ AtClose(sent, line, R))
  \/ /\ multiline = FALSE /\ Len(output) = 1 /\ Delivers(output[1], sent)
     /\ Same(R, After) \/ Same(R, Wire(Follower))
  \/ /\ multiline = FALSE /\ Len(output) = 2
     /\ Delivers(output[1], sent) /\ Delivers(output[2], Follower)
     /\ R \in {<<"nl">>, <<>>}

SentReading(R, e) == Same(buf, Enc(R, e)) /\ SentStage(R)

\* A message that can be carried opens no block that it does not close.
LEMMA SoundHolds ==
  ASSUME NEW m, Sound(m)
  PROVE  NoStrayBlock(m)
BY DEF Sound, AllWritable, Writable, WritableText, NoStrayBlock

\* The message is complete, and the parser makes of it what was sent.
LEMMA MessageDone ==
  ASSUME TypeInv, sent' = sent, Proper(sent), Sound(sent), output = <<>>,
         NEW z, NEW text \in Text, Completes(z, text), Gives(text, First(sent), Said(sent))
  PROVE  multiline' = FALSE /\ Len(output') = 1 /\ Delivers(output'[1], sent')
<1>1. ~Malformed(parse(text)) /\ Received(parse(text)) = Expected(sent)
  <2> DEFINE T == tokenize(text)
  <2>1. Means(T, First(sent), Said(sent))
    BY GivesTokens
  <2>2. parse(text) = build(T)
    BY DEF parse
  <2> HIDE DEF T
  <2>3. sent \in Sendable /\ Entire(sent) /\ ~Reserved(sent)
    BY DEF TypeInv, Sound
  <2> QED
    BY <2>1, <2>2, <2>3, Understood
<1>2. text # <<>>
  BY <1>1, NothingIsMalformed
<1> DEFINE o == [kind |-> "message", raw |-> rawLine \o Append(z, "nl"), text |-> text]
<1>3. multiline' = FALSE /\ output' = Append(output, o)
  BY <1>1, <1>2 DEF Completes
<1>4. o.kind = "message" /\ o.text = text
  OBVIOUS
<1> HIDE DEF o
<1>5. output' = <<o>>
  BY <1>3
<1>6. Len(output') = 1 /\ output'[1] = o
  BY <1>5
<1>7. Delivers(o, sent)
  BY <1>1, <1>4 DEF Delivers
<1> QED
  BY <1>3, <1>6, <1>7

\* The first line.
LEMMA FirstTurn ==
  ASSUME TypeInv, Turn, Proper(sent), Sound(sent), multiline = FALSE, output = <<>>,
         NEW R \in Text, NEW e \in BOOLEAN, Same(buf, Enc(R, e)),
         Same(R, Opening(sent) \o From(sent, 1))
  PROVE  \E y \in Text : SentReading(y, e)'
<1>1. sent \in Sendable /\ sent' = sent
  BY DEF TypeInv, Turn
<1>2. PICK x \in Text, y \in Text : OpeningCut(sent, x, y)
  BY <1>1, FirstLineScanned
<1>3. CutAt(R, x, y) /\ Dry(x)
  BY <1>2 DEF OpeningCut, CutAt, Same
<1> DEFINE z == Returned(x, e)
           f == Enc(y, e)
<1>4. Line(z, f)
  BY <1>3, TurnOn
<1>5. /\ Chomp(z) = x
      /\ Opens(z) <=> Contains(x, "<<")
      /\ EndsOpen(x) => Opens(z) /\ ~SelfClosed(z)
  BY <1>3, SeenIs, DryIs
<1> HIDE DEF z, f
<1>6. Same(buf', f)
  BY <1>4 DEF Line
<1>7. CASE ~Contains(x, "<<") /\ Same(y, After) /\ Gives(x, First(sent), Said(sent))
  <2>1. Completes(z, x)
    BY <1>4, <1>5, <1>7 DEF Line
  <2>2. multiline' = FALSE /\ Len(output') = 1 /\ Delivers(output'[1], sent')
    BY <1>1, <1>7, <2>1, MessageDone
  <2> QED
    BY <1>6, <1>7, <2>2 DEF SentReading, SentStage, f
<1>8. CASE EndsOpen(x) /\ InValue(sent, Append(x, "nl"), y)
  <2>1. GoesOn(z, Append(x, "nl"))
    BY <1>4, <1>5, <1>8 DEF Line
  <2>2. multiline' = TRUE /\ line' = Append(x, "nl") /\ output' = <<>>
    BY <2>1 DEF GoesOn
  <2>3. InValue(sent', line', y)
    BY <1>1, <1>8, <2>2
  <2> QED
    BY <1>6, <2>2, <2>3 DEF SentReading, SentStage, f
<1> QED
  BY <1>2, <1>7, <1>8 DEF OpeningCut

\* A line of a value.
LEMMA ValueTurn ==
  ASSUME TypeInv, Turn, Sound(sent), multiline = TRUE, output = <<>>,
         NEW R \in Text, NEW e \in BOOLEAN, Same(buf, Enc(R, e)),
         InValue(sent, line, R)
  PROVE  \E y \in Text : SentReading(y, e)'
<1>1. sent \in Sendable /\ sent' = sent /\ line \in Text /\ AllWritable(sent)
  BY DEF TypeInv, Turn, Sound
<1>2. PICK x \in Text, y \in Text : ValueCut(sent, line, R, x, y)
  BY <1>1, ValueLine
<1>3. CutAt(R, x, y) /\ Dry(x) /\ ~Contains(x, ">>")
  BY <1>2 DEF ValueCut
<1> DEFINE z == Returned(x, e)
           f == Enc(y, e)
<1>4. Line(z, f)
  BY <1>3, TurnOn
<1>5. Chomp(z) = x /\ ~Closes(z)
  BY <1>3, SeenIs, DryIs
<1> HIDE DEF z, f
<1>6. Same(buf', f)
  BY <1>4 DEF Line
<1>7. GoesOn(z, line \o Append(x, "nl"))
  BY <1>4, <1>5 DEF Line
<1>8. multiline' = TRUE /\ line' = line \o Append(x, "nl") /\ output' = <<>>
  BY <1>7 DEF GoesOn
<1>9. InValue(sent', line', y) \/ AtClose(sent', line', y)
  BY <1>1, <1>2, <1>8 DEF ValueCut
<1> QED
  BY <1>6, <1>8, <1>9 DEF SentReading, SentStage, f

\* The line that ends a block.
LEMMA CloseTurn ==
  ASSUME TypeInv, Turn, Proper(sent), Sound(sent), multiline = TRUE, output = <<>>,
         NEW R \in Text, NEW e \in BOOLEAN, Same(buf, Enc(R, e)),
         AtClose(sent, line, R)
  PROVE  \E y \in Text : SentReading(y, e)'
<1>1. sent \in Sendable /\ sent' = sent /\ line \in Text
  BY DEF TypeInv, Turn
<1>2. PICK x \in Text, y \in Text : CloseCut(sent, line, R, x, y)
  BY <1>1, CloseLine
<1>3. CutAt(R, x, y) /\ Dry(x) /\ \E w \in Text : Same(x, <<">>">> \o w) /\ Spaced(w)
  BY <1>2 DEF CloseCut
<1> DEFINE z == Returned(x, e)
           f == Enc(y, e)
<1>4. Line(z, f)
  BY <1>3, TurnOn
<1>5. /\ Chomp(z) = x /\ Closes(z)
      /\ Opens(z) <=> Contains(x, "<<")
      /\ EndsOpen(x) => Opens(z)
  BY <1>3, SeenIs, DryIs
<1> HIDE DEF z, f
<1>6. Same(buf', f)
  BY <1>4 DEF Line
<1>7. CASE ~Contains(x, "<<") /\ Same(y, After) /\ Gives(line \o x, First(sent), Said(sent))
  <2>1. Completes(z, line \o x) /\ line \o x \in Text
    BY <1>1, <1>4, <1>5, <1>7, TextOps DEF Line
  <2>2. multiline' = FALSE /\ Len(output') = 1 /\ Delivers(output'[1], sent')
    BY <1>1, <1>7, <2>1, MessageDone
  <2> QED
    BY <1>6, <1>7, <2>2 DEF SentReading, SentStage, f
<1>8. CASE EndsOpen(x) /\ InValue(sent, line \o x, y)
  <2>1. GoesOn(z, line \o x)
    BY <1>4, <1>5, <1>8 DEF Line
  <2>2. multiline' = TRUE /\ line' = line \o x /\ output' = <<>>
    BY <2>1 DEF GoesOn
  <2>3. InValue(sent', line', y)
    BY <1>1, <1>8, <2>2
  <2> QED
    BY <1>6, <2>2, <2>3 DEF SentReading, SentStage, f
<1> QED
  BY <1>2, <1>7, <1>8 DEF CloseCut

\* One turn, wherever the loop is in such a message.
LEMMA SentTurn ==
  ASSUME RawInv, RawInv', Turn, Heads, Proper(sent), Sound(sent),
         NEW R \in Text, NEW e \in BOOLEAN, SentReading(R, e)
  PROVE  \E y \in Text : SentReading(y, e)'
<1>1. TypeInv /\ sent' = sent /\ Same(buf, Enc(R, e)) /\ SentStage(R)
      /\ output \in Seq(Outputs)
  BY DEF RawInv, TypeInv, Turn, SentReading
<1>2. CASE multiline = FALSE /\ output = <<>> /\ Same(R, Opening(sent) \o From(sent, 1))
  BY <1>1, <1>2, FirstTurn
<1>3. CASE multiline = TRUE /\ output = <<>> /\ InValue(sent, line, R)
  BY <1>1, <1>3, ValueTurn
<1>4. CASE multiline = TRUE /\ output = <<>> /\ AtClose(sent, line, R)
  BY <1>1, <1>4, CloseTurn
<1>5. CASE multiline = FALSE /\ Len(output) = 1 /\ Delivers(output[1], sent) /\ Same(R, After)
  <2> DEFINE y == Wire(Follower)
  <2>1. CutAt(R, <<>>, y) /\ y \in Text
    BY <1>5, FollowerTextIs, FollowerIs DEF Same
  <2> HIDE DEF y
  <2>2. multiline' = FALSE /\ output' = output /\ Same(buf', Enc(y, e))
    BY <1>1, <1>5, <2>1, BlankTurn
  <2>3. Same(y, Wire(Follower))
    BY DEF Same, y
  <2>4. SentReading(y, e)'
    BY <1>1, <1>5, <2>2, <2>3 DEF SentReading, SentStage
  <2> QED
    BY <2>1, <2>4
<1>6. CASE multiline = FALSE /\ Len(output) = 1 /\ Delivers(output[1], sent) /\ Same(R, Wire(Follower))
  <2> DEFINE y == <<"nl">>
  <2>1. y \in Text /\ Same(buf, Enc(Wire(Follower), e))
    BY <1>1, <1>6, AfterType DEF Same
  <2>2. multiline' = FALSE /\ Same(buf', Enc(y, e)) /\ Delivered'
    BY <1>6, <2>1, FollowerTurn
  <2>3. PICK o \in Outputs : output' = Append(output, o)
    BY <1>6, <2>1, FollowerTurn
  <2>4. Len(output') = 2 /\ output'[1] = output[1] /\ output'[2] = o
    <3> DEFINE p == Append(output, o)
    <3>1. /\ Len(p) = Len(output) + 1 /\ p[Len(output) + 1] = o
          /\ \A i \in 1 .. Len(output) : p[i] = output[i]
      BY <1>1, AppendProperties
    <3>2. output' = p
      BY <2>3
    <3> HIDE DEF p
    <3> QED
      BY <1>6, <3>1, <3>2
  <2>5. Last(output') = output'[2]
    BY <2>4 DEF Last
  <2>6. Delivers(output'[1], sent') /\ Delivers(output'[2], Follower)
    BY <1>1, <1>6, <2>2, <2>4, <2>5 DEF Delivered
  <2> HIDE DEF y
  <2>7. SentReading(y, e)'
    BY <2>2, <2>4, <2>6 DEF SentReading, SentStage, y
  <2> QED
    BY <2>1, <2>7
<1>7. CASE /\ multiline = FALSE /\ Len(output) = 2
           /\ Delivers(output[1], sent) /\ Delivers(output[2], Follower) /\ R = <<"nl">>
  <2> DEFINE y == <<>>
  <2>1. y \in Text /\ CutAt(R, <<>>, y)
    BY <1>7, FollowerTextIs, TextOps
  <2>2. multiline' = FALSE /\ output' = output /\ Same(buf', Enc(y, e))
    BY <1>1, <1>7, <2>1, BlankTurn
  <2>3. SentReading(y, e)'
    BY <1>1, <1>7, <2>2 DEF SentReading, SentStage
  <2> QED
    BY <2>1, <2>3
<1>8. CASE R = <<>>
  <2>1. ~Contains(buf, "nl")
    BY <1>1, <1>8, EncIs, TextContains DEF Same
  <2>2. ~Listener!Blocked
    BY DEF Turn, Listener!Turn, Listener!OpenBlock, Listener!SingleLine, Listener!BlockLine,
           Listener!ReopenBlock, Listener!CloseBlock, Listener!Continue, Listener!Complete, Listener!TakeLine
  <2> QED
    BY <2>1, <2>2 DEF Listener!Blocked, Listener!Contains, Contains
<1> QED
  BY <1>1, <1>2, <1>3, <1>4, <1>5, <1>6, <1>7, <1>8 DEF SentStage

\* A message that can be carried is on its way, or the loop is somewhere in it.
SentInv ==
  /\ Proper(sent)
  /\ Sound(sent) =>
       \/ unread \in {Bytes, CrLf(Bytes)} /\ buf = <<>> /\ multiline = FALSE /\ output = <<>>
       \/ unread = <<>> /\ \E R \in Text, e \in BOOLEAN : SentReading(R, e)

\* All that is sent, as the first line is scanned.
LEMMA BytesAre ==
  ASSUME NEW m \in Sendable, m = sent
  PROVE  /\ Opening(m) \o From(m, 1) \in Text
         /\ Bytes = Opening(m) \o From(m, 1)
<1>1. Opening(m) \in Text
  BY SerializeIs
<1>2. From(m, 1) \in Text
  <2>1. PICK n \in Nat : n = Len(KeyOrder)
    BY ArgsType
  <2>2. 1 \in 1 .. n + 1
    OBVIOUS
  <2> QED
    BY <2>1, <2>2, FromIs
<1> QED
  BY <1>1, <1>2, FromIs, TextOps DEF Bytes, Same

\* The first read.
LEMMA SentRead ==
  ASSUME TypeInv, Read, unread \in {Bytes, CrLf(Bytes)}, multiline = FALSE, output = <<>>
  PROVE  unread' = <<>> /\ \E R \in Text, e \in BOOLEAN : SentReading(R, e)'
<1> DEFINE b == Opening(sent) \o From(sent, 1)
<1>1. sent \in Sendable /\ sent' = sent
  BY DEF TypeInv, Read
<1>2. b \in Text /\ Bytes = b
  BY <1>1, BytesAre
<1>3. PICK R \in Text : R = b
  BY <1>2
<1> HIDE DEF b
<1>4. PICK e \in BOOLEAN : unread = Enc(R, e)
  <2>1. unread = Enc(R, FALSE) \/ unread = Enc(R, TRUE)
    BY <1>2, <1>3 DEF Enc
  <2> QED
    BY <2>1
<1>5. buf' = Enc(R, e) /\ multiline' = FALSE /\ output' = <<>> /\ unread' = <<>>
  BY <1>4 DEF Read
<1>6. Same(R, Opening(sent') \o From(sent', 1))
  BY <1>1, <1>3 DEF b, Same
<1>7. SentReading(R, e)'
  BY <1>5, <1>6 DEF SentReading, SentStage, Same
<1> QED
  BY <1>5, <1>7

\* A message that can be carried is read to its end, and so is the one that
\* follows.
LEMMA SentInvHolds == Spec => []SentInv
<1>1. Init => SentInv
  <2> SUFFICES ASSUME Init PROVE SentInv
    OBVIOUS
  <2>1. unread \in {Bytes, CrLf(Bytes)} /\ buf = <<>> /\ multiline = FALSE /\ output = <<>>
    BY InitIs
  <2>2. program \in Programs /\ sent = Built(program)
    BY DEF Init
  <2>3. Proper(sent)
    BY <2>2, BuiltProper
  <2> QED
    BY <2>1, <2>3 DEF SentInv
<1>2. SentInv /\ NextInv /\ NextInv' /\ [Next]_vars => SentInv'
  <2> SUFFICES ASSUME SentInv, NextInv, NextInv', [Next]_vars PROVE SentInv'
    OBVIOUS
  <2>1. RawInv /\ RawInv' /\ TypeInv
    BY DEF NextInv, RawInv
  <2>2. sent' = sent
    BY StutterType DEF Next, Read, Turn
  <2>3. Proper(sent)
    BY DEF SentInv
  <2> SUFFICES ASSUME Sound(sent)
               PROVE  \/ unread' \in {Bytes', CrLf(Bytes')} /\ buf' = <<>> /\ multiline' = FALSE /\ output' = <<>>
                      \/ unread' = <<>> /\ \E R \in Text, e \in BOOLEAN : SentReading(R, e)'
    BY <2>2, <2>3 DEF SentInv
  <2>4. Heads
    BY SoundHolds DEF NextInv
  <2>5. CASE unread \in {Bytes, CrLf(Bytes)} /\ buf = <<>> /\ multiline = FALSE /\ output = <<>>
    <3>1. CASE Read
      BY <2>1, <2>5, <3>1, SentRead
    <3>2. CASE Turn
      <4>1. ~Listener!Blocked
        BY <3>2 DEF Turn, Listener!Turn, Listener!OpenBlock, Listener!SingleLine, Listener!BlockLine,
               Listener!ReopenBlock, Listener!CloseBlock, Listener!Continue, Listener!Complete, Listener!TakeLine
      <4>2. Contains(buf, "nl")
        BY <4>1 DEF Listener!Blocked, Listener!Contains, Contains
      <4> QED
        BY <2>5, <4>2, TextContains
    <3>3. CASE UNCHANGED vars
      <4>1. UNCHANGED vars
        BY <3>3
      <4>2. unread' = unread /\ buf' = buf /\ multiline' = multiline /\ output' = output
        BY <4>1, StutterType
      <4> QED
        BY <2>2, <2>5, <4>2 DEF Bytes
    <3> QED
      BY <3>1, <3>2, <3>3 DEF Next
  <2>6. ASSUME NEW R \in Text, NEW e \in BOOLEAN, unread = <<>>, SentReading(R, e)
        PROVE  unread' = <<>> /\ \E y \in Text, f \in BOOLEAN : SentReading(y, f)'
    <3>1. CASE Read
      BY <2>6, <3>1 DEF Read
    <3>2. CASE Turn
      <4>1. unread' = unread
        BY <3>2 DEF Turn
      <4>2. \E y \in Text : SentReading(y, e)'
        BY <2>1, <2>3, <2>4, <2>6, <3>2, SentTurn
      <4> QED
        BY <2>6, <4>1, <4>2
    <3>3. CASE UNCHANGED vars
      <4>1. UNCHANGED vars
        BY <3>3
      <4>2. /\ unread' = unread /\ buf' = buf /\ line' = line /\ multiline' = multiline /\ output' = output
        BY <4>1, StutterType
      <4>3. SentStage(R)' <=> SentStage(R)
        BY <2>2, <4>2 DEF SentStage
      <4> QED
        BY <2>6, <4>2, <4>3 DEF SentReading
    <3> QED
      BY <3>1, <3>2, <3>3 DEF Next
  <2> QED
    BY <2>5, <2>6 DEF SentInv
<1> QED
  BY <1>1, <1>2, NextInvHolds, PTL DEF Spec

\* Unless all is read, there is a line end.
LEMMA SentContains ==
  ASSUME TypeInv, Sound(sent), Proper(sent), NEW R \in Text, SentStage(R)
  PROVE  \/ Contains(R, "nl")
         \/ Len(output) = 2 /\ Delivers(output[1], sent) /\ Delivers(output[2], Follower)
<1>1. /\ sent \in Sendable /\ AllWritable(sent) /\ line \in Text /\ FollowerText \in Text
      /\ <<"nl">> \in Text /\ <<>> \in Text /\ Wire(Follower) \in Text
  BY AfterType, TextOps, FollowerTextIs, FollowerIs DEF TypeInv, Sound
<1>2. CASE Same(R, Opening(sent) \o From(sent, 1))
  <2>1. PICK x \in Text, y \in Text : OpeningCut(sent, x, y)
    BY <1>1, FirstLineScanned
  <2>2. CutAt(R, x, y)
    BY <1>2, <2>1 DEF OpeningCut, CutAt, Same
  <2> QED
    BY <2>2, CutContains
<1>3. CASE InValue(sent, line, R)
  <2>1. PICK x \in Text, y \in Text : ValueCut(sent, line, R, x, y)
    BY <1>1, <1>3, ValueLine
  <2> QED
    BY <2>1, CutContains DEF ValueCut
<1>4. CASE AtClose(sent, line, R)
  <2>1. PICK x \in Text, y \in Text : CloseCut(sent, line, R, x, y)
    BY <1>1, <1>4, CloseLine
  <2> QED
    BY <2>1, CutContains DEF CloseCut
<1>5. CASE Same(R, After)
  BY <1>1, <1>5, FollowerTextIs, CutContains DEF Same
<1>6. CASE Same(R, Wire(Follower))
  BY <1>1, <1>6, FollowerTextIs, CutContains DEF Same
<1> QED
  BY <1>2, <1>3, <1>4, <1>5, <1>6 DEF SentStage

\* What a node sends is what another node gets, and the message that follows is
\* delivered on its own: SentIsReceived, about serialize() (spore_c.cpp), the
\* loop of listen() (client.cpp), tokenize() and build() (parser.cpp) and the
\* object the handlers get (callbacks).  It holds of every message, whatever
\* quotes, brackets, spaces, newlines and block marks are in its values, that
\* the wire format can carry.
THEOREM SentMessageIsReceived == Spec => []SentIsReceived
<1>1. NextInv /\ SentInv => SentIsReceived
  <2> SUFFICES ASSUME NextInv, SentInv, Quiet, Sound(sent)
               PROVE  Len(output) = 2 /\ Delivers(output[1], sent) /\ Delivers(output[2], Follower)
    BY DEF SentIsReceived, Sound
  <2>1. TypeInv /\ sent \in Sendable /\ unread = <<>> /\ ~Contains(buf, "nl") /\ Proper(sent)
    BY DEF NextInv, RawInv, TypeInv, Quiet, SentInv, Listener!Blocked, Listener!Contains, Contains
  <2>2. CASE unread \in {Bytes, CrLf(Bytes)}
    <3> DEFINE b == Opening(sent) \o From(sent, 1)
    <3>1. b \in Text /\ Bytes = b
      BY <2>1, BytesAre
    <3>2. Contains(b, "nl")
      <4>1. PICK x \in Text, y \in Text : OpeningCut(sent, x, y)
        BY <2>1, FirstLineScanned
      <4>2. CutAt(b, x, y)
        BY <4>1 DEF OpeningCut
      <4> QED
        BY <4>2, CutContains
    <3> HIDE DEF b
    <3>3. unread = Enc(b, FALSE) \/ unread = Enc(b, TRUE)
      BY <2>2, <3>1 DEF Enc
    <3>4. Contains(unread, "nl")
      BY <3>1, <3>2, <3>3, EncIs
    <3> QED
      BY <2>1, <3>4, TextContains
  <2>3. CASE \E R \in Text, e \in BOOLEAN : SentReading(R, e)
    <3>1. PICK R \in Text, e \in BOOLEAN : SentReading(R, e)
      BY <2>3
    <3>2. ~Contains(R, "nl")
      BY <2>1, <3>1, EncIs DEF SentReading, Same
    <3> QED
      BY <2>1, <3>1, <3>2, SentContains DEF SentReading
  <2> QED
    BY <2>2, <2>3 DEF SentInv
<1> QED
  BY <1>1, NextInvHolds, SentInvHolds, PTL

----------------------------------------------------------------------------
(* What the getters list *)

Chosen(x, E) == Optional(x \in E, <<x>>)

\* The elements of a set in an order, one after the other.
LEMMA InOrderAppend ==
  ASSUME NEW S, NEW T \in Seq(S), NEW t \in S, NEW E
  PROVE  /\ InOrder(T, E) \in Seq(S)
         /\ InOrder(<<>>, E) = <<>>
         /\ Same(InOrder(Append(T, t), E), InOrder(T, E) \o Chosen(t, E))
         /\ Chosen(t, E) \in Seq(S)
<1> DEFINE M(s) == [i \in DOMAIN s |-> Optional(s[i] \in E, <<s[i]>>)]
           W == Seq(S)
<1>1. \A x \in S : Optional(x \in E, <<x>>) \in W
  BY EmptySeq DEF Optional
<1>2. \A s \in Seq(S) : M(s) \in Seq(W) /\ Len(M(s)) = Len(s)
                        /\ \A i \in 1 .. Len(s) : M(s)[i] = Optional(s[i] \in E, <<s[i]>>)
  <2> SUFFICES ASSUME NEW s \in Seq(S)
               PROVE  M(s) \in Seq(W) /\ Len(M(s)) = Len(s)
                      /\ \A i \in 1 .. Len(s) : M(s)[i] = Optional(s[i] \in E, <<s[i]>>)
    OBVIOUS
  <2>1. PICK n \in Nat : n = Len(s) /\ DOMAIN s = 1 .. n /\ \A i \in 1 .. n : s[i] \in S
    BY LenProperties, ElementOfSeq
  <2> DEFINE f == [i \in 1 .. n |-> Optional(s[i] \in E, <<s[i]>>)]
  <2>2. f \in [1 .. n -> W] /\ M(s) = f /\ \A i \in 1 .. n : f[i] = Optional(s[i] \in E, <<s[i]>>)
    <3> HIDE DEF W
    <3> QED
      BY <1>1, <2>1
  <2> HIDE DEF f, W, M
  <2>3. f \in Seq(W) /\ Len(f) = n
    BY <2>2, FunctionIsSeq
  <2> QED
    BY <2>1, <2>2, <2>3
<1> DEFINE a == Append(T, t)
<1>3. a \in Seq(S) /\ Len(a) = Len(T) + 1 /\ a[Len(T) + 1] = t /\ \A i \in 1 .. Len(T) : a[i] = T[i]
  BY AppendProperties
<1>4. M(a) = Append(M(T), Optional(t \in E, <<t>>))
  <2> DEFINE o == Optional(t \in E, <<t>>)
  <2>1. PICK n \in Nat : n = Len(T)
    BY LenProperties
  <2>2. o \in W
    BY <1>1
  <2> HIDE DEF o, W
  <2>3. /\ M(T) \in Seq(W) /\ M(a) \in Seq(W) /\ Len(M(T)) = n /\ Len(M(a)) = n + 1
        /\ \A i \in 1 .. n : M(T)[i] = Optional(T[i] \in E, <<T[i]>>)
        /\ \A i \in 1 .. n + 1 : M(a)[i] = Optional(a[i] \in E, <<a[i]>>)
    BY <1>2, <1>3, <2>1
  <2> DEFINE b == Append(M(T), o)
  <2>4. /\ b \in Seq(W) /\ Len(b) = n + 1 /\ b[n + 1] = o
        /\ \A i \in 1 .. n : b[i] = M(T)[i]
    <3> HIDE DEF M
    <3> QED
      BY <2>2, <2>3, AppendProperties
  <2>5. \A i \in 1 .. n + 1 : M(a)[i] = b[i]
    <3> SUFFICES ASSUME NEW i \in 1 .. n + 1 PROVE M(a)[i] = b[i]
      OBVIOUS
    <3>1. CASE i = n + 1
      <4>1. M(a)[i] = Optional(a[i] \in E, <<a[i]>>) /\ a[i] = t
        BY <1>3, <2>1, <2>3, <3>1
      <4> HIDE DEF M, a, b
      <4> QED
        BY <2>4, <3>1, <4>1 DEF o
    <3>2. CASE i # n + 1
      <4>1. i \in 1 .. n
        BY <3>2
      <4>2. M(a)[i] = Optional(a[i] \in E, <<a[i]>>) /\ a[i] = T[i]
        BY <1>3, <2>1, <2>3, <4>1
      <4> HIDE DEF M, a, b
      <4> QED
        BY <2>3, <2>4, <4>1, <4>2
    <3> QED
      BY <3>1, <3>2
  <2> HIDE DEF M, b
  <2>6. M(a) = b
    BY <2>1, <2>3, <2>4, <2>5, SeqEqual
  <2> QED
    BY <2>6 DEF b, o
<1>5. \A s : InOrder(s, E) = FlattenSeq(M(s))
  BY DEF InOrder
<1>6. M(<<>>) = <<>>
  OBVIOUS
<1> DEFINE o == Optional(t \in E, <<t>>)
           w == M(T)
<1>7. w \in Seq(Seq(S)) /\ o \in Seq(S) /\ M(a) = Append(w, o)
  BY <1>1, <1>2, <1>4
<1> HIDE DEF M, o, w
<1>8. FlattenSeq(w) \in Seq(S) /\ FlattenSeq(Append(w, o)) = FlattenSeq(w) \o o
  BY <1>7, FlattenType, FlattenAppend
<1>9. FlattenSeq(<<>>) = <<>>
  BY FlattenType, EmptySeq
<1> QED
  BY <1>5, <1>6, <1>7, <1>8, <1>9 DEF Same, Chosen, o, w, a

\* They are listed, each once, in their order.
LEMMA InOrderLists ==
  ASSUME NEW S, NEW E
  PROVE  \A s \in Seq(S) : InOrder(s, E) \in Seq(S) /\ Lists(InOrder(s, E), s, E \cap ToSet(s))
<1> DEFINE G == {s \in Seq(S) : InOrder(s, E) \in Seq(S) /\ Lists(InOrder(s, E), s, E \cap ToSet(s))}
<1>1. <<>> \in G
  <2>0. <<>> \in Seq(S) /\ Lists(<<>>, <<>>, E \cap ToSet(<<>>))
    <3>1. ToSet(<<>>) = {} /\ DOMAIN <<>> = {} /\ <<>> \in Seq(S)
      BY EmptySeq DEF ToSet
    <3> QED
      BY <3>1 DEF Lists
  <2>1. CASE S = {}
    <3>1. InOrder(<<>>, E) = FlattenSeq(<<>>)
      BY DEF InOrder
    <3>2. FlattenSeq(<<>>) = <<>>
      BY FlattenType, EmptySeq
    <3> QED
      BY <2>0, <3>1, <3>2
  <2>2. ASSUME NEW x \in S PROVE InOrder(<<>>, E) = <<>>
    BY InOrderAppend, EmptySeq
  <2> QED
    BY <2>0, <2>1, <2>2
<1>2. ASSUME NEW p \in Seq(S), NEW x \in S, p \in G PROVE Append(p, x) \in G
  <2> DEFINE s == Append(p, x)
             o == InOrder(p, E)
             q == Chosen(x, E)
             r == o \o q
  <2>1. o \in Seq(S) /\ q \in Seq(S) /\ InOrder(s, E) = r
    BY InOrderAppend DEF Same
  <2>2. ToSet(o) = E \cap ToSet(p)
        /\ \A i, j \in DOMAIN o : i < j => \E a, b \in DOMAIN p : a < b /\ o[i] = p[a] /\ o[j] = p[b]
    BY <1>2 DEF Lists
  <2>3. PICK n \in Nat : n = Len(p) /\ DOMAIN p = 1 .. n
    BY LenProperties
  <2>4. s \in Seq(S) /\ DOMAIN s = 1 .. n + 1 /\ s[n + 1] = x /\ \A i \in 1 .. n : s[i] = p[i]
    <3>1. s \in Seq(S) /\ Len(s) = Len(p) + 1 /\ s[Len(p) + 1] = x /\ \A i \in 1 .. Len(p) : s[i] = p[i]
      BY AppendProperties
    <3> HIDE DEF s
    <3> QED
      BY <2>3, <3>1, LenProperties
  <2>5. ToSet(s) = ToSet(p) \cup {x}
    <3>1. ToSet(s) = {s[i] : i \in 1 .. n + 1} /\ ToSet(p) = {p[i] : i \in 1 .. n}
      BY <2>3, <2>4 DEF ToSet
    <3>2. 1 .. n + 1 = 1 .. n \cup {n + 1}
      OBVIOUS
    <3> HIDE DEF s
    <3> QED
      BY <2>4, <3>1, <3>2
  <2> HIDE DEF s, o
  <2>6. CASE x \notin E
    <3>1. q = <<>>
      BY <2>6 DEF Chosen, Optional
    <3>2. r = o
      BY <2>1, <3>1, EmptySeq
    <3>3. ToSet(r) = E \cap ToSet(s)
      BY <2>2, <2>5, <2>6, <3>2
    <3>4. \A i, j \in DOMAIN r : i < j => \E a, b \in DOMAIN s : a < b /\ r[i] = s[a] /\ r[j] = s[b]
      BY <2>2, <2>3, <2>4, <3>2
    <3> QED
      <4> HIDE DEF r
      <4>1. Lists(r, s, E \cap ToSet(s))
        BY <3>3, <3>4 DEF Lists
      <4>2. InOrder(s, E) = r /\ r \in Seq(S)
        BY <2>1, <3>2 DEF r
      <4>3. s \in G
        BY <2>4, <4>1, <4>2
      <4> QED
        BY <4>3 DEF s
  <2>7. CASE x \in E
    <3>1. q = <<x>>
      BY <2>7 DEF Chosen, Optional
    <3>2. PICK l \in Nat : l = Len(o) /\ DOMAIN o = 1 .. l
      BY <2>1, LenProperties
    <3>3. r = Append(o, x)
      BY <2>1, <3>1, AppendOne
    <3>4. r \in Seq(S) /\ DOMAIN r = 1 .. l + 1 /\ r[l + 1] = x /\ \A i \in 1 .. l : r[i] = o[i]
      <4> DEFINE t == Append(o, x)
      <4>1. t \in Seq(S) /\ Len(t) = Len(o) + 1 /\ t[Len(o) + 1] = x /\ \A i \in 1 .. Len(o) : t[i] = o[i]
        BY <2>1, AppendProperties
      <4>2. r = t
        BY <3>3
      <4> HIDE DEF t, r
      <4> QED
        BY <3>2, <4>1, <4>2, LenProperties
    <3> HIDE DEF r
    <3>5. ToSet(r) = E \cap ToSet(s)
      <4>1. ToSet(r) = {r[i] : i \in 1 .. l + 1} /\ ToSet(o) = {o[i] : i \in 1 .. l}
        BY <3>2, <3>4 DEF ToSet
      <4>2. 1 .. l + 1 = 1 .. l \cup {l + 1}
        OBVIOUS
      <4>3. ToSet(r) = ToSet(o) \cup {x}
        BY <3>4, <4>1, <4>2
      <4> QED
        BY <2>2, <2>5, <2>7, <4>3
    <3>6. ASSUME NEW i \in 1 .. l + 1, NEW j \in 1 .. l + 1, i < j
          PROVE  \E a, b \in DOMAIN s : a < b /\ r[i] = s[a] /\ r[j] = s[b]
      <4>1. i \in 1 .. l /\ (j \in 1 .. l \/ j = l + 1)
        BY <3>6
      <4>2. CASE j \in 1 .. l
        <5>1. PICK a \in 1 .. n, b \in 1 .. n : a < b /\ o[i] = p[a] /\ o[j] = p[b]
          BY <2>2, <2>3, <3>2, <3>6, <4>1, <4>2
        <5>2. a \in 1 .. n + 1 /\ b \in 1 .. n + 1
          OBVIOUS
        <5> QED
          BY <2>4, <3>4, <4>1, <4>2, <5>1, <5>2
      <4>3. CASE j = l + 1
        <5>1. o[i] \in ToSet(p)
          BY <2>2, <3>2, <4>1 DEF ToSet
        <5>2. PICK a \in 1 .. n : o[i] = p[a]
          BY <2>3, <5>1 DEF ToSet
        <5>3. a \in 1 .. n + 1 /\ n + 1 \in 1 .. n + 1 /\ a < n + 1
          OBVIOUS
        <5> QED
          BY <2>4, <3>4, <4>1, <4>3, <5>2, <5>3
      <4> QED
        BY <4>1, <4>2, <4>3
    <3> QED
      <4>1. Lists(r, s, E \cap ToSet(s))
        BY <3>4, <3>5, <3>6 DEF Lists
      <4>2. InOrder(s, E) = r
        BY <2>1 DEF r
      <4>3. s \in G
        BY <2>4, <3>4, <4>1, <4>2
      <4> QED
        BY <4>3 DEF s
  <2> QED
    BY <2>6, <2>7 DEF s
<1>3. \A s \in Seq(S) : s \in G
  <2> HIDE DEF G
  <2> QED
    BY <1>1, <1>2, SeqInduction
<1> QED
  BY <1>3

\* Asking for the number of the ids first, one gets all of them.
LEMMA StringsAre ==
  ASSUME NEW S, NEW ids \in Seq(S)
  PROVE  getStrings(ids) = ids
<1>1. PICK n \in Nat : n = Len(ids)
  BY LenProperties
<1>2. getStrings(ids) = SubSeq(ids, 1, n)
  BY <1>1 DEF getStrings, CopyIds
<1>3. SubSeq(ids, 1, n) \in Seq(S) /\ Len(SubSeq(ids, 1, n)) = n /\ \A i \in 1 .. n : SubSeq(ids, 1, n)[i] = ids[i]
  BY <1>1, PrefixOf
<1> QED
  BY <1>1, <1>2, <1>3, SeqEqual

----------------------------------------------------------------------------
(* What the calls say *)

\* The last of the first i calls about it says v.
SaysSoFar(p, i, op, k, v) ==
  \/ v = <<>> /\ \A j \in 1 .. i : j \notin CallsOf(p, op, k)
  \/ \E j \in 1 .. i : /\ j \in CallsOf(p, op, k) /\ v = CString(p.calls[j].value)
                       /\ \A n \in j + 1 .. i : n \notin CallsOf(p, op, k)

\* One more call.
LEMMA SaysNext ==
  ASSUME NEW p, NEW i \in Nat, NEW op, NEW k, NEW v, SaysSoFar(p, i, op, k, v)
  PROVE  IF i + 1 \in CallsOf(p, op, k) THEN SaysSoFar(p, i + 1, op, k, CString(p.calls[i + 1].value))
                                        ELSE SaysSoFar(p, i + 1, op, k, v)
<1> DEFINE C == CallsOf(p, op, k)
<1> HIDE DEF C
<1>1. CASE i + 1 \in C
  <2>1. i + 1 \in 1 .. i + 1 /\ \A n \in (i + 1) + 1 .. i + 1 : n \notin C
    OBVIOUS
  <2> QED
    BY <1>1, <2>1 DEF SaysSoFar, C
<1>2. CASE i + 1 \notin C
  <2>1. ASSUME v = <<>>, \A j \in 1 .. i : j \notin C PROVE SaysSoFar(p, i + 1, op, k, v)
    <3>1. \A j \in 1 .. i + 1 : j \in 1 .. i \/ j = i + 1
      OBVIOUS
    <3>2. \A j \in 1 .. i + 1 : j \notin C
      BY <1>2, <2>1, <3>1
    <3> QED
      BY <1>2, <2>1, <3>2 DEF SaysSoFar, C
  <2>2. ASSUME NEW j \in 1 .. i, j \in C, v = CString(p.calls[j].value), \A n \in j + 1 .. i : n \notin C
        PROVE  SaysSoFar(p, i + 1, op, k, v)
    <3>1. j \in 1 .. i + 1 /\ \A n \in j + 1 .. i + 1 : n \in j + 1 .. i \/ n = i + 1
      OBVIOUS
    <3>2. \A n \in j + 1 .. i + 1 : n \notin C
      BY <1>2, <2>2, <3>1
    <3> QED
      BY <2>2, <3>1, <3>2 DEF SaysSoFar, C
  <2>3. SaysSoFar(p, i + 1, op, k, v)
    <3>1. \/ v = <<>> /\ \A j \in 1 .. i : j \notin C
          \/ \E j \in 1 .. i : /\ j \in C /\ v = CString(p.calls[j].value)
                               /\ \A n \in j + 1 .. i : n \notin C
      BY DEF SaysSoFar, C
    <3> QED
      BY <2>1, <2>2, <3>1
  <2> QED
    BY <1>2, <2>3 DEF C
<1> QED
  BY <1>1, <1>2

\* After all of them.
LEMMA SaysAll ==
  ASSUME NEW p, NEW i \in Nat, DOMAIN p.calls = 1 .. i, NEW op, NEW k, NEW v, SaysSoFar(p, i, op, k, v)
  PROVE  LastSaid(p, op, k) = v
<1> DEFINE C == CallsOf(p, op, k)
<1>1. C \subseteq 1 .. i
  BY DEF CallsOf
<1>2. LastSaid(p, op, k) = IF C = {} THEN <<>> ELSE CString(p.calls[Max(C)].value)
  BY DEF LastSaid
<1> HIDE DEF C
<1>3. CASE v = <<>> /\ \A j \in 1 .. i : j \notin C
  BY <1>1, <1>2, <1>3
<1>4. ASSUME NEW j \in 1 .. i, j \in C, v = CString(p.calls[j].value), \A n \in j + 1 .. i : n \notin C
      PROVE  LastSaid(p, op, k) = v
  <2>1. PICK m \in 1 .. i : m = Max(C) /\ m \in C /\ m >= j
    <3>1. Max(C) \in C /\ Max(C) >= j
      BY <1>1, <1>4, MaxIsLargest
    <3> QED
      BY <1>1, <3>1
  <2>2. m = j
    <3>1. m # j => m \in j + 1 .. i
      BY <2>1
    <3> QED
      BY <1>4, <2>1, <3>1
  <2> QED
    BY <1>2, <1>4, <2>1, <2>2
<1> QED
  BY <1>3, <1>4 DEF SaysSoFar, C

Fields == {"command", "handle", "code", "text"}

\* m is what the first i calls say.
Agrees(p, i, m) ==
  /\ \A f \in Fields : SaysSoFar(p, i, f, <<>>, m[f])
  /\ \A k : /\ k \in DOMAIN m.args <=> \E j \in 1 .. i : j \in CallsOf(p, "arg", k)
            /\ SaysSoFar(p, i, "arg", k, getArg(m, k))
  /\ \A j \in 1 .. i : j \in CallsOf(p, "flag", <<>>) => CString(p.calls[j].value) \in m.flags

\* The empty message is what no calls say.
LEMMA CreateAgrees ==
  ASSUME NEW p
  PROVE  Agrees(p, 0, Create(p.type))
<1> DEFINE m == Create(p.type)
<1>1. (\A f \in Fields : m[f] = <<>>) /\ m.args = <<>> /\ m.flags = {}
  BY DEF Create, Fields
<1>2. DOMAIN <<>> = {} /\ 1 .. 0 = {}
  OBVIOUS
<1> HIDE DEF m
<1>3. \A k : getArg(m, k) = <<>> /\ k \notin DOMAIN m.args
  BY <1>1, <1>2 DEF getArg
<1>4. \A op, k : SaysSoFar(p, 0, op, k, <<>>)
  BY <1>2 DEF SaysSoFar
<1> QED
  BY <1>1, <1>2, <1>3, <1>4 DEF Agrees, m

\* One call.
LEMMA ApplyAgrees ==
  ASSUME NEW p \in Programs, NEW i \in Nat, i + 1 \in DOMAIN p.calls,
         NEW m \in Sendable, m.type = p.type, Agrees(p, i, m)
  PROVE  Agrees(p, i + 1, Apply(m, p.calls[i + 1]))
<1> DEFINE c == p.calls[i + 1]
           a == Apply(m, c)
           k == CString(c.key)
           v == CString(c.value)
<1>1. /\ c.op \in {"arg", "flag"} \cup FieldsOf(p.type) /\ p.type \in Types
  BY RoundTripAssumption DEF IsProgram
<1>2. FieldsOf(p.type) \subseteq Fields
  BY <1>1, FieldsAre DEF Types, Fields
<1>3. DOMAIN m = {"type", "command", "handle", "code", "text", "args", "flags"}
  BY DEF Sendable
<1>4. \A op, x : i + 1 \in CallsOf(p, op, x) <=> /\ c.op = op /\ Effective(c)
                                                 /\ op = "arg" => k = x
  BY DEF CallsOf
<1>5. \A j \in 1 .. i + 1 : j \in 1 .. i \/ j = i + 1
  OBVIOUS
<1>6. \A j \in 1 .. i : j \in 1 .. i + 1
  OBVIOUS
<1>7. i + 1 \in 1 .. i + 1
  OBVIOUS
<1>8. a = IF ~Effective(c) THEN m
          ELSE CASE c.op = "arg"  -> [m EXCEPT !.args = Assign(@, k, v)]
                 [] c.op = "flag" -> [m EXCEPT !.flags = @ \cup {v}]
                 [] OTHER         -> [m EXCEPT ![c.op] = v]
  BY DEF Apply
<1>9. \A op, x, w : SaysSoFar(p, i, op, x, w) =>
        IF i + 1 \in CallsOf(p, op, x) THEN SaysSoFar(p, i + 1, op, x, v) ELSE SaysSoFar(p, i + 1, op, x, w)
  BY SaysNext
<1> HIDE DEF c, a, k, v
<1>10. ASSUME NEW f \in Fields PROVE SaysSoFar(p, i + 1, f, <<>>, a[f])
  <2>1. SaysSoFar(p, i, f, <<>>, m[f])
    BY DEF Agrees
  <2>2. f # "arg" /\ f # "flag" /\ f # "args" /\ f # "flags" /\ f \in DOMAIN m
    BY <1>3 DEF Fields
  <2>3. CASE Effective(c) /\ c.op = f
    <3>1. a[f] = v
      BY <1>8, <2>2, <2>3
    <3> QED
      BY <1>4, <1>9, <2>1, <2>2, <2>3, <3>1
  <2>4. CASE ~(Effective(c) /\ c.op = f)
    <3>1. a[f] = m[f]
      <4>1. CASE ~Effective(c)
        BY <1>8, <4>1
      <4>2. CASE Effective(c) /\ c.op = "arg"
        BY <1>3, <1>8, <2>2, <4>2
      <4>3. CASE Effective(c) /\ c.op = "flag"
        BY <1>3, <1>8, <2>2, <4>3
      <4>4. CASE Effective(c) /\ c.op # "arg" /\ c.op # "flag" /\ c.op # f
        <5>1. a = [m EXCEPT ![c.op] = v]
          BY <1>8, <4>4
        <5> QED
          BY <1>3, <2>2, <4>4, <5>1
      <4> QED
        BY <2>4, <4>1, <4>2, <4>3, <4>4
    <3> QED
      BY <1>4, <1>9, <2>1, <2>4, <3>1
  <2> QED
    BY <2>3, <2>4
<1>11. CASE Effective(c) /\ c.op = "arg"
  <2>1. a = [m EXCEPT !.args = Assign(@, k, v)]
    BY <1>8, <1>11
  <2>2. a.args = Assign(m.args, k, v) /\ a.flags = m.flags
    BY <1>3, <2>1
  <2>3. DOMAIN a.args = DOMAIN m.args \cup {k} /\ \A x \in DOMAIN m.args \cup {k} : a.args[x] = IF x = k THEN v ELSE m.args[x]
    BY <2>2 DEF Assign
  <2>4. ASSUME NEW x
        PROVE  /\ x \in DOMAIN a.args <=> \E j \in 1 .. i + 1 : j \in CallsOf(p, "arg", x)
               /\ SaysSoFar(p, i + 1, "arg", x, getArg(a, x))
    <3>1. /\ x \in DOMAIN m.args <=> \E j \in 1 .. i : j \in CallsOf(p, "arg", x)
          /\ SaysSoFar(p, i, "arg", x, getArg(m, x))
      BY DEF Agrees
    <3>2. i + 1 \in CallsOf(p, "arg", x) <=> x = k
      BY <1>4, <1>11
    <3>3. x \in DOMAIN a.args <=> \E j \in 1 .. i + 1 : j \in CallsOf(p, "arg", x)
      BY <1>5, <1>6, <1>7, <2>3, <3>1, <3>2
    <3>4. getArg(a, x) = IF x = k THEN v ELSE getArg(m, x)
      BY <2>3 DEF getArg
    <3> QED
      BY <1>9, <3>1, <3>2, <3>3, <3>4
  <2>5. \A j \in 1 .. i + 1 : j \in CallsOf(p, "flag", <<>>) => CString(p.calls[j].value) \in a.flags
    <3>1. i + 1 \notin CallsOf(p, "flag", <<>>)
      BY <1>4, <1>11
    <3> QED
      BY <1>5, <2>2, <3>1 DEF Agrees
  <2> QED
    BY <1>10, <2>4, <2>5 DEF Agrees, a, c
<1>12. CASE ~(Effective(c) /\ c.op = "arg")
  <2>1. a.args = m.args /\ m.flags \subseteq a.flags /\ (Effective(c) /\ c.op = "flag" => v \in a.flags)
    <3>1. CASE ~Effective(c)
      BY <1>8, <3>1
    <3>2. CASE Effective(c) /\ c.op = "flag"
      <4>1. a = [m EXCEPT !.flags = @ \cup {v}]
        BY <1>8, <3>2
      <4> QED
        BY <1>3, <4>1
    <3>3. CASE Effective(c) /\ c.op # "arg" /\ c.op # "flag"
      <4>1. c.op \in Fields
        BY <1>1, <1>2, <3>3 DEF c
      <4>2. c.op # "args" /\ c.op # "flags"
        BY <4>1 DEF Fields
      <4>3. a = [m EXCEPT ![c.op] = v]
        BY <1>8, <3>3
      <4> QED
        BY <1>3, <3>3, <4>2, <4>3
    <3> QED
      BY <1>12, <3>1, <3>2, <3>3
  <2>2. \A x : i + 1 \notin CallsOf(p, "arg", x)
    BY <1>4, <1>12
  <2>3. ASSUME NEW x
        PROVE  /\ x \in DOMAIN a.args <=> \E j \in 1 .. i + 1 : j \in CallsOf(p, "arg", x)
               /\ SaysSoFar(p, i + 1, "arg", x, getArg(a, x))
    <3>1. /\ x \in DOMAIN m.args <=> \E j \in 1 .. i : j \in CallsOf(p, "arg", x)
          /\ SaysSoFar(p, i, "arg", x, getArg(m, x))
      BY DEF Agrees
    <3>2. x \in DOMAIN a.args <=> \E j \in 1 .. i + 1 : j \in CallsOf(p, "arg", x)
      BY <1>5, <1>6, <2>1, <2>2, <3>1
    <3>3. getArg(a, x) = getArg(m, x)
      BY <2>1 DEF getArg
    <3> QED
      BY <1>9, <2>2, <3>1, <3>2, <3>3
  <2>4. ASSUME NEW j \in 1 .. i + 1, j \in CallsOf(p, "flag", <<>>)
        PROVE  CString(p.calls[j].value) \in a.flags
    <3>1. CASE j \in 1 .. i
      BY <2>1, <2>4, <3>1 DEF Agrees
    <3>2. CASE j = i + 1
      BY <1>4, <2>1, <2>4, <3>2 DEF v, c
    <3> QED
      BY <1>5, <3>1, <3>2
  <2> QED
    BY <1>10, <2>3, <2>4 DEF Agrees, a, c
<1> QED
  BY <1>11, <1>12

\* What the calls build is what they say.
LEMMA BuiltAgrees ==
  ASSUME NEW p \in Programs
  PROVE  Agrees(p, Len(p.calls), Built(p)) /\ DOMAIN p.calls = 1 .. Len(p.calls) /\ Len(p.calls) \in Nat
         /\ Built(p).type = p.type
<1> DEFINE S == {m \in Sendable : m.type = p.type}
<1>1. /\ p.type \in Types /\ IsProgram(p)
      /\ p.calls \in Seq([op : Ops, key : Text \cup {NullPtr}, value : Text \cup {NullPtr}])
      /\ \A i \in DOMAIN p.calls : IsCall(p.calls[i])
  BY RoundTripAssumption
<1>2. PICK n \in Nat : n = Len(p.calls) /\ DOMAIN p.calls = 1 .. n
  BY <1>1, LenProperties
<1>3. Built(p) \in S /\ \E g : BuiltBy(p, g, S)
  <2>1. Create(p.type) \in S
    <3>1. <<>> \in [{} -> Text] /\ {} \in SUBSET Keys
      OBVIOUS
    <3>2. <<>> \in UNION {[K -> Text] : K \in SUBSET Keys}
      BY <3>1
    <3>3. Create(p.type) \in Sendable
      BY <1>1, <3>2, NoNames DEF Create, Sendable
    <3> QED
      BY <3>3 DEF Create
  <2>2. \A i \in 1 .. Len(p.calls) : \A m \in S : Apply(m, p.calls[i]) \in S
    <3> SUFFICES ASSUME NEW i \in 1 .. n, NEW m \in S PROVE Apply(m, p.calls[i]) \in S
      BY <1>2
    <3>1. /\ p.calls[i] \in [op : Ops, key : Text \cup {NullPtr}, value : Text \cup {NullPtr}]
          /\ IsCall(p.calls[i]) /\ p.calls[i].op \in {"arg", "flag"} \cup FieldsOf(p.type)
      BY <1>1, <1>2, LenProperties, ElementOfSeq DEF IsProgram
    <3>2. Apply(m, p.calls[i]) \in Sendable
      BY <3>1, ApplyType
    <3>3. FieldsOf(p.type) \subseteq Fields
      BY <1>1, FieldsAre DEF Types, Fields
    <3>4. "type" \in DOMAIN m /\ m.type = p.type
      BY DEF Sendable
    <3>5. Apply(m, p.calls[i]).type = m.type
      <4> DEFINE c == p.calls[i]
      <4>1. c.op # "type" /\ c.op # "args" /\ c.op # "flags"
        BY <3>1, <3>3 DEF Fields
      <4> HIDE DEF c
      <4> QED
        BY <3>4, <4>1 DEF Apply, c
    <3> QED
      BY <3>2, <3>4, <3>5
  <2> HIDE DEF S
  <2> QED
    BY <2>1, <2>2, BuiltIn
<1>4. PICK g : BuiltBy(p, g, S)
  BY <1>3
<1>5. /\ g[0] = Create(p.type) /\ g[n] = Built(p)
      /\ \A i \in 1 .. n : g[i] = Apply(g[i - 1], p.calls[i])
      /\ \A i \in 0 .. n : g[i] \in Sendable /\ g[i].type = p.type
  BY <1>2, <1>4 DEF BuiltBy
<1>6. \A i \in 0 .. n : Agrees(p, i, g[i])
  <2> DEFINE B == {i \in 0 .. n : ~Agrees(p, i, g[i])}
  <2>1. ASSUME NEW i \in B PROVE i - 1 \in B
    <3>1. i \in 0 .. n /\ ~Agrees(p, i, g[i])
      OBVIOUS
    <3>2. i # 0
      BY <1>5, <3>1, CreateAgrees
    <3>3. PICK j \in Nat : i = j + 1 /\ j \in 0 .. n /\ j = i - 1
      BY <3>1, <3>2
    <3>4. i \in 1 .. n
      BY <3>1, <3>2
    <3>5. g[j + 1] = Apply(g[j], p.calls[j + 1]) /\ j + 1 \in DOMAIN p.calls
      BY <1>2, <1>5, <3>3, <3>4
    <3>6. g[j] \in Sendable /\ g[j].type = p.type
      BY <1>5, <3>3
    <3>7. ~Agrees(p, j, g[j])
      <4> SUFFICES ASSUME Agrees(p, j, g[j]) PROVE FALSE
        OBVIOUS
      <4>1. Agrees(p, j + 1, Apply(g[j], p.calls[j + 1]))
        BY <3>5, <3>6, ApplyAgrees
      <4> QED
        BY <3>1, <3>3, <3>5, <4>1
    <3> QED
      BY <3>3, <3>7
  <2>2. B \subseteq Nat
    OBVIOUS
  <2>3. B = {}
    <3> HIDE DEF B
    <3> QED
      BY <2>1, <2>2, NoFirst
  <2> QED
    BY <2>3
<1>7. Agrees(p, n, Built(p))
  BY <1>5, <1>6
<1>8. Built(p).type = p.type
  BY <1>3
<1> QED
  BY <1>2, <1>7, <1>8

\* The program has built the message.
LEMMA BuiltBefore == Spec => [](sent = Built(program))
<1>1. Init => sent = Built(program)
  BY DEF Init
<1>2. sent = Built(program) /\ [Next]_vars => sent' = Built(program')
  <2> SUFFICES ASSUME sent = Built(program), [Next]_vars PROVE sent' = Built(program')
    OBVIOUS
  <2>1. sent' = sent /\ program' = program
    BY StutterType DEF Next, Read, Turn
  <2> QED
    BY <2>1
<1>3. (sent = Built(program))' <=> sent' = Built(program')
  OBVIOUS
<1> QED
  BY <1>1, <1>2, <1>3, PTL DEF Spec

\* A string is handed out and taken as it is, an empty one included.
LEMMA GoStringIs ==
  ASSUME NEW s \in Text
  PROVE  GoString(sv(s)) = s
BY RoundTripAssumption DEF GoString, sv

\* What the getters say of a message that a program has built, whatever flags
\* it got on the way.
LEMMA GettersSay ==
  ASSUME NEW p \in Programs, NEW m \in Sendable, m = Built(p), NEW got, got = Expected(m)
  PROVE  /\ Lists(Args(got), KeyOrder, {k \in ToSet(KeyOrder) : CallsOf(p, "arg", k) # {}})
         /\ Lists(Flags(got), FlagOrder, got.flags \cap ToSet(FlagOrder))
         /\ \A k \in ToSet(KeyOrder) :
              LET v == LastSaid(p, "arg", CString(k))
              IN  /\ Arg(got, k) = [value |-> v, present |-> v # <<>>]
                  /\ ArgIf(got, k, <<"default">>) = IF v = <<>> THEN <<"default">> ELSE v
         /\ \A i \in CallsOf(p, "flag", <<>>) :
              LET f == p.calls[i].value
              IN  Flag(got, f) /\ Contains(Flags(got), CString(f))
         /\ \A f \in FieldsOf(m.type) : Field(got, f) = LastSaid(p, f, <<>>)
<1>1. PICK n \in Nat : n = Len(p.calls) /\ DOMAIN p.calls = 1 .. n /\ Agrees(p, n, m)
  BY BuiltAgrees
<1>2. /\ got.args = m.args /\ got.command = m.command /\ got.handle = m.handle
      /\ got.code = m.code /\ got.text = m.text
  BY ExpectedIs
<1>3. m.flags \subseteq got.flags
  BY DEF Expected, Sendable
<1>4. KeyOrder \in Seq(Name \ {<<>>}) /\ FlagOrder \in Seq(Name \ {<<>>})
  BY RoundTripAssumption
<1>5. \A op, k : CallsOf(p, op, k) \subseteq 1 .. n
  BY <1>1 DEF CallsOf
<1>6. Lists(Args(got), KeyOrder, {k \in ToSet(KeyOrder) : CallsOf(p, "arg", k) # {}})
  <2> DEFINE E == DOMAIN m.args
             ids == InOrder(KeyOrder, E)
  <2>1. ids \in Seq(Name \ {<<>>}) /\ Lists(ids, KeyOrder, E \cap ToSet(KeyOrder))
    BY <1>4, InOrderLists
  <2>2. Args(got) = getStrings(ids)
    BY <1>2 DEF Args
  <2> HIDE DEF ids
  <2>3. Args(got) = ids
    BY <2>1, <2>2, StringsAre
  <2>4. \A k : k \in E <=> CallsOf(p, "arg", k) # {}
    BY <1>1, <1>5 DEF Agrees
  <2> HIDE DEF E
  <2>5. E \cap ToSet(KeyOrder) = {k \in ToSet(KeyOrder) : CallsOf(p, "arg", k) # {}}
    BY <2>4
  <2> QED
    BY <2>1, <2>3, <2>5
<1>7. Flags(got) \in Seq(Name \ {<<>>}) /\ Lists(Flags(got), FlagOrder, got.flags \cap ToSet(FlagOrder))
  <2> DEFINE ids == InOrder(FlagOrder, got.flags)
  <2>1. ids \in Seq(Name \ {<<>>}) /\ Lists(ids, FlagOrder, got.flags \cap ToSet(FlagOrder))
    BY <1>4, InOrderLists
  <2>2. Flags(got) = getStrings(ids)
    BY DEF Flags
  <2> HIDE DEF ids
  <2>3. Flags(got) = ids
    BY <2>1, <2>2, StringsAre
  <2> QED
    BY <2>1, <2>3
<1>8. ASSUME NEW k
      PROVE  LET v == LastSaid(p, "arg", CString(k))
             IN  /\ Arg(got, k) = [value |-> v, present |-> v # <<>>]
                 /\ ArgIf(got, k, <<"default">>) = IF v = <<>> THEN <<"default">> ELSE v
  <2> DEFINE x == CString(k)
             v == LastSaid(p, "arg", x)
             g == getArg(got, x)
  <2>1. g = getArg(m, x)
    BY <1>2 DEF getArg
  <2>2. getArg(m, x) = v
    <3> HIDE DEF x
    <3> QED
      BY <1>1, SaysAll DEF Agrees
  <2>3. getArg(m, x) \in Text
    <3>1. m.args \in UNION {[K -> Text] : K \in SUBSET Keys}
      BY DEF Sendable
    <3>2. \A y \in DOMAIN m.args : m.args[y] \in Text
      BY <3>1
    <3> QED
      BY <3>2, TextOps DEF getArg
  <2>4. GoString(sv(g)) = v
    BY <2>1, <2>2, <2>3, GoStringIs
  <2>5. Arg(got, k) = [value |-> GoString(sv(g)), present |-> GoString(sv(g)) # <<>>]
    BY DEF Arg
  <2> HIDE DEF g, v, x
  <2>6. Arg(got, k) = [value |-> v, present |-> v # <<>>]
    BY <2>4, <2>5
  <2>7. ArgIf(got, k, <<"default">>) = IF v = <<>> THEN <<"default">> ELSE v
    <3> DEFINE r == Arg(got, k)
    <3>1. ArgIf(got, k, <<"default">>) = IF r.present THEN r.value ELSE <<"default">>
      BY DEF ArgIf
    <3> HIDE DEF r
    <3>2. r = [value |-> v, present |-> v # <<>>]
      BY <2>6 DEF r
    <3>3. r.value = v
      BY <3>2
    <3>4. CASE v = <<>>
      <4>1. r.present = FALSE
        BY <3>2, <3>4
      <4> QED
        BY <4>1, <3>1, <3>4
    <3>5. CASE v # <<>>
      <4>1. r.present = TRUE
        BY <3>2, <3>5
      <4> QED
        BY <4>1, <3>1, <3>3, <3>5
    <3> QED
      BY <3>4, <3>5
  <2> QED
    BY <2>6, <2>7 DEF v, x
<1>9. ASSUME NEW i \in CallsOf(p, "flag", <<>>)
      PROVE  Flag(got, p.calls[i].value) /\ Contains(Flags(got), CString(p.calls[i].value))
  <2> DEFINE x == CString(p.calls[i].value)
  <2>1. i \in 1 .. n /\ x \in m.flags
    BY <1>1, <1>5 DEF Agrees
  <2>2. x \in ToSet(FlagOrder)
    <3>1. IsCall(p.calls[i]) /\ p.calls[i].op = "flag" /\ Effective(p.calls[i])
      BY <1>1, <2>1, RoundTripAssumption DEF CallsOf
    <3> QED
      BY <3>1 DEF IsCall
  <2> HIDE DEF x
  <2>3. x \in ToSet(Flags(got)) /\ x \in got.flags
    BY <1>3, <1>7, <2>1, <2>2 DEF Lists
  <2>4. DOMAIN Flags(got) = 1 .. Len(Flags(got))
    BY <1>7, LenProperties
  <2>5. Contains(Flags(got), x)
    BY <2>3, <2>4 DEF Contains, ToSet
  <2> QED
    BY <2>3, <2>5 DEF Flag, x
<1>10. ASSUME NEW f \in FieldsOf(m.type) PROVE Field(got, f) = LastSaid(p, f, <<>>)
  <2>1. f \in Fields
    BY FieldsAre DEF Sendable, Types, Fields
  <2>2. got[f] = m[f]
    BY <1>2, <2>1 DEF Fields
  <2>3. m[f] \in Text
    BY <2>1, NoNames DEF Sendable, Fields
  <2>4. LastSaid(p, f, <<>>) = m[f]
    BY <1>1, <2>1, SaysAll DEF Agrees
  <2> QED
    BY <2>2, <2>3, <2>4, GoStringIs DEF Field
<1> QED
  BY <1>6, <1>7, <1>8, <1>9, <1>10

\* The getters of the handler read what the sender's calls said: CallsAreRead,
\* about the setters and getters of spore_c.cpp and of the Go packages, at both
\* ends of all that SentMessageIsReceived is about.
THEOREM CallsReadBack == Spec => []CallsAreRead
<1>1. RawInv /\ sent = Built(program) /\ SentIsReceived => CallsAreRead
  <2> SUFFICES ASSUME RawInv, sent = Built(program), SentIsReceived,
                      Quiet, Entire(sent), AllWritable(sent), OneBlockLeads(sent), ~Reserved(sent)
               PROVE  CallsAreRead
    BY DEF CallsAreRead
  <2>1. program \in Programs /\ sent \in Sendable
    BY DEF RawInv, TypeInv
  <2> DEFINE got == Received(parse(output[1].text))
  <2>2. got = Expected(sent)
    BY DEF SentIsReceived, Delivers
  <2> HIDE DEF got
  <2>3. /\ Lists(Args(got), KeyOrder, {k \in ToSet(KeyOrder) : CallsOf(program, "arg", k) # {}})
        /\ Lists(Flags(got), FlagOrder, got.flags \cap ToSet(FlagOrder))
        /\ \A k \in ToSet(KeyOrder) :
             LET v == LastSaid(program, "arg", CString(k))
             IN  /\ Arg(got, k) = [value |-> v, present |-> v # <<>>]
                 /\ ArgIf(got, k, <<"default">>) = IF v = <<>> THEN <<"default">> ELSE v
        /\ \A i \in CallsOf(program, "flag", <<>>) :
             LET f == program.calls[i].value
             IN  Flag(got, f) /\ Contains(Flags(got), CString(f))
        /\ \A f \in FieldsOf(sent.type) : Field(got, f) = LastSaid(program, f, <<>>)
    BY <2>1, <2>2, GettersSay
  <2> QED
    BY <2>3 DEF CallsAreRead, got
<1> QED
  BY <1>1, RawInvHolds, BuiltBefore, SentMessageIsReceived, PTL

=============================================================================
