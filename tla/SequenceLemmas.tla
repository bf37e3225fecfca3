--------------------------- MODULE SequenceLemmas ---------------------------
(***************************************************************************)
(* What the operators of the community modules that the models use return, *)
(* in the form the proofs need.                                            *)
(***************************************************************************)
EXTENDS Integers, SequencesExt, SequenceTheorems, WellFoundedInduction, TLAPS

\* A function on 1..n is a sequence of length n.
LEMMA FunctionIsSeq ==
  ASSUME NEW S, NEW n \in Nat, NEW f \in [1 .. n -> S]
  PROVE  f \in Seq(S) /\ Len(f) = n
BY SeqDef

\* A set of numbers that has an element has a smallest one, which is Min.
LEMMA MinIsSmallest ==
  ASSUME NEW S, S \subseteq Nat, S # {}
  PROVE  Min(S) \in S /\ \A y \in S : Min(S) <= y
<1> DEFINE R == OpToRel(<, Nat)
<1>1. \A a, b \in Nat : a < b => <<a, b>> \in R
  BY DEF OpToRel
<1>2. IsWellFoundedOn(R, Nat)
  BY NatLessThanWellFounded
<1> HIDE DEF R
<1>3. PICK x \in S : \A y \in S : ~ (<<y, x>> \in R)
  BY <1>2, WFMin
<1>4. \A y \in S : x <= y
  <2> SUFFICES ASSUME NEW y \in S PROVE x <= y
    OBVIOUS
  <2>1. x \in Nat /\ y \in Nat
    OBVIOUS
  <2>2. ~ (y < x)
    BY <1>1, <1>3, <2>1
  <2> QED
    BY <2>1, <2>2
<1> QED
  BY <1>4 DEF Min

\* std::find: the first position of an element, or 0.
Position(s, e) ==
  LET I == {j \in 1 .. Len(s) : s[j] = e} IN IF I # {} THEN Min(I) ELSE 0

\* Where std::find finds an element: at the first position that holds it.
LEMMA FirstPosition ==
  ASSUME NEW S, NEW s \in Seq(S), NEW e
  PROVE  IF \E j \in 1 .. Len(s) : s[j] = e
           THEN /\ Position(s, e) \in 1 .. Len(s) /\ s[Position(s, e)] = e
                /\ \A j \in 1 .. Len(s) : s[j] = e => Position(s, e) <= j
           ELSE Position(s, e) = 0
<1> DEFINE I == {j \in 1 .. Len(s) : s[j] = e}
<1>1. Position(s, e) = IF I # {} THEN Min(I) ELSE 0
  BY DEF Position
<1>2. CASE I = {}
  BY <1>1, <1>2
<1>3. CASE I # {}
  <2>1. I \subseteq Nat
    BY LenProperties
  <2>2. Min(I) \in I /\ \A y \in I : Min(I) <= y
    BY <1>3, <2>1, MinIsSmallest
  <2> QED
    BY <1>1, <1>3, <2>2
<1> QED
  BY <1>2, <1>3

\* The same, when an element is known to be there.
LEMMA PositionOf ==
  ASSUME NEW S, NEW s \in Seq(S), NEW e, NEW j \in 1 .. Len(s), s[j] = e
  PROVE  /\ Position(s, e) \in 1 .. Len(s) /\ s[Position(s, e)] = e
         /\ \A i \in 1 .. Len(s) : s[i] = e => Position(s, e) <= i
BY FirstPosition

\* erase of what find returned.
LEMMA RemoveFirstIsErase ==
  ASSUME NEW s, NEW e
  PROVE  RemoveFirst(s, e) =
           IF \E j \in 1 .. Len(s) : s[j] = e
             THEN SubSeq(s, 1, Position(s, e) - 1) \o SubSeq(s, Position(s, e) + 1, Len(s))
             ELSE s
<1>1. (\E j \in 1 .. Len(s) : s[j] = e) <=> {j \in 1 .. Len(s) : s[j] = e} # {}
  OBVIOUS
<1> QED
  BY <1>1 DEF RemoveFirst, RemoveAt, SelectInSeq, Position

\* Removing an element gives a sequence over the same set.
LEMMA RemoveFirstType ==
  ASSUME NEW S, NEW s \in Seq(S), NEW e
  PROVE  RemoveFirst(s, e) \in Seq(S)
<1>1. CASE \E j \in 1 .. Len(s) : s[j] = e
  <2>1. Position(s, e) \in 1 .. Len(s) /\ Len(s) \in Nat
    BY <1>1, FirstPosition, LenProperties
  <2>2. \A j \in 1 .. Len(s) : s[j] \in S
    BY ElementOfSeq
  <2>3. SubSeq(s, 1, Position(s, e) - 1) \in Seq(S)
    BY <2>1, <2>2, SubSeqProperties
  <2>4. SubSeq(s, Position(s, e) + 1, Len(s)) \in Seq(S)
    BY <2>1, <2>2, SubSeqProperties
  <2> QED
    BY <1>1, <2>3, <2>4, RemoveFirstIsErase, ConcatProperties
<1>2. CASE ~ \E j \in 1 .. Len(s) : s[j] = e
  BY <1>2, RemoveFirstIsErase
<1> QED
  BY <1>1, <1>2

\* A vector that holds one element holds nothing after it is removed.
LEMMA RemoveTheOnlyOne ==
  ASSUME NEW x
  PROVE  RemoveFirst(<<x>>, x) = <<>>
<1> DEFINE s == <<x>>
<1>1. s \in Seq({x}) /\ Len(s) = 1 /\ s[1] = x
  OBVIOUS
<1>2. \E j \in 1 .. Len(s) : s[j] = x
  BY <1>1
<1> HIDE DEF s
<1>3. Position(s, x) = 1
  <2>1. Position(s, x) \in 1 .. Len(s)
    BY <1>1, <1>2, FirstPosition
  <2> QED
    BY <1>1, <2>1
<1>4. SubSeq(s, 1, 0) = <<>> /\ SubSeq(s, 2, 1) = <<>>
  BY SubSeqEmpty
<1>5. <<>> \o <<>> = <<>>
  BY EmptySeq, ConcatEmptySeq
<1>6. RemoveFirst(s, x) = SubSeq(s, 1, 1 - 1) \o SubSeq(s, 1 + 1, 1)
  BY <1>1, <1>2, <1>3, RemoveFirstIsErase
<1>7. 1 - 1 = 0 /\ 1 + 1 = 2
  OBVIOUS
<1>8. RemoveFirst(s, x) = <<>>
  BY <1>4, <1>5, <1>6, <1>7
<1> QED
  BY <1>8 DEF s

\* Appending an element that is not there.
LEMMA AppendRange ==
  ASSUME NEW S, NEW s \in Seq(S), NEW e \in S
  PROVE  /\ Range(Append(s, e)) = Range(s) \cup {e}
         /\ e \notin Range(s) /\ (\A i, j \in DOMAIN s : s[i] = s[j] => i = j) =>
              \A i, j \in DOMAIN Append(s, e) : Append(s, e)[i] = Append(s, e)[j] => i = j
<1> DEFINE a == Append(s, e)
<1>1. /\ DOMAIN s = 1 .. Len(s) /\ Len(s) \in Nat
      /\ DOMAIN a = 1 .. Len(s) + 1
      /\ \A i \in 1 .. Len(s) : a[i] = s[i]
      /\ a[Len(s) + 1] = e
  BY AppendProperties, LenProperties
<1> HIDE DEF a
<1>2. \A i \in DOMAIN a : i \in DOMAIN s \/ i = Len(s) + 1
  BY <1>1
<1>3. Range(a) = Range(s) \cup {e}
  BY <1>1, <1>2 DEF Range
<1>4. ASSUME e \notin Range(s), \A i, j \in DOMAIN s : s[i] = s[j] => i = j,
             NEW i \in DOMAIN a, NEW j \in DOMAIN a, a[i] = a[j]
      PROVE  i = j
  <2>1. \A k \in DOMAIN s : s[k] # e
    BY <1>4 DEF Range
  <2> QED
    BY <1>1, <1>2, <1>4, <2>1
<1> QED
  BY <1>3, <1>4 DEF a

\* A set of numbers that has, with every number, the one before it, is empty.
LEMMA NoFirst ==
  ASSUME NEW B, B \subseteq Nat, \A k \in B : k - 1 \in B
  PROVE  B = {}
<1> SUFFICES ASSUME B # {} PROVE FALSE
  OBVIOUS
<1>1. PICK m \in Nat : m \in B /\ \A y \in B : m <= y
  BY MinIsSmallest
<1>2. m - 1 \in B /\ m <= m - 1
  BY <1>1
<1> QED
  BY <1>1, <1>2

\* The part of a sequence behind position m.
LEMMA PartOf ==
  ASSUME NEW S, NEW s \in Seq(S), NEW m \in Nat, NEW n \in Nat, m <= n, n <= Len(s)
  PROVE  /\ SubSeq(s, m + 1, n) \in Seq(S) /\ Len(SubSeq(s, m + 1, n)) = n - m
         /\ \A i \in 1 .. n - m : SubSeq(s, m + 1, n)[i] = s[m + i]
<1> DEFINE u == SubSeq(s, m + 1, n)
<1>1. \A i \in m + 1 .. n : s[i] \in S
  <2> SUFFICES ASSUME NEW i \in m + 1 .. n PROVE s[i] \in S
    OBVIOUS
  <2>1. i \in 1 .. Len(s)
    BY LenProperties
  <2> QED
    BY <2>1, ElementOfSeq
<1>2. /\ u \in Seq(S) /\ Len(u) = IF m + 1 <= n THEN n - (m + 1) + 1 ELSE 0
      /\ \A i \in 1 .. n - (m + 1) + 1 : u[i] = s[m + 1 + i - 1]
  BY <1>1, SubSeqProperties
<1> HIDE DEF u
<1>3. /\ n - (m + 1) + 1 = n - m
      /\ (IF m + 1 <= n THEN n - (m + 1) + 1 ELSE 0) = n - m
      /\ \A i \in 1 .. n - m : m + 1 + i - 1 = m + i
  OBVIOUS
<1>4. u \in Seq(S) /\ Len(u) = n - m /\ \A i \in 1 .. n - m : u[i] = s[m + i]
  BY <1>2, <1>3
<1> QED
  BY <1>4 DEF u

\* The beginning of a sequence.
LEMMA PrefixOf ==
  ASSUME NEW S, NEW s \in Seq(S), NEW n \in 0 .. Len(s)
  PROVE  /\ SubSeq(s, 1, n) \in Seq(S) /\ Len(SubSeq(s, 1, n)) = n
         /\ \A i \in 1 .. n : SubSeq(s, 1, n)[i] = s[i]
<1> DEFINE u == SubSeq(s, 0 + 1, n)
<1>1. n \in Nat /\ 0 \in Nat /\ 0 <= n /\ n <= Len(s)
  BY LenProperties
<1>2. u \in Seq(S) /\ Len(u) = n - 0 /\ \A i \in 1 .. n - 0 : u[i] = s[0 + i]
  BY <1>1, PartOf
<1>3. u = SubSeq(s, 1, n)
  OBVIOUS
<1> HIDE DEF u
<1>4. u \in Seq(S) /\ Len(u) = n /\ \A i \in 1 .. n : u[i] = s[i]
  BY <1>1, <1>2
<1> QED
  BY <1>3, <1>4

\* f is the function that FlattenSeq defines on s.
Flattens(f, s, n) == f = [i \in 1 .. n |-> IF i = 1 THEN s[i] ELSE f[i - 1] \o s[i]]

\* The function that FlattenSeq computes exists.
LEMMA FlattenExists ==
  ASSUME NEW s, NEW n \in Nat \ {0}
  PROVE  \E f : Flattens(f, s, n)
<1> DEFINE B == {m \in Nat \ {0} : ~ \E f : Flattens(f, s, m)}
<1>1. \A m \in B : m - 1 \in B
  <2> SUFFICES ASSUME NEW m \in Nat \ {0}, ~ (m - 1 \in B) PROVE \E f : Flattens(f, s, m)
    OBVIOUS
  <2>1. CASE m = 1
    <3> DEFINE g == [i \in 1 .. 1 |-> s[i]]
    <3>1. Flattens(g, s, 1)
      BY DEF Flattens
    <3> QED
      BY <2>1, <3>1
  <2>2. CASE m # 1
    <3>1. m - 1 \in Nat \ {0}
      BY <2>2
    <3>2. PICK f : Flattens(f, s, m - 1)
      BY <3>1
    <3> DEFINE g == [i \in 1 .. m |-> IF i = m THEN f[m - 1] \o s[m] ELSE f[i]]
    <3>3. \A i \in 1 .. m - 1 : g[i] = f[i]
      OBVIOUS
    <3>4. \A i \in 1 .. m - 1 : f[i] = IF i = 1 THEN s[i] ELSE f[i - 1] \o s[i]
      BY <3>2 DEF Flattens
    <3>5. \A i \in 1 .. m : i # 1 => i - 1 \in 1 .. m - 1
      OBVIOUS
    <3>6. g[m] = g[m - 1] \o s[m]
      <4>1. m - 1 \in 1 .. m - 1 /\ m \in 1 .. m
        BY <3>1
      <4>2. g[m] = f[m - 1] \o s[m]
        BY <4>1
      <4> QED
        BY <3>3, <4>1, <4>2
    <3>7. g = [i \in 1 .. m |-> g[i]]
      OBVIOUS
    <3> HIDE DEF g
    <3>8. \A i \in 1 .. m : g[i] = IF i = 1 THEN s[i] ELSE g[i - 1] \o s[i]
      <4> SUFFICES ASSUME NEW i \in 1 .. m PROVE g[i] = IF i = 1 THEN s[i] ELSE g[i - 1] \o s[i]
        OBVIOUS
      <4>1. CASE i = m
        BY <2>2, <3>6, <4>1
      <4>2. CASE i # m
        <5>1. i \in 1 .. m - 1
          BY <4>2
        <5>2. i # 1 => i - 1 \in 1 .. m - 1
          BY <3>5
        <5> QED
          BY <3>3, <3>4, <5>1, <5>2
      <4> QED
        BY <4>1, <4>2
    <3>9. g = [i \in 1 .. m |-> IF i = 1 THEN s[i] ELSE g[i - 1] \o s[i]]
      BY <3>7, <3>8
    <3> QED
      BY <3>9 DEF Flattens
  <2> QED
    BY <2>1, <2>2
<1>2. B = {}
  <2>1. B \subseteq Nat
    OBVIOUS
  <2> HIDE DEF B
  <2> QED
    BY <1>1, <2>1, NoFirst
<1> QED
  BY <1>2

----------------------------------------------------------------------------
(* Joined and repeated *)

\* Equality, as a predicate that the provers match without looking into it.
Same(x, y) == x = y

\* f[i] joins the first i elements of s.
Joins(f, s, n, S) ==
  /\ f[1] = s[1] /\ \A i \in 2 .. n : f[i] = f[i - 1] \o s[i]
  /\ \A i \in 1 .. n : f[i] \in Seq(S) /\ s[i] \in Seq(S)

\* The function that FlattenSeq computes on a sequence of sequences.
LEMMA FlattenFunction ==
  ASSUME NEW S, NEW s \in Seq(Seq(S)), NEW n \in Nat, n = Len(s), n # 0
  PROVE  \E f : FlattenSeq(s) = f[n] /\ Joins(f, s, n, S)
<1>1. n = Len(s) /\ n # 0
  OBVIOUS
<1> DEFINE f == CHOOSE f : Flattens(f, s, n)
<1>2. Flattens(f, s, n)
  BY <1>1, FlattenExists
<1>3. FlattenSeq(s) = f[n]
  BY <1>1 DEF FlattenSeq, Flattens
<1> HIDE DEF f
<1>4. \A i \in 1 .. n : f[i] = IF i = 1 THEN s[i] ELSE f[i - 1] \o s[i]
  BY <1>2 DEF Flattens
<1>5. 1 \in 1 .. n /\ \A i \in 2 .. n : i \in 1 .. n /\ i # 1
  BY <1>1
<1>6. f[1] = s[1] /\ \A i \in 2 .. n : f[i] = f[i - 1] \o s[i]
  BY <1>4, <1>5
<1>7. \A i \in 1 .. n : s[i] \in Seq(S)
  BY <1>1, ElementOfSeq
<1>8. \A i \in 1 .. n : f[i] \in Seq(S)
  <2> DEFINE B == {i \in 1 .. n : f[i] \notin Seq(S)}
  <2>1. \A i \in B : i - 1 \in B
    <3> SUFFICES ASSUME NEW i \in 1 .. n, f[i] \notin Seq(S)
                 PROVE  i - 1 \in 1 .. n /\ f[i - 1] \notin Seq(S)
      OBVIOUS
    <3>1. i # 1
      BY <1>6, <1>7
    <3>2. i \in 2 .. n /\ i - 1 \in 1 .. n
      BY <3>1
    <3>3. ASSUME f[i - 1] \in Seq(S) PROVE FALSE
      <4>1. f[i - 1] \o s[i] \in Seq(S)
        BY <1>7, <3>3, ConcatProperties
      <4> QED
        BY <1>6, <3>2, <4>1
    <3> QED
      BY <3>2, <3>3
  <2>2. B \subseteq Nat
    OBVIOUS
  <2>3. B = {}
    <3> HIDE DEF B
    <3> QED
      BY <2>1, <2>2, NoFirst
  <2> QED
    BY <2>3
<1> QED
  BY <1>3, <1>6, <1>7, <1>8 DEF Joins

\* Joining sequences gives a sequence, and nothing when there are none.
LEMMA FlattenType ==
  ASSUME NEW S, NEW s \in Seq(Seq(S))
  PROVE  FlattenSeq(s) \in Seq(S) /\ (s = <<>> => FlattenSeq(s) = <<>>)
<1>1. CASE s = <<>>
  BY <1>1, EmptySeq DEF FlattenSeq
<1>2. CASE s # <<>>
  <2>1. PICK n \in Nat : n = Len(s) /\ n # 0
    BY <1>2, EmptySeq, LenProperties
  <2>2. PICK f : FlattenSeq(s) = f[n] /\ Joins(f, s, n, S)
    BY <2>1, FlattenFunction
  <2>3. n \in 1 .. n
    BY <2>1
  <2> QED
    BY <1>2, <2>2, <2>3 DEF Joins
<1> QED
  BY <1>1, <1>2

\* One more sequence to join.
LEMMA FlattenAppend ==
  ASSUME NEW S, NEW s \in Seq(Seq(S)), NEW x \in Seq(S)
  PROVE  FlattenSeq(Append(s, x)) = FlattenSeq(s) \o x
<1> DEFINE t == Append(s, x)
<1>1. /\ t \in Seq(Seq(S)) /\ Len(t) = Len(s) + 1 /\ Len(s) \in Nat
      /\ \A i \in 1 .. Len(s) : t[i] = s[i]
      /\ t[Len(s) + 1] = x
  BY AppendProperties, LenProperties
<1> HIDE DEF t
<1>2. PICK m \in Nat : m = Len(t) /\ m # 0 /\ m = Len(s) + 1
  BY <1>1
<1>3. PICK g : FlattenSeq(t) = g[m] /\ Joins(g, t, m, S)
  BY <1>1, <1>2, FlattenFunction
<1>4. CASE s = <<>>
  <2>1. Len(s) = 0 /\ FlattenSeq(s) = <<>>
    BY <1>4, EmptySeq, FlattenType
  <2>2. FlattenSeq(t) = x
    BY <1>1, <1>2, <1>3, <2>1 DEF Joins
  <2>3. <<>> \o x = x
    BY ConcatEmptySeq
  <2> QED
    BY <2>1, <2>2, <2>3 DEF t
<1>5. CASE s # <<>>
  <2>1. PICK n \in Nat : n = Len(s) /\ n # 0
    BY <1>5, EmptySeq, LenProperties
  <2>2. PICK f : FlattenSeq(s) = f[n] /\ Joins(f, s, n, S)
    BY <2>1, FlattenFunction
  <2>3. m = n + 1 /\ g[1] = t[1] /\ \A i \in 2 .. n + 1 : g[i] = g[i - 1] \o t[i]
    BY <1>2, <1>3, <2>1 DEF Joins
  <2>8. f[1] = s[1] /\ \A i \in 2 .. n : f[i] = f[i - 1] \o s[i]
    BY <2>2 DEF Joins
  <2>4. \A i \in 1 .. n : t[i] = s[i]
    BY <1>1, <2>1
  <2>5. \A i \in 1 .. n : g[i] = f[i]
    <3> DEFINE B == {i \in 1 .. n : g[i] # f[i]}
    <3>1. \A i \in B : i - 1 \in B
      <4> SUFFICES ASSUME NEW i \in 1 .. n, g[i] # f[i]
                   PROVE  i - 1 \in 1 .. n /\ g[i - 1] # f[i - 1]
        OBVIOUS
      <4>1. i # 1
        BY <2>3, <2>4, <2>8
      <4>2. i \in 2 .. n /\ i \in 2 .. n + 1 /\ i - 1 \in 1 .. n
        BY <4>1
      <4>3. t[i] = s[i]
        BY <2>4
      <4> QED
        BY <2>3, <2>8, <4>2, <4>3
    <3>2. B \subseteq Nat
      OBVIOUS
    <3>3. B = {}
      <4> HIDE DEF B
      <4> QED
        BY <3>1, <3>2, NoFirst
    <3> QED
      BY <3>3
  <2>6. n \in 1 .. n /\ m \in 2 .. n + 1 /\ m - 1 = n
    BY <2>1, <2>3
  <2>7. t[m] = x /\ g[n] = f[n]
    BY <1>1, <2>1, <2>3, <2>5, <2>6
  <2>9. g[m] = g[m - 1] \o t[m]
    BY <2>3, <2>6
  <2> QED
    BY <1>3, <2>2, <2>6, <2>7, <2>9 DEF t
<1> QED
  BY <1>4, <1>5

\* Every sequence but the empty one is a shorter one and a last element.
LEMMA FrontAndLast ==
  ASSUME NEW S, NEW s \in Seq(S), s # <<>>
  PROVE  /\ Front(s) \in Seq(S) /\ Last(s) \in S /\ s = Append(Front(s), Last(s))
         /\ Len(s) \in Nat \ {0} /\ Len(Front(s)) = Len(s) - 1
         /\ Last(s) = s[Len(s)] /\ \A i \in 1 .. Len(s) - 1 : Front(s)[i] = s[i]
<1>1. PICK n \in Nat : n = Len(s) /\ n # 0
  BY EmptySeq, LenProperties
<1>2. n - 1 \in 0 .. Len(s) /\ n \in 1 .. Len(s)
  BY <1>1
<1> DEFINE p == SubSeq(s, 1, n - 1)
<1>3. p \in Seq(S) /\ Len(p) = n - 1 /\ \A i \in 1 .. n - 1 : p[i] = s[i]
  BY <1>2, PrefixOf
<1>4. s[n] \in S
  BY <1>2, ElementOfSeq
<1>5. p = Front(s) /\ s[n] = Last(s)
  BY <1>1 DEF Front, Last
<1> HIDE DEF p
<1>6. /\ Append(p, s[n]) \in Seq(S) /\ Len(Append(p, s[n])) = n
      /\ \A i \in 1 .. n : Append(p, s[n])[i] = s[i]
  <2>1. /\ Append(p, s[n]) \in Seq(S) /\ Len(Append(p, s[n])) = Len(p) + 1
        /\ \A i \in 1 .. Len(p) : Append(p, s[n])[i] = p[i]
        /\ Append(p, s[n])[Len(p) + 1] = s[n]
    BY <1>3, <1>4, AppendProperties
  <2>2. Len(p) + 1 = n /\ \A i \in 1 .. n : i \in 1 .. n - 1 \/ i = n
    BY <1>3
  <2> QED
    BY <1>3, <2>1, <2>2
<1>7. Append(p, s[n]) = s
  BY <1>1, <1>6, SeqEqual
<1> QED
  BY <1>1, <1>3, <1>4, <1>5, <1>7

\* Induction over sequences, for a property given as a set.
LEMMA SeqInduction ==
  ASSUME NEW S, NEW G, <<>> \in G,
         \A p \in Seq(S), x \in S : p \in G => Append(p, x) \in G
  PROVE  \A s \in Seq(S) : s \in G
<1> DEFINE B == {k \in Nat : \E u \in Seq(S) : Len(u) = k /\ u \notin G}
<1>1. \A k \in B : k - 1 \in B
  <2> SUFFICES ASSUME NEW k \in Nat, NEW u \in Seq(S), Len(u) = k, u \notin G
               PROVE  k - 1 \in B
    OBVIOUS
  <2>1. u # <<>>
    OBVIOUS
  <2>2. /\ Front(u) \in Seq(S) /\ Last(u) \in S /\ u = Append(Front(u), Last(u))
        /\ Len(Front(u)) = k - 1 /\ k \in Nat \ {0}
    BY <2>1, FrontAndLast
  <2>3. Front(u) \notin G
    BY <2>2
  <2> QED
    BY <2>2, <2>3
<1>2. B = {}
  <2>1. B \subseteq Nat
    OBVIOUS
  <2> HIDE DEF B
  <2> QED
    BY <1>1, <2>1, NoFirst
<1>3. \A s \in Seq(S) : Len(s) \in Nat
  BY LenProperties
<1> QED
  BY <1>2, <1>3

\* push_back is a concatenation.
LEMMA AppendOne ==
  ASSUME NEW S, NEW s \in Seq(S), NEW x \in S
  PROVE  Append(s, x) = s \o <<x>> /\ <<x>> \in Seq(S) /\ Len(<<x>>) = 1 /\ <<x>>[1] = x
<1>1. <<x>> \in Seq(S) /\ Len(<<x>>) = 1 /\ <<x>>[1] = x
  OBVIOUS
<1> DEFINE a == Append(s, x)
<1> DEFINE c == s \o <<x>>
<1>2. /\ a \in Seq(S) /\ Len(a) = Len(s) + 1 /\ Len(s) \in Nat
      /\ \A i \in 1 .. Len(s) : a[i] = s[i]
      /\ a[Len(s) + 1] = x
  BY AppendProperties, LenProperties
<1>3. /\ c \in Seq(S) /\ Len(c) = Len(s) + 1
      /\ \A i \in 1 .. Len(s) + 1 : c[i] = IF i <= Len(s) THEN s[i] ELSE <<x>>[i - Len(s)]
  BY <1>1, ConcatProperties
<1> HIDE DEF a, c
<1>4. \A i \in 1 .. Len(s) + 1 : a[i] = c[i]
  <2> SUFFICES ASSUME NEW i \in 1 .. Len(s) + 1 PROVE a[i] = c[i]
    OBVIOUS
  <2>1. CASE i <= Len(s)
    BY <1>2, <1>3, <2>1
  <2>2. CASE ~(i <= Len(s))
    <3>1. i = Len(s) + 1 /\ i - Len(s) = 1
      BY <1>2, <2>2
    <3> QED
      BY <1>1, <1>2, <1>3, <2>2, <3>1
  <2> QED
    BY <2>1, <2>2
<1>5. a = c
  BY <1>2, <1>3, <1>4, SeqEqual
<1> QED
  BY <1>1, <1>5 DEF a, c

\* An element behind a concatenation.
LEMMA AppendToConcat ==
  ASSUME NEW S, NEW s \in Seq(S), NEW t \in Seq(S), NEW x \in S
  PROVE  s \o Append(t, x) = Append(s \o t, x)
<1>1. Append(t, x) = t \o <<x>> /\ <<x>> \in Seq(S)
  BY AppendOne
<1>2. s \o t \in Seq(S)
  BY ConcatProperties
<1>3. Append(s \o t, x) = (s \o t) \o <<x>>
  BY <1>2, AppendOne
<1> QED
  BY <1>1, <1>3, ConcatAssociative

\* Joining is a homomorphism.
LEMMA FlattenConcat ==
  ASSUME NEW S, NEW s \in Seq(Seq(S)), NEW t \in Seq(Seq(S))
  PROVE  FlattenSeq(s \o t) = FlattenSeq(s) \o FlattenSeq(t)
<1> DEFINE G == {u \in Seq(Seq(S)) : FlattenSeq(s \o u) = FlattenSeq(s) \o FlattenSeq(u)}
<1>1. FlattenSeq(s) \in Seq(S)
  BY FlattenType
<1>2. <<>> \in G
  <2>1. s \o <<>> = s /\ <<>> \in Seq(Seq(S))
    BY ConcatEmptySeq, EmptySeq
  <2>2. FlattenSeq(<<>>) = <<>>
    BY <2>1, FlattenType
  <2>3. FlattenSeq(s) \o <<>> = FlattenSeq(s)
    BY <1>1, ConcatEmptySeq
  <2> QED
    BY <2>1, <2>2, <2>3
<1>3. ASSUME NEW p \in Seq(Seq(S)), NEW x \in Seq(S), p \in G PROVE Append(p, x) \in G
  <2>1. s \o Append(p, x) = Append(s \o p, x) /\ s \o p \in Seq(Seq(S))
    BY AppendToConcat, ConcatProperties
  <2>2. FlattenSeq(s \o Append(p, x)) = FlattenSeq(s \o p) \o x
    BY <2>1, FlattenAppend
  <2>3. FlattenSeq(Append(p, x)) = FlattenSeq(p) \o x /\ FlattenSeq(p) \in Seq(S)
    BY FlattenAppend, FlattenType
  <2> DEFINE a == FlattenSeq(s)
             b == FlattenSeq(p)
  <2>4. a \in Seq(S) /\ b \in Seq(S)
    BY <1>1, <2>3
  <2>5. FlattenSeq(s \o p) = a \o b
    BY <1>3
  <2> HIDE DEF a, b
  <2>6. (a \o b) \o x = a \o (b \o x)
    BY <2>4, ConcatAssociative
  <2>7. FlattenSeq(s \o Append(p, x)) = a \o (b \o x)
    BY <2>2, <2>5, <2>6
  <2>8. FlattenSeq(s \o Append(p, x)) = FlattenSeq(s) \o FlattenSeq(Append(p, x))
    BY <2>3, <2>7 DEF a, b
  <2>9. Append(p, x) \in Seq(Seq(S))
    BY AppendProperties
  <2> QED
    BY <2>8, <2>9
<1>4. t \in G
  <2> HIDE DEF G
  <2> QED
    BY <1>2, <1>3, SeqInduction
<1> QED
  BY <1>4

\* Joining one sequence.
LEMMA FlattenOne ==
  ASSUME NEW S, NEW x \in Seq(S)
  PROVE  FlattenSeq(<<x>>) = x
<1>1. <<>> \in Seq(Seq(S)) /\ FlattenSeq(<<>>) = <<>>
  BY EmptySeq, FlattenType
<1>2. FlattenSeq(Append(<<>>, x)) = <<>> \o x
  BY <1>1, FlattenAppend
<1>3. Append(<<>>, x) = <<x>> /\ <<>> \o x = x
  BY ConcatEmptySeq
<1> QED
  BY <1>2, <1>3

\* Joining the elements of a sequence one by one.
LEMMA FlattenSingles ==
  ASSUME NEW S, NEW s \in Seq(S)
  PROVE  FlattenSeq([i \in 1 .. Len(s) |-> <<s[i]>>]) = s
<1> DEFINE M(u) == [i \in 1 .. Len(u) |-> <<u[i]>>]
<1> DEFINE G == {u \in Seq(S) : FlattenSeq(M(u)) = u}
<1>1. \A u \in Seq(S) : M(u) \in Seq(Seq(S)) /\ Len(M(u)) = Len(u)
  <2> SUFFICES ASSUME NEW u \in Seq(S) PROVE M(u) \in Seq(Seq(S)) /\ Len(M(u)) = Len(u)
    OBVIOUS
  <2>1. Len(u) \in Nat /\ \A i \in 1 .. Len(u) : <<u[i]>> \in Seq(S)
    BY LenProperties, ElementOfSeq
  <2>2. M(u) \in [1 .. Len(u) -> Seq(S)]
    BY <2>1
  <2> QED
    BY <2>1, <2>2, FunctionIsSeq
<1>2. <<>> \in G
  <2>1. <<>> \in Seq(S) /\ Len(<<>>) = 0
    BY EmptySeq
  <2>2. M(<<>>) = <<>> /\ M(<<>>) \in Seq(Seq(S))
    BY <1>1, <2>1, EmptySeq
  <2> QED
    BY <2>1, <2>2, FlattenType
<1>3. ASSUME NEW p \in Seq(S), NEW x \in S, p \in G PROVE Append(p, x) \in G
  <2> DEFINE u == Append(p, x)
  <2>1. /\ u \in Seq(S) /\ Len(u) = Len(p) + 1 /\ Len(p) \in Nat
        /\ \A i \in 1 .. Len(p) : u[i] = p[i]
        /\ u[Len(p) + 1] = x
    BY AppendProperties, LenProperties
  <2> HIDE DEF u
  <2>2. M(p) \in Seq(Seq(S)) /\ Len(M(p)) = Len(p) /\ M(u) \in Seq(Seq(S)) /\ Len(M(u)) = Len(u)
    BY <1>1, <2>1
  <2>3. \A i \in 1 .. Len(p) : M(p)[i] = <<p[i]>>
    OBVIOUS
  <2>4. \A i \in 1 .. Len(u) : M(u)[i] = <<u[i]>>
    OBVIOUS
  <2> DEFINE a == M(p)
             b == M(u)
  <2>5. /\ a \in Seq(Seq(S)) /\ Len(a) = Len(p) /\ b \in Seq(Seq(S)) /\ Len(b) = Len(p) + 1
        /\ \A i \in 1 .. Len(p) : a[i] = <<p[i]>>
        /\ \A i \in 1 .. Len(p) + 1 : b[i] = <<u[i]>>
    BY <2>1, <2>2, <2>3, <2>4
  <2>6. FlattenSeq(a) = p
    BY <1>3
  <2> HIDE DEF a, b
  <2> DEFINE y == <<x>>
  <2>7. y \in Seq(S) /\ u = p \o y
    BY AppendOne DEF u
  <2> DEFINE c == Append(a, y)
  <2>12. FlattenSeq(c) = p \o y
    BY <2>5, <2>6, <2>7, FlattenAppend
  <2>13. /\ c \in Seq(Seq(S)) /\ Len(c) = Len(a) + 1
         /\ \A i \in 1 .. Len(a) : c[i] = a[i]
         /\ c[Len(a) + 1] = y
    <3> HIDE DEF y
    <3> QED
      BY <2>5, <2>7, AppendProperties
  <2> HIDE DEF c
  <2>8. /\ c \in Seq(Seq(S)) /\ Len(c) = Len(p) + 1
        /\ \A i \in 1 .. Len(p) : c[i] = <<p[i]>>
        /\ c[Len(p) + 1] = <<x>>
        /\ FlattenSeq(c) = p \o <<x>>
    BY <2>5, <2>12, <2>13
  <2>9. \A i \in 1 .. Len(p) + 1 : c[i] = b[i]
    <3>1. \A i \in 1 .. Len(p) + 1 : i \in 1 .. Len(p) \/ i = Len(p) + 1
      BY <2>1
    <3>2. \A i \in 1 .. Len(p) : c[i] = b[i]
      <4> SUFFICES ASSUME NEW i \in 1 .. Len(p) PROVE c[i] = b[i]
        OBVIOUS
      <4>1. i \in 1 .. Len(p) + 1
        BY <2>1
      <4>2. c[i] = <<p[i]>> /\ b[i] = <<u[i]>> /\ u[i] = p[i]
        BY <2>1, <2>5, <2>8, <4>1
      <4> QED
        BY <4>2
    <3>3. c[Len(p) + 1] = b[Len(p) + 1]
      <4>1. Len(p) + 1 \in 1 .. Len(p) + 1
        BY <2>1
      <4>2. b[Len(p) + 1] = <<u[Len(p) + 1]>>
        BY <2>5, <4>1
      <4> QED
        BY <2>1, <2>8, <4>2
    <3> QED
      BY <3>1, <3>2, <3>3
  <2>10. c = b
    BY <2>5, <2>8, <2>9, SeqEqual
  <2>11. FlattenSeq(M(u)) = u
    BY <2>7, <2>8, <2>10 DEF b
  <2>14. u \in G
    BY <2>1, <2>11
  <2> QED
    BY <2>14 DEF u
<1>4. s \in G
  <2> HIDE DEF G
  <2> QED
    BY <1>2, <1>3, SeqInduction
<1> QED
  BY <1>4

----------------------------------------------------------------------------
(* Text cut in two *)

\* Where two sequences are joined: the elements of each, and how the result
\* ends.
LEMMA Joined ==
  ASSUME NEW S, NEW s \in Seq(S), NEW t \in Seq(S)
  PROVE  /\ s \o t \in Seq(S)
         /\ \A u : Contains(s \o t, u) <=> Contains(s, u) \/ Contains(t, u)
         /\ t # <<>> => s \o t # <<>> /\ Last(s \o t) = Last(t)
<1>1. PICK n \in Nat : n = Len(s)
  BY LenProperties
<1>2. PICK m \in Nat : m = Len(t)
  BY LenProperties
<1> DEFINE c == s \o t
<1>3. c \in Seq(S) /\ Len(c) = n + m
      /\ \A i \in 1 .. n + m : c[i] = IF i <= n THEN s[i] ELSE t[i - n]
  BY <1>1, <1>2, ConcatProperties
<1> HIDE DEF c
<1>4. ASSUME NEW u PROVE Contains(c, u) <=> Contains(s, u) \/ Contains(t, u)
  <2>1. ASSUME NEW i \in 1 .. n + m, c[i] = u PROVE Contains(s, u) \/ Contains(t, u)
    <3>1. CASE i <= n
      BY <1>1, <1>3, <2>1, <3>1 DEF Contains
    <3>2. CASE ~(i <= n)
      <4>1. i - n \in 1 .. m /\ t[i - n] = u
        BY <1>3, <2>1, <3>2
      <4> QED
        BY <1>2, <4>1 DEF Contains
    <3> QED
      BY <3>1, <3>2
  <2>2. ASSUME NEW i \in 1 .. n, s[i] = u PROVE Contains(c, u)
    <3>1. i \in 1 .. n + m /\ c[i] = u
      BY <1>3, <2>2
    <3> QED
      BY <1>3, <3>1 DEF Contains
  <2>3. ASSUME NEW i \in 1 .. m, t[i] = u PROVE Contains(c, u)
    <3>1. n + i \in 1 .. n + m /\ c[n + i] = u
      BY <1>3, <2>3
    <3> QED
      BY <1>3, <3>1 DEF Contains
  <2> QED
    BY <1>1, <1>2, <1>3, <2>1, <2>2, <2>3 DEF Contains
<1>5. ASSUME t # <<>> PROVE c # <<>> /\ Last(c) = Last(t)
  <2>1. m # 0
    BY <1>2, <1>5, EmptySeq
  <2>2. n + m \in 1 .. n + m /\ ~(n + m <= n) /\ n + m - n = m
    BY <2>1
  <2>3. c[n + m] = t[m]
    BY <1>3, <2>2
  <2>4. c # <<>>
    BY <1>3, <2>1, EmptySeq
  <2> QED
    BY <1>2, <1>3, <2>3, <2>4 DEF Last
<1> QED
  BY <1>3, <1>4, <1>5 DEF c

\* A sequence of one element.
LEMMA Single ==
  ASSUME NEW S, NEW x \in S
  PROVE  /\ <<x>> \in Seq(S) /\ Len(<<x>>) = 1 /\ <<x>>[1] = x /\ <<x>> # <<>> /\ Last(<<x>>) = x
         /\ \A u : Contains(<<x>>, u) <=> u = x
  BY DEF Last, Contains

\* a is what is before the first u of s, and b what is behind it.
Splits(s, u, a, b) ==
  /\ ~Contains(a, u) /\ Same(s, Append(a, u) \o b)
  /\ Same(a, SubSeq(s, 1, Position(s, u) - 1))
  /\ Same(Append(a, u), SubSeq(s, 1, Position(s, u)))
  /\ Same(b, SubSeq(s, Position(s, u) + 1, Len(s)))
  /\ Len(a) = Position(s, u) - 1 /\ Position(s, u) \in 1 .. Len(s) /\ s[Position(s, u)] = u

\* A sequence that contains u can be split there.
LEMMA SplitAtFirst ==
  ASSUME NEW S, NEW s \in Seq(S), NEW u, Contains(s, u)
  PROVE  u \in S /\ \E a \in Seq(S), b \in Seq(S) : Splits(s, u, a, b)
<1>1. PICK n \in Nat : n = Len(s)
  BY LenProperties
<1>2. PICK j \in 1 .. n : s[j] = u
  BY <1>1 DEF Contains
<1>3. PICK m \in 1 .. n : /\ m = Position(s, u) /\ s[m] = u
                          /\ \A i \in 1 .. n : s[i] = u => m <= i
  BY <1>1, <1>2, PositionOf
<1>4. u \in S
  BY <1>1, <1>3, ElementOfSeq
<1> DEFINE a == SubSeq(s, 1, m - 1)
           b == SubSeq(s, m + 1, n)
           y == <<u>>
<1>5. a \in Seq(S) /\ Len(a) = m - 1 /\ \A i \in 1 .. m - 1 : a[i] = s[i]
  <2>1. m - 1 \in 0 .. Len(s)
    BY <1>1
  <2> QED
    BY <2>1, PrefixOf
<1>6. b \in Seq(S) /\ Len(b) = n - m /\ \A i \in 1 .. n - m : b[i] = s[m + i]
  <2>1. m \in Nat /\ m <= n /\ n <= Len(s)
    BY <1>1
  <2> QED
    BY <2>1, PartOf
<1>7. y \in Seq(S) /\ Len(y) = 1 /\ y[1] = u
  BY <1>4, Single
<1> HIDE DEF a, b, y
<1>8. ~Contains(a, u)
  BY <1>3, <1>5 DEF Contains
<1> DEFINE c == a \o y
<1>9. c \in Seq(S) /\ Len(c) = m
      /\ \A i \in 1 .. m : c[i] = s[i]
  <2>1. /\ c \in Seq(S) /\ Len(c) = m - 1 + 1
        /\ \A i \in 1 .. m - 1 + 1 : c[i] = IF i <= m - 1 THEN a[i] ELSE y[i - (m - 1)]
    <3>1. /\ c \in Seq(S) /\ Len(c) = Len(a) + Len(y)
          /\ \A i \in 1 .. Len(a) + Len(y) : c[i] = IF i <= Len(a) THEN a[i] ELSE y[i - Len(a)]
      BY <1>5, <1>7, ConcatProperties
    <3> HIDE DEF c
    <3> QED
      BY <1>5, <1>7, <3>1
  <2> HIDE DEF c
  <2>2. m - 1 + 1 = m /\ Len(c) = m
    BY <2>1
  <2>3. \A i \in 1 .. m : c[i] = s[i]
    <3> SUFFICES ASSUME NEW i \in 1 .. m PROVE c[i] = s[i]
      OBVIOUS
    <3>1. c[i] = IF i <= m - 1 THEN a[i] ELSE y[i - (m - 1)]
      BY <2>1, <2>2
    <3>2. CASE i <= m - 1
      BY <1>5, <3>1, <3>2
    <3>3. CASE ~(i <= m - 1)
      <4>1. i = m /\ i - (m - 1) = 1
        BY <3>3
      <4> QED
        BY <1>3, <1>7, <3>1, <3>3, <4>1
    <3> QED
      BY <3>2, <3>3
  <2> QED
    BY <2>1, <2>2, <2>3
<1> HIDE DEF c
<1> DEFINE d == c \o b
<1>10. d = s
  <2>1. /\ d \in Seq(S) /\ Len(d) = m + (n - m)
        /\ \A i \in 1 .. m + (n - m) : d[i] = IF i <= m THEN c[i] ELSE b[i - m]
    BY <1>6, <1>9, ConcatProperties
  <2>2. m + (n - m) = n
    BY <1>3
  <2> HIDE DEF d
  <2>3. \A i \in 1 .. n : d[i] = s[i]
    <3> SUFFICES ASSUME NEW i \in 1 .. n PROVE d[i] = s[i]
      OBVIOUS
    <3>1. CASE i <= m
      BY <1>9, <2>1, <2>2, <3>1
    <3>2. CASE ~(i <= m)
      <4>1. i - m \in 1 .. n - m /\ m + (i - m) = i
        BY <3>2
      <4>2. b[i - m] = s[i]
        BY <1>6, <4>1
      <4> QED
        BY <2>1, <2>2, <3>2, <4>2
    <3> QED
      BY <3>1, <3>2
  <2> QED
    BY <1>1, <2>1, <2>2, <2>3, SeqEqual
<1>11. c = Append(a, u)
  BY <1>4, <1>5, AppendOne DEF c, y
<1>12. c = SubSeq(s, 1, m)
  <2> DEFINE p == SubSeq(s, 1, m)
  <2>1. m \in 0 .. Len(s)
    BY <1>1
  <2>2. p \in Seq(S) /\ Len(p) = m /\ \A i \in 1 .. m : p[i] = s[i]
    BY <2>1, PrefixOf
  <2> HIDE DEF p
  <2>3. \A i \in 1 .. m : c[i] = p[i]
    BY <1>9, <2>2
  <2>4. c = p
    BY <1>9, <2>2, <2>3, SeqEqual
  <2> QED
    BY <2>4 DEF p
<1>13. Same(s, c \o b)
  BY <1>10 DEF d, Same
<1>14. Splits(s, u, a, b)
  BY <1>1, <1>3, <1>5, <1>8, <1>11, <1>12, <1>13 DEF Splits, Same, a, b
<1> QED
  BY <1>4, <1>5, <1>6, <1>14

\* Concatenation is associative.
LEMMA Associative ==
  ASSUME NEW S, NEW a \in Seq(S), NEW b \in Seq(S), NEW c \in Seq(S)
  PROVE  Same((a \o b) \o c, a \o (b \o c))
BY ConcatAssociative DEF Same

\* Four sequences, grouped to the right and to the left.
LEMMA FourInARow ==
  ASSUME NEW S, NEW a \in Seq(S), NEW b \in Seq(S), NEW c \in Seq(S), NEW d \in Seq(S)
  PROVE  /\ Same(a \o (b \o (c \o d)), ((a \o b) \o c) \o d)
         /\ Same(a \o ((b \o c) \o d), ((a \o b) \o c) \o d)
         /\ Same((a \o b) \o (c \o d), ((a \o b) \o c) \o d)
<1> DEFINE e == a \o b
           f == c \o d
           g == b \o c
<1>1. e \in Seq(S) /\ f \in Seq(S) /\ g \in Seq(S)
  BY ConcatProperties
<1>2. Same(e \o f, a \o (b \o f))
  <2> HIDE DEF f
  <2> QED
    BY <1>1, Associative
<1>3. Same((e \o c) \o d, e \o f)
  <2> HIDE DEF e
  <2> QED
    BY <1>1, Associative
<1>4. Same((a \o g) \o d, a \o (g \o d))
  <2> HIDE DEF g
  <2> QED
    BY <1>1, Associative
<1>5. Same(e \o c, a \o g)
  BY Associative
<1> HIDE DEF e, f, g
<1>6. /\ Same(a \o (b \o f), (e \o c) \o d) /\ Same(a \o (g \o d), (e \o c) \o d)
      /\ Same(e \o f, (e \o c) \o d)
  BY <1>2, <1>3, <1>4, <1>5 DEF Same
<1> QED
  BY <1>6 DEF e, f, g

\* The two ends of a sequence that an element was appended to.
LEMMA FrontOfAppend ==
  ASSUME NEW S, NEW s \in Seq(S), NEW x \in S
  PROVE  Append(s, x) # <<>> /\ Last(Append(s, x)) = x /\ Front(Append(s, x)) = s
<1> DEFINE a == Append(s, x)
<1>1. PICK n \in Nat : n = Len(s)
  BY LenProperties
<1>2. a \in Seq(S) /\ a # <<>> /\ Len(a) = n + 1 /\ (\A i \in 1 .. n : a[i] = s[i]) /\ a[n + 1] = x
  BY <1>1, AppendProperties
<1> HIDE DEF a
<1>3. Front(a) \in Seq(S) /\ Len(Front(a)) = n /\ \A i \in 1 .. n : Front(a)[i] = s[i]
  <2>1. Front(a) \in Seq(S) /\ Len(Front(a)) = Len(a) - 1
        /\ \A i \in 1 .. Len(a) - 1 : Front(a)[i] = a[i]
    BY <1>2, FrontAndLast
  <2>2. Len(a) - 1 = n
    BY <1>2
  <2> QED
    BY <1>2, <2>1, <2>2
<1>4. Front(a) = s
  BY <1>1, <1>3, SeqEqual
<1> QED
  BY <1>2, <1>4 DEF Last, a

\* f[i] is what i steps make of x, where a step may depend on its number.
Iterates(f, step, x, n, S) ==
  /\ f \in [0 .. n -> S]
  /\ f[0] = x /\ \A i \in 1 .. n : f[i] = step[i][f[i - 1]]

\* A step can be repeated.
LEMMA Iteration ==
  ASSUME NEW S, NEW x \in S, NEW n \in Nat, NEW step \in [1 .. n -> [S -> S]]
  PROVE  \E f : Iterates(f, step, x, n, S)
<1> DEFINE Good(f, k) == f[0] = x /\ \A i \in 1 .. k : f[i] = step[i][f[i - 1]]
           B == {k \in 0 .. n : \A f \in [0 .. k -> S] : ~Good(f, k)}
<1>1. \A k \in B : k - 1 \in B
  <2> SUFFICES ASSUME NEW k \in 0 .. n, k \in B, k - 1 \notin B PROVE FALSE
    OBVIOUS
  <2>1. k # 0
    <3> SUFFICES ASSUME k = 0 PROVE FALSE
      OBVIOUS
    <3> DEFINE f == [i \in 0 .. 0 |-> x]
    <3>1. f \in [0 .. 0 -> S] /\ f[0] = x
      OBVIOUS
    <3> HIDE DEF f
    <3>2. Good(f, 0)
      BY <3>1
    <3> QED
      BY <3>1, <3>2
  <2>2. k \in Nat /\ k - 1 \in 0 .. n /\ k \in 1 .. n
    BY <2>1
  <2>3. PICK g \in [0 .. k - 1 -> S] : Good(g, k - 1)
    BY <2>2
  <2> DEFINE f == [i \in 0 .. k |-> IF i = k THEN step[k][g[k - 1]] ELSE g[i]]
  <2>4. step[k][g[k - 1]] \in S
    BY <2>2
  <2>5. f \in [0 .. k -> S]
    <3> SUFFICES ASSUME NEW i \in 0 .. k, i # k PROVE g[i] \in S
      BY <2>4
    <3>1. i \in 0 .. k - 1
      BY <2>2
    <3> QED
      BY <3>1
  <2>6. f[k] = step[k][g[k - 1]] /\ \A i \in 0 .. k - 1 : f[i] = g[i]
    BY <2>2
  <2> HIDE DEF f
  <2>7. f[0] = x
    BY <2>2, <2>3, <2>6
  <2>8. \A i \in 1 .. k : f[i] = step[i][f[i - 1]]
    <3> SUFFICES ASSUME NEW i \in 1 .. k PROVE f[i] = step[i][f[i - 1]]
      OBVIOUS
    <3>1. i - 1 \in 0 .. k - 1 /\ f[i - 1] = g[i - 1]
      BY <2>2, <2>6
    <3>2. CASE i = k
      BY <2>6, <3>1, <3>2
    <3>3. CASE i # k
      <4>1. i \in 1 .. k - 1 /\ i \in 0 .. k - 1
        BY <2>2, <3>3
      <4> QED
        BY <2>3, <2>6, <3>1, <4>1
    <3> QED
      BY <3>2, <3>3
  <2> QED
    BY <2>5, <2>7, <2>8
<1>2. B \subseteq Nat
  OBVIOUS
<1>3. B = {}
  <2> HIDE DEF B
  <2> QED
    BY <1>1, <1>2, NoFirst
<1>4. n \in 0 .. n /\ ~(n \in B)
  <2> HIDE DEF B
  <2> QED
    BY <1>3
<1>5. PICK f \in [0 .. n -> S] : Good(f, n)
  BY <1>4
<1> QED
  BY <1>5 DEF Iterates

=============================================================================
