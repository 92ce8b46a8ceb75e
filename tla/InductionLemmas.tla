--------------------------- MODULE InductionLemmas ---------------------------
(***************************************************************************)
(* Induction over the natural numbers, stated for a set of numbers rather  *)
(* than for a predicate, and what it shows of FlattenSeq.                  *)
(***************************************************************************)
EXTENDS Integers, SequencesExt, SequenceTheorems, WellFoundedInduction, TLAPS

\* A set of numbers that contains 0 and the successor of each of its elements
\* contains every number.
THEOREM SetInduction ==
    ASSUME NEW T, 0 \in T, \A n \in Nat : n \in T => n + 1 \in T
    PROVE  Nat \subseteq T
<1> DEFINE R == OpToRel(<, Nat)
           U == Nat \ T
<1> SUFFICES ASSUME U # {} PROVE FALSE
  OBVIOUS
<1>1. IsWellFoundedOn(R, Nat)
  BY NatLessThanWellFounded
<1>2. U \subseteq Nat
  OBVIOUS
<1>3. \E x \in U : \A y \in U : ~(<<y, x>> \in R)
  <2> HIDE DEF R, U
  <2> QED
    BY <1>1, <1>2, WFMin
<1>4. PICK x \in U : \A y \in U : ~(<<y, x>> \in R)
  BY <1>3
<1>5. x \in Nat /\ x # 0 /\ x \notin T
  OBVIOUS
<1>6. x - 1 \in Nat /\ x - 1 \in U
  BY <1>5
<1>7. <<x - 1, x>> \in R
  BY <1>5, <1>6 DEF OpToRel
<1> QED
  BY <1>4, <1>6, <1>7

\* A set of sequences that contains the empty one and, with a sequence, all that
\* are longer by one element contains every sequence.
THEOREM SequenceInduction ==
    ASSUME NEW S, NEW T, <<>> \in T,
           \A s \in Seq(S) : s \in T => \A e \in S : Append(s, e) \in T
    PROVE  Seq(S) \subseteq T
<1> DEFINE N == {n \in Nat : \A s \in Seq(S) : Len(s) = n => s \in T}
<1>1. 0 \in N
  BY EmptySeq
<1>2. ASSUME NEW n \in Nat, n \in N PROVE n + 1 \in N
  <2> SUFFICES ASSUME NEW s \in Seq(S), Len(s) = n + 1 PROVE s \in T
    BY <1>2
  <2> DEFINE front == SubSeq(s, 1, n)
             e == s[n + 1]
  <2>1. front \in Seq(S) /\ Len(front) = n /\ e \in S
    BY <1>2
  <2>2. s = Append(front, e)
    BY <1>2, <2>1
  <2>3. front \in T
    BY <1>2, <2>1
  <2> HIDE DEF front, e
  <2> QED
    BY <2>1, <2>2, <2>3
<1>3. Nat \subseteq N
  <2> HIDE DEF N
  <2> QED
    BY <1>1, <1>2, SetInduction
<1> QED
  BY <1>3

\* An element appended to the second of two sequences is appended to both.
LEMMA ConcatThenAppend ==
    ASSUME NEW A, NEW s \in Seq(A), NEW t \in Seq(A), NEW x \in A
    PROVE  s \o Append(t, x) = Append(s \o t, x)
  OBVIOUS

-----------------------------------------------------------------------------
(***************************************************************************)
(* FlattenSeq takes the last value of a recursive function on the indices. *)
(***************************************************************************)

\* f[i] joins the first i elements of s, for each i up to n.
JoinsUpTo(f, s, n) ==
    f = [i \in 1..n |-> IF i = 1 THEN s[i] ELSE f[i - 1] \o s[i]]

\* There is such a function.
LEMMA JoinExists ==
    ASSUME NEW s, NEW n \in Nat
    PROVE  \E f : JoinsUpTo(f, s, n)
<1> DEFINE T == {m \in Nat : \E f : JoinsUpTo(f, s, m)}
<1>1. 0 \in T
  <2>1. JoinsUpTo([i \in 1..0 |-> 0], s, 0)
    BY DEF JoinsUpTo
  <2> QED
    BY <2>1
<1>2. ASSUME NEW m \in Nat, m \in T PROVE m + 1 \in T
  <2>1. PICK f : JoinsUpTo(f, s, m)
    BY <1>2
  <2> DEFINE last == IF m = 0 THEN s[1] ELSE f[m] \o s[m + 1]
             g == [i \in 1..(m + 1) |-> IF i = m + 1 THEN last ELSE f[i]]
             h == [i \in 1..(m + 1) |-> IF i = 1 THEN s[i] ELSE g[i - 1] \o s[i]]
  <2>2. ASSUME NEW i \in 1..(m + 1) PROVE g[i] = h[i]
    <3>1. CASE i = m + 1
      <4>1. g[i] = last
        BY <3>1
      <4>2. CASE m = 0
        BY <3>1, <4>1, <4>2
      <4>3. CASE m # 0
        <5>1. m \in 1..(m + 1) /\ m # m + 1 /\ i # 1 /\ i - 1 = m
          BY <1>2, <3>1, <4>3
        <5>2. g[m] = f[m]
          BY <5>1
        <5>3. h[i] = g[i - 1] \o s[i]
          BY <5>1
        <5> QED
          BY <3>1, <4>1, <4>3, <5>1, <5>2, <5>3
      <4> QED
        BY <4>2, <4>3
    <3>2. CASE i # m + 1
      <4>1. i \in 1..m /\ g[i] = f[i]
        BY <1>2, <3>2
      <4>2. f[i] = IF i = 1 THEN s[i] ELSE f[i - 1] \o s[i]
        BY <2>1, <4>1 DEF JoinsUpTo
      <4>3. i # 1 => i - 1 \in 1..(m + 1) /\ i - 1 # m + 1
        BY <1>2, <4>1
      <4>4. i # 1 => g[i - 1] = f[i - 1]
        BY <4>3
      <4> QED
        BY <4>1, <4>2, <4>4
    <3> QED
      BY <3>1, <3>2
  <2>3. g = h
    BY <2>2
  <2>4. JoinsUpTo(g, s, m + 1)
    BY <2>3 DEF JoinsUpTo
  <2> QED
    BY <1>2, <2>4
<1>3. Nat \subseteq T
  <2> HIDE DEF T
  <2> QED
    BY <1>1, <1>2, SetInduction
<1> QED
  BY <1>3

\* It depends on the first n elements only, and its values are determined.
LEMMA JoinUnique ==
    ASSUME NEW s, NEW t, NEW f, NEW g, NEW m \in Nat, NEW n \in Nat, m <= n,
           JoinsUpTo(f, s, m), JoinsUpTo(g, t, n), \A i \in 1..m : s[i] = t[i]
    PROVE  \A i \in 1..m : f[i] = g[i]
<1> DEFINE T == {i \in Nat : i \in 1..m => f[i] = g[i]}
<1>1. 0 \in T
  OBVIOUS
<1>2. ASSUME NEW i \in Nat, i \in T PROVE i + 1 \in T
  <2> SUFFICES ASSUME i + 1 \in 1..m PROVE f[i + 1] = g[i + 1]
    OBVIOUS
  <2> DEFINE k == i + 1
  <2>1. k \in 1..m /\ k \in 1..n /\ k - 1 = i
    OBVIOUS
  <2>2. f[k] = IF k = 1 THEN s[k] ELSE f[k - 1] \o s[k]
    BY <2>1 DEF JoinsUpTo
  <2>3. g[k] = IF k = 1 THEN t[k] ELSE g[k - 1] \o t[k]
    BY <2>1 DEF JoinsUpTo
  <2>4. k # 1 => f[i] = g[i]
    BY <1>2, <2>1
  <2>5. s[k] = t[k]
    BY <2>1
  <2> HIDE DEF k
  <2>6. f[k] = g[k]
    BY <2>1, <2>2, <2>3, <2>4, <2>5
  <2> QED
    BY <2>6 DEF k
<1>3. Nat \subseteq T
  <2> HIDE DEF T
  <2> QED
    BY <1>1, <1>2, SetInduction
<1> QED
  BY <1>3

\* FlattenSeq is its last value.
LEMMA FlattenIsJoin ==
    ASSUME NEW s, Len(s) \in Nat \ {0}
    PROVE  \E f : JoinsUpTo(f, s, Len(s)) /\ FlattenSeq(s) = f[Len(s)]
<1> DEFINE f == CHOOSE g : JoinsUpTo(g, s, Len(s))
<1>1. JoinsUpTo(f, s, Len(s))
  BY JoinExists
<1>2. FlattenSeq(s) = f[Len(s)]
  BY DEF FlattenSeq, JoinsUpTo
<1> QED
  BY <1>1, <1>2

\* The empty sequence.
THEOREM FlattenEmpty == FlattenSeq(<<>>) = <<>>
  BY DEF FlattenSeq

\* A sequence of sequences is flattened to a sequence.
THEOREM FlattenType ==
    ASSUME NEW A, NEW s \in Seq(Seq(A))
    PROVE  FlattenSeq(s) \in Seq(A)
<1>1. CASE Len(s) = 0
  <2>1. s = <<>>
    BY <1>1
  <2>2. <<>> \in Seq(A)
    OBVIOUS
  <2> QED
    BY <2>1, <2>2, FlattenEmpty, Zenon
<1>2. CASE Len(s) # 0
  <2> DEFINE n == Len(s)
  <2>1. n \in Nat \ {0}
    BY <1>2
  <2>2. PICK f : JoinsUpTo(f, s, n) /\ FlattenSeq(s) = f[n]
    BY <2>1, FlattenIsJoin
  <2> DEFINE T == {i \in Nat : i \in 1..n => f[i] \in Seq(A)}
  <2>3. 0 \in T
    OBVIOUS
  <2>4. ASSUME NEW i \in Nat, i \in T PROVE i + 1 \in T
    <3> SUFFICES ASSUME i + 1 \in 1..n PROVE f[i + 1] \in Seq(A)
      OBVIOUS
    <3> DEFINE k == i + 1
    <3>1. k \in 1..n /\ k - 1 = i /\ s[k] \in Seq(A)
      OBVIOUS
    <3>2. f[k] = IF k = 1 THEN s[k] ELSE f[k - 1] \o s[k]
      <4>1. JoinsUpTo(f, s, n)
        BY <2>2
      <4> HIDE DEF n, k
      <4> QED
        BY <3>1, <4>1 DEF JoinsUpTo
    <3>3. k # 1 => f[i] \in Seq(A)
      BY <2>4, <2>1
    <3> HIDE DEF k
    <3>4. f[k] \in Seq(A)
      BY <3>1, <3>2, <3>3
    <3> QED
      BY <3>4 DEF k
  <2>5. Nat \subseteq T
    <3> HIDE DEF T
    <3> QED
      BY <2>3, <2>4, SetInduction
  <2> QED
    BY <2>1, <2>2, <2>5
<1> QED
  BY <1>1, <1>2

\* One more element at the end, where there are others, is joined at the end.
LEMMA FlattenLonger ==
    ASSUME NEW s, NEW t, NEW n \in Nat \ {0}, NEW k \in Nat, k = n + 1,
           Len(s) = n, Len(t) = k, \A i \in 1..n : s[i] = t[i]
    PROVE  FlattenSeq(t) = FlattenSeq(s) \o t[k]
<1>1. PICK f : JoinsUpTo(f, s, n) /\ FlattenSeq(s) = f[n]
  BY FlattenIsJoin
<1>2. PICK g : JoinsUpTo(g, t, k) /\ FlattenSeq(t) = g[k]
  BY FlattenIsJoin
<1>3. n <= k /\ n \in Nat
  OBVIOUS
<1>4. \A i \in 1..n : f[i] = g[i]
  BY <1>1, <1>2, <1>3, JoinUnique
<1>5. n \in 1..n /\ k \in 1..k /\ k # 1 /\ k - 1 = n
  OBVIOUS
<1>6. g[k] = g[n] \o t[k]
  BY <1>2, <1>5 DEF JoinsUpTo
<1> QED
  BY <1>1, <1>2, <1>4, <1>5, <1>6, Zenon

\* One element alone is what it is flattened to.
LEMMA FlattenSingle ==
    ASSUME NEW x
    PROVE  FlattenSeq(<<x>>) = x
<1> DEFINE t == <<x>>
<1>1. Len(t) = 1 /\ t[1] = x
  OBVIOUS
<1> HIDE DEF t
<1>2. PICK g : JoinsUpTo(g, t, 1) /\ FlattenSeq(t) = g[1]
  BY <1>1, FlattenIsJoin
<1>3. g[1] = x
  BY <1>1, <1>2 DEF JoinsUpTo
<1> QED
  BY <1>2, <1>3 DEF t

\* One more element at the end is joined at the end.
THEOREM FlattenAppend ==
    ASSUME NEW A, NEW s \in Seq(Seq(A)), NEW x \in Seq(A)
    PROVE  FlattenSeq(Append(s, x)) = FlattenSeq(s) \o x
<1>1. CASE s = <<>>
  <2>1. Append(<<>>, x) = <<x>> /\ <<>> \o x = x
    OBVIOUS
  <2> QED
    BY <1>1, <2>1, FlattenEmpty, FlattenSingle, Zenon
<1>2. CASE s # <<>>
  <2> DEFINE t == Append(s, x)
             n == Len(s)
             k == Len(s) + 1
  <2>1. n \in Nat \ {0}
    BY <1>2
  <2>2. k \in Nat /\ k = n + 1 /\ Len(t) = k /\ t[k] = x
    OBVIOUS
  <2>3. \A i \in 1..n : s[i] = t[i]
    OBVIOUS
  <2>4. Len(s) = n
    OBVIOUS
  <2> HIDE DEF t, n, k
  <2>5. FlattenSeq(t) = FlattenSeq(s) \o t[k]
    BY <2>1, <2>2, <2>3, <2>4, FlattenLonger
  <2> QED
    BY <2>2, <2>5, Zenon DEF t
<1> QED
  BY <1>1, <1>2

-----------------------------------------------------------------------------
(***************************************************************************)
(* A sequence is often flattened after each element is mapped to a         *)
(* sequence; g is the map, as a function on the elements.                  *)
(***************************************************************************)
Mapped(g, s) == [k \in DOMAIN s |-> g[s[k]]]

FlatMap(g, s) == FlattenSeq(Mapped(g, s))

\* Mapping is done element by element.
LEMMA MappedType ==
    ASSUME NEW S, NEW B, NEW g \in [S -> B], NEW s \in Seq(S)
    PROVE  Mapped(g, s) \in Seq(B)
<1>1. \A k \in 1..Len(s) : s[k] \in S /\ g[s[k]] \in B
  OBVIOUS
<1>2. Mapped(g, s) \in [1..Len(s) -> B]
  BY <1>1 DEF Mapped
<1> QED
  BY <1>2

\* Mapping keeps the length.
LEMMA MappedLen ==
    ASSUME NEW g, NEW S, NEW s \in Seq(S)
    PROVE  Len(Mapped(g, s)) = Len(s)
  BY DEF Mapped

\* Mapping one element.
LEMMA MappedSingle ==
    ASSUME NEW g, NEW x
    PROVE  Mapped(g, <<x>>) = <<g[x]>>
  BY DEF Mapped

\* Two sequences put together are mapped one after the other.
MapsInTurn(g, S) ==
    \A s, t \in Seq(S) : Mapped(g, s \o t) = Mapped(g, s) \o Mapped(g, t)

\* Every map does so.
LEMMA MappedConcat ==
    ASSUME NEW S, NEW B, NEW g \in [S -> B]
    PROVE  MapsInTurn(g, S)
<1> SUFFICES ASSUME NEW s \in Seq(S), NEW t \in Seq(S)
             PROVE  Mapped(g, s \o t) = Mapped(g, s) \o Mapped(g, t)
  BY DEF MapsInTurn
<1> DEFINE u == Mapped(g, s)
           v == Mapped(g, t)
           w == Mapped(g, s \o t)
<1>1. /\ s \o t \in Seq(S) /\ Len(s \o t) = Len(s) + Len(t)
      /\ \A i \in 1..(Len(s) + Len(t)) : (s \o t)[i] = IF i <= Len(s) THEN s[i] ELSE t[i - Len(s)]
  OBVIOUS
<1>2. /\ u \in Seq(B) /\ Len(u) = Len(s) /\ \A i \in 1..Len(s) : u[i] = g[s[i]]
      /\ v \in Seq(B) /\ Len(v) = Len(t) /\ \A i \in 1..Len(t) : v[i] = g[t[i]]
  BY MappedType, MappedLen DEF Mapped
<1>3. w \in Seq(B) /\ Len(w) = Len(s) + Len(t)
  BY <1>1, MappedType, MappedLen
<1>4. \A i \in 1..(Len(s) + Len(t)) : w[i] = g[(s \o t)[i]]
  BY <1>1 DEF Mapped
<1> HIDE DEF u, v, w
<1>5. /\ u \o v \in Seq(B) /\ Len(u \o v) = Len(s) + Len(t)
      /\ \A i \in 1..(Len(s) + Len(t)) : (u \o v)[i] = IF i <= Len(s) THEN u[i] ELSE v[i - Len(s)]
  <2>1. /\ u \o v \in Seq(B) /\ Len(u \o v) = Len(u) + Len(v)
        /\ \A i \in 1..(Len(u) + Len(v)) : (u \o v)[i] = IF i <= Len(u) THEN u[i] ELSE v[i - Len(u)]
    BY <1>2, ConcatProperties, Zenon
  <2> QED
    BY <1>2, <2>1
<1>6. ASSUME NEW i \in 1..(Len(s) + Len(t))
      PROVE  w[i] = (u \o v)[i]
  <2>1. CASE i <= Len(s)
    BY <1>1, <1>2, <1>4, <1>5, <2>1
  <2>2. CASE ~(i <= Len(s))
    <3>1. i - Len(s) \in 1..Len(t)
      BY <2>2
    <3> QED
      BY <1>1, <1>2, <1>4, <1>5, <2>2, <3>1
  <2> QED
    BY <2>1, <2>2
<1>7. w = u \o v
  BY <1>3, <1>5, <1>6
<1> QED
  BY <1>7 DEF u, v, w

\* An element appended is mapped last.
LEMMA MappedAppend ==
    ASSUME NEW S, NEW B, NEW g \in [S -> B], NEW s \in Seq(S), NEW x \in S
    PROVE  Mapped(g, Append(s, x)) = Append(Mapped(g, s), g[x])
<1>3. Mapped(g, s) \in Seq(B) /\ Len(Mapped(g, s)) = Len(s)
  BY MappedType, MappedLen
<1> DEFINE t == Append(s, x)
           a == Mapped(g, t)
           b == Append(Mapped(g, s), g[x])
<1>1. t \in Seq(S) /\ Len(t) = Len(s) + 1 /\ g[x] \in B
  OBVIOUS
<1>2. a \in Seq(B) /\ Len(a) = Len(s) + 1
  <2>1. a \in Seq(B) /\ Len(a) = Len(t)
    <3> HIDE DEF t
    <3> QED
      BY <1>1, MappedType, MappedLen
  <2> QED
    BY <1>1, <2>1, Zenon
<1>4. b \in Seq(B) /\ Len(b) = Len(s) + 1
  BY <1>1, <1>3
<1>5. ASSUME NEW k \in 1..(Len(s) + 1) PROVE a[k] = b[k]
  <2>1. a[k] = g[t[k]]
    BY <1>1 DEF Mapped
  <2>2. CASE k = Len(s) + 1
    <3>1. t[k] = x /\ b[k] = g[x]
      BY <1>3, <2>2
    <3> QED
      BY <2>1, <3>1
  <2>3. CASE k # Len(s) + 1
    <3>1. k \in 1..Len(s)
      BY <2>3
    <3>2. t[k] = s[k] /\ b[k] = Mapped(g, s)[k]
      BY <1>3, <3>1
    <3>3. Mapped(g, s)[k] = g[s[k]]
      BY <3>1 DEF Mapped
    <3> QED
      BY <2>1, <3>2, <3>3
  <2> QED
    BY <2>2, <2>3
<1> HIDE DEF a, b
<1>6. a = b
  BY <1>2, <1>4, <1>5, SeqEqual
<1> QED
  BY <1>6 DEF a, b

\* Nothing, mapped and flattened, is nothing.
THEOREM FlatMapEmpty ==
    ASSUME NEW g
    PROVE  FlatMap(g, <<>>) = <<>>
<1>1. Mapped(g, <<>>) = <<>>
  BY DEF Mapped
<1> QED
  BY <1>1, FlattenEmpty, Zenon DEF FlatMap

\* A flattened map is a sequence over what its values are made of.
THEOREM FlatMapType ==
    ASSUME NEW S, NEW A, NEW g \in [S -> Seq(A)], NEW s \in Seq(S)
    PROVE  FlatMap(g, s) \in Seq(A)
  BY MappedType, FlattenType DEF FlatMap

\* An element appended adds its value at the end: what a loop over a sequence
\* that appends to its result computes, a step at a time.
THEOREM FlatMapAppend ==
    ASSUME NEW S, NEW A, NEW g \in [S -> Seq(A)], NEW s \in Seq(S), NEW x \in S
    PROVE  FlatMap(g, Append(s, x)) = FlatMap(g, s) \o g[x]
<1>1. Mapped(g, s) \in Seq(Seq(A)) /\ g[x] \in Seq(A)
  BY MappedType
<1>2. Mapped(g, Append(s, x)) = Append(Mapped(g, s), g[x])
  BY MappedAppend
<1> QED
  BY <1>1, <1>2, FlattenAppend DEF FlatMap

\* The first element's value comes first, then that of the rest: what is left of
\* a queue when its head has been taken out.
THEOREM FlatMapHead ==
    ASSUME NEW S, NEW A, NEW g \in [S -> Seq(A)], NEW s \in Seq(S), s # <<>>
    PROVE  FlatMap(g, s) = g[Head(s)] \o FlatMap(g, Tail(s))
<1>0. PICK x \in S : x = Head(s) /\ Tail(s) \in Seq(S) /\ s = <<x>> \o Tail(s)
  OBVIOUS
<1> DEFINE T == {u \in Seq(S) : FlatMap(g, <<x>> \o u) = g[x] \o FlatMap(g, u)}
<1>1. <<>> \in T
  <2>1. <<x>> \o <<>> = Append(<<>>, x) /\ <<>> \in Seq(S) /\ g[x] \in Seq(A)
    OBVIOUS
  <2>2. FlatMap(g, Append(<<>>, x)) = FlatMap(g, <<>>) \o g[x]
    BY <2>1, FlatMapAppend
  <2>3. <<>> \o g[x] = g[x] \o <<>>
    BY <2>1
  <2> QED
    BY <2>1, <2>2, <2>3, FlatMapEmpty, Zenon
<1>2. ASSUME NEW u \in Seq(S), u \in T, NEW y \in S PROVE Append(u, y) \in T
  <2>1. <<x>> \o Append(u, y) = Append(<<x>> \o u, y) /\ <<x>> \o u \in Seq(S)
        /\ Append(u, y) \in Seq(S)
    OBVIOUS
  <2>2. FlatMap(g, Append(<<x>> \o u, y)) = FlatMap(g, <<x>> \o u) \o g[y]
    BY <2>1, FlatMapAppend
  <2>3. FlatMap(g, Append(u, y)) = FlatMap(g, u) \o g[y]
    BY FlatMapAppend
  <2>4. FlatMap(g, u) \in Seq(A) /\ g[x] \in Seq(A) /\ g[y] \in Seq(A)
    BY FlatMapType
  <2>5. (g[x] \o FlatMap(g, u)) \o g[y] = g[x] \o (FlatMap(g, u) \o g[y])
    <3>1. PICK a \in Seq(A), b \in Seq(A), c \in Seq(A) : a = g[x] /\ b = FlatMap(g, u) /\ c = g[y]
      BY <2>4, Zenon
    <3>2. (a \o b) \o c = a \o (b \o c)
      OBVIOUS
    <3> QED
      BY <3>1, <3>2, Zenon
  <2>6. FlatMap(g, <<x>> \o u) = g[x] \o FlatMap(g, u)
    BY <1>2
  <2> QED
    BY <2>1, <2>2, <2>3, <2>5, <2>6, Zenon
<1>3. Seq(S) \subseteq T
  <2> HIDE DEF T
  <2> QED
    BY <1>1, <1>2, SequenceInduction
<1>4. FlatMap(g, <<x>> \o Tail(s)) = g[x] \o FlatMap(g, Tail(s))
  BY <1>0, <1>3
<1> QED
  BY <1>0, <1>4, Zenon

\* Joined sequences give what each of them gives.
Distributes(g, S) ==
    \A s, t \in Seq(S) : FlatMap(g, s \o t) = FlatMap(g, s) \o FlatMap(g, t)

\* So it is for every map to sequences.
THEOREM FlatMapConcat ==
    ASSUME NEW S, NEW A, NEW g \in [S -> Seq(A)]
    PROVE  Distributes(g, S)
<1> SUFFICES ASSUME NEW s \in Seq(S), NEW t \in Seq(S)
             PROVE  FlatMap(g, s \o t) = FlatMap(g, s) \o FlatMap(g, t)
  BY DEF Distributes
<1> DEFINE T == {u \in Seq(S) : FlatMap(g, s \o u) = FlatMap(g, s) \o FlatMap(g, u)}
<1>1. <<>> \in T
  <2>1. s \o <<>> = s /\ <<>> \in Seq(S)
    OBVIOUS
  <2>2. FlatMap(g, s) \in Seq(A)
    BY FlatMapType
  <2>3. FlatMap(g, s) \o <<>> = FlatMap(g, s)
    BY <2>2
  <2> QED
    BY <2>1, <2>3, FlatMapEmpty, Zenon
<1>2. ASSUME NEW u \in Seq(S), u \in T, NEW y \in S PROVE Append(u, y) \in T
  <2>1. s \o Append(u, y) = Append(s \o u, y) /\ s \o u \in Seq(S) /\ Append(u, y) \in Seq(S)
    OBVIOUS
  <2>2. FlatMap(g, Append(s \o u, y)) = FlatMap(g, s \o u) \o g[y]
    BY <2>1, FlatMapAppend
  <2>3. FlatMap(g, Append(u, y)) = FlatMap(g, u) \o g[y]
    BY FlatMapAppend
  <2>4. FlatMap(g, u) \in Seq(A) /\ FlatMap(g, s) \in Seq(A) /\ g[y] \in Seq(A)
    BY FlatMapType
  <2>5. (FlatMap(g, s) \o FlatMap(g, u)) \o g[y] = FlatMap(g, s) \o (FlatMap(g, u) \o g[y])
    <3>1. ASSUME NEW a \in Seq(A), NEW b \in Seq(A), NEW c \in Seq(A)
          PROVE  (a \o b) \o c = a \o (b \o c)
      <4> HIDE DEF T
      <4> QED
        OBVIOUS
    <3> QED
      BY <2>4, <3>1, Zenon
  <2>6. FlatMap(g, s \o u) = FlatMap(g, s) \o FlatMap(g, u)
    BY <1>2
  <2> QED
    BY <2>1, <2>2, <2>3, <2>5, <2>6, Zenon
<1>3. Seq(S) \subseteq T
  <2> HIDE DEF T
  <2> QED
    BY <1>1, <1>2, SequenceInduction
<1> QED
  BY <1>3

\* One element alone gives its value.
LEMMA FlatMapSingle ==
    ASSUME NEW S, NEW A, NEW g \in [S -> Seq(A)], NEW x \in S
    PROVE  FlatMap(g, <<x>>) = g[x]
<1>1. <<x>> = Append(<<>>, x) /\ <<>> \in Seq(S) /\ g[x] \in Seq(A)
  OBVIOUS
<1>2. FlatMap(g, Append(<<>>, x)) = FlatMap(g, <<>>) \o g[x]
  BY <1>1, FlatMapAppend
<1>3. <<>> \o g[x] = g[x]
  BY <1>1
<1> QED
  BY <1>1, <1>2, <1>3, FlatMapEmpty, Zenon

\* Two maps one after the other are one: k gives what h makes of g's values.
Composes(k, h, g, S) ==
    \A s \in Seq(S) : FlatMap(h, FlatMap(g, s)) = FlatMap(k, s)

\* It is enough that k does so for each element.
THEOREM FlatMapCompose ==
    ASSUME NEW S, NEW B, NEW A, NEW g \in [S -> Seq(B)], NEW h \in [B -> Seq(A)],
           NEW k \in [S -> Seq(A)], \A x \in S : k[x] = FlatMap(h, g[x])
    PROVE  Composes(k, h, g, S)
<1> SUFFICES ASSUME NEW s \in Seq(S)
             PROVE  FlatMap(h, FlatMap(g, s)) = FlatMap(k, s)
  BY DEF Composes
<1> DEFINE T == {u \in Seq(S) : FlatMap(h, FlatMap(g, u)) = FlatMap(k, u)}
<1>1. <<>> \in T
  <2>1. <<>> \in Seq(S)
    OBVIOUS
  <2>2. FlatMap(g, <<>>) = <<>> /\ FlatMap(h, <<>>) = <<>> /\ FlatMap(k, <<>>) = <<>>
    BY FlatMapEmpty
  <2>3. FlatMap(h, FlatMap(g, <<>>)) = FlatMap(k, <<>>)
    BY <2>2, Zenon
  <2> QED
    BY <2>1, <2>3
<1>2. ASSUME NEW u \in Seq(S), u \in T, NEW y \in S PROVE Append(u, y) \in T
  <2>1. FlatMap(g, Append(u, y)) = FlatMap(g, u) \o g[y]
    BY FlatMapAppend
  <2>2. FlatMap(k, Append(u, y)) = FlatMap(k, u) \o k[y]
    BY FlatMapAppend
  <2>3. FlatMap(g, u) \in Seq(B) /\ g[y] \in Seq(B)
    BY FlatMapType
  <2>4. FlatMap(h, FlatMap(g, u) \o g[y]) = FlatMap(h, FlatMap(g, u)) \o FlatMap(h, g[y])
    <3>1. Distributes(h, B)
      BY FlatMapConcat
    <3> QED
      BY <2>3, <3>1, Zenon DEF Distributes
  <2>5. k[y] = FlatMap(h, g[y])
    OBVIOUS
  <2>6. FlatMap(h, FlatMap(g, u)) = FlatMap(k, u)
    BY <1>2
  <2>7. FlatMap(h, FlatMap(g, Append(u, y))) = FlatMap(k, Append(u, y))
    BY <2>1, <2>2, <2>3, <2>4, <2>5, <2>6, Zenon
  <2>8. Append(u, y) \in Seq(S)
    OBVIOUS
  <2> QED
    BY <2>7, <2>8
<1>3. Seq(S) \subseteq T
  <2> HIDE DEF T
  <2> QED
    BY <1>1, <1>2, SequenceInduction
<1> QED
  BY <1>3

\* A map that gives nothing for any element gives nothing.
THEOREM FlatMapNothing ==
    ASSUME NEW S, NEW g, NEW s \in Seq(S), \A x \in S : g[x] = <<>>
    PROVE  FlatMap(g, s) = <<>>
<1> DEFINE none == [x \in S |-> <<>>]
           T == {u \in Seq(S) : FlatMap(none, u) = <<>>}
<1>1. none \in [S -> Seq({})] /\ \A x \in S : none[x] = <<>>
  BY EmptySeq
<1>2. <<>> \in T
  BY FlatMapEmpty, EmptySeq
<1>3. ASSUME NEW u \in Seq(S), u \in T, NEW y \in S PROVE Append(u, y) \in T
  <2>1. FlatMap(none, Append(u, y)) = FlatMap(none, u) \o none[y]
    <3> HIDE DEF none, T
    <3> QED
      BY <1>1, FlatMapAppend
  <2>2. <<>> \o <<>> = <<>> /\ Append(u, y) \in Seq(S) /\ FlatMap(none, u) = <<>>
    BY <1>3
  <2> QED
    BY <1>1, <2>1, <2>2, Zenon
<1>4. Seq(S) \subseteq T
  <2> HIDE DEF T, none
  <2> QED
    BY <1>2, <1>3, SequenceInduction
<1>5. Mapped(g, s) = Mapped(none, s)
  <2>1. \A k \in DOMAIN s : s[k] \in S
    OBVIOUS
  <2> QED
    BY <2>1 DEF Mapped
<1> QED
  BY <1>4, <1>5 DEF FlatMap

\* What a map gives for a sequence depends on its values there alone.
LEMMA FlatMapSame ==
    ASSUME NEW S, NEW g, NEW h, NEW s \in Seq(S), \A x \in S : g[x] = h[x]
    PROVE  FlatMap(g, s) = FlatMap(h, s)
<1>1. \A k \in DOMAIN s : s[k] \in S
  OBVIOUS
<1>2. Mapped(g, s) = Mapped(h, s)
  BY <1>1 DEF Mapped
<1> QED
  BY <1>2 DEF FlatMap

\* A map that gives each element alone gives the sequence.
THEOREM FlatMapIdentity ==
    ASSUME NEW S, NEW g, NEW s \in Seq(S), \A x \in S : g[x] = <<x>>
    PROVE  FlatMap(g, s) = s
<1> DEFINE one == [x \in S |-> <<x>>]
           T == {u \in Seq(S) : FlatMap(one, u) = u}
<1>1. one \in [S -> Seq(S)] /\ \A x \in S : one[x] = <<x>>
  OBVIOUS
<1>2. <<>> \in T
  BY FlatMapEmpty, EmptySeq
<1>3. ASSUME NEW u \in Seq(S), u \in T, NEW y \in S PROVE Append(u, y) \in T
  <2>1. FlatMap(one, Append(u, y)) = FlatMap(one, u) \o one[y]
    <3>1. one \in [S -> Seq(S)]
      BY <1>1
    <3> HIDE DEF one, T
    <3> QED
      BY <3>1, FlatMapAppend, Zenon
  <2>2. u \o <<y>> = Append(u, y) /\ Append(u, y) \in Seq(S) /\ FlatMap(one, u) = u
    BY <1>3
  <2> QED
    BY <1>1, <2>1, <2>2, Zenon
<1>4. Seq(S) \subseteq T
  <2> HIDE DEF T, one
  <2> QED
    BY <1>2, <1>3, SequenceInduction
<1>5. Mapped(g, s) = Mapped(one, s)
  <2>1. \A k \in DOMAIN s : s[k] \in S
    OBVIOUS
  <2> QED
    BY <2>1 DEF Mapped
<1> QED
  BY <1>4, <1>5 DEF FlatMap

\* A map that gives a single value for each element gives those values.
THEOREM FlatMapValues ==
    ASSUME NEW S, NEW f, NEW g, NEW s \in Seq(S), \A x \in S : g[x] = <<f[x]>>
    PROVE  FlatMap(g, s) = Mapped(f, s)
<1> DEFINE B == {f[x] : x \in S}
           val == [x \in S |-> f[x]]
           one == [x \in S |-> <<val[x]>>]
           T == {u \in Seq(S) : FlatMap(one, u) = Mapped(val, u)}
<1>1. /\ val \in [S -> B] /\ \A x \in S : val[x] = f[x]
      /\ one \in [S -> Seq(B)] /\ \A x \in S : one[x] = <<val[x]>>
  OBVIOUS
<1>2. <<>> \in T
  <2>1. Mapped(val, <<>>) = <<>>
    BY DEF Mapped
  <2> QED
    BY <2>1, FlatMapEmpty, EmptySeq
<1>3. ASSUME NEW u \in Seq(S), u \in T, NEW y \in S PROVE Append(u, y) \in T
  <2>1. FlatMap(one, Append(u, y)) = FlatMap(one, u) \o one[y]
    <3>1. one \in [S -> Seq(B)]
      BY <1>1
    <3> HIDE DEF one, T
    <3> QED
      BY <3>1, FlatMapAppend, Zenon
  <2>2. Mapped(val, Append(u, y)) = Append(Mapped(val, u), val[y])
    <3>1. val \in [S -> B]
      BY <1>1
    <3> HIDE DEF val, B
    <3> QED
      BY <3>1, MappedAppend
  <2>3. Mapped(val, u) \in Seq(B) /\ val[y] \in B
    <3>1. val \in [S -> B]
      BY <1>1
    <3> HIDE DEF val, B
    <3> QED
      BY <3>1, MappedType
  <2>4. Mapped(val, u) \o <<val[y]>> = Append(Mapped(val, u), val[y])
    BY <2>3
  <2>5. FlatMap(one, u) = Mapped(val, u) /\ Append(u, y) \in Seq(S)
    BY <1>3
  <2> QED
    BY <1>1, <2>1, <2>2, <2>4, <2>5, Zenon
<1>4. Seq(S) \subseteq T
  <2> HIDE DEF T, one
  <2> QED
    BY <1>2, <1>3, SequenceInduction
<1>5. Mapped(g, s) = Mapped(one, s)
  <2>1. \A k \in DOMAIN s : s[k] \in S
    OBVIOUS
  <2> QED
    BY <2>1 DEF Mapped
<1>6. Mapped(val, s) = Mapped(f, s)
  <2>1. \A k \in DOMAIN s : s[k] \in S
    OBVIOUS
  <2> QED
    BY <2>1 DEF Mapped
<1>7. FlatMap(one, s) = Mapped(val, s)
  BY <1>4
<1> QED
  BY <1>5, <1>6, <1>7 DEF FlatMap

-----------------------------------------------------------------------------
(***************************************************************************)
(* The largest number of a set.                                            *)
(***************************************************************************)

\* A set of numbers with a bound, if it is not empty, has a largest one.
THEOREM MaxInBounds ==
    ASSUME NEW n \in Nat, NEW S \in SUBSET (1..n), S # {}
    PROVE  Max(S) \in S /\ \A y \in S : Max(S) >= y
<1> DEFINE T == {m \in Nat : \A U \in SUBSET (1..m) :
                    U # {} => \E x \in U : \A y \in U : x >= y}
<1>1. 0 \in T
  <2>1. 1..0 = {}
    OBVIOUS
  <2> QED
    BY <2>1
<1>2. ASSUME NEW m \in Nat, m \in T PROVE m + 1 \in T
  <2> SUFFICES ASSUME NEW U \in SUBSET (1..(m + 1)), U # {}
               PROVE  \E x \in U : \A y \in U : x >= y
    OBVIOUS
  <2>1. CASE m + 1 \in U
    <3>1. \A y \in U : m + 1 >= y
      OBVIOUS
    <3> QED
      BY <2>1, <3>1
  <2>2. CASE m + 1 \notin U
    <3>1. U \in SUBSET (1..m)
      BY <2>2
    <3> QED
      BY <1>2, <3>1
  <2> QED
    BY <2>1, <2>2
<1>3. Nat \subseteq T
  <2> HIDE DEF T
  <2> QED
    BY <1>1, <1>2, SetInduction
<1>4. \E x \in S : \A y \in S : x >= y
  BY <1>3
<1> QED
  BY <1>4 DEF Max

-----------------------------------------------------------------------------
(***************************************************************************)
(* Increasing sequences of numbers.                                        *)
(***************************************************************************)

\* The numbers from f[1] to f[n] increase.
Increasing(f, n) == \A i, j \in 1..n : i < j => f[i] < f[j]

\* Every one of them is among those from g[1] to g[m].
Covered(f, n, g, m) == \A i \in 1..n : \E j \in 1..m : f[i] = g[j]

\* The first k are the same.
Agree(f, n, g, m, k) == \A i \in 1..k : i \in 1..n /\ i \in 1..m /\ f[i] = g[i]

\* If two increasing sequences have the same values and agree up to k, and the
\* first goes on, then the second does, with the same value.
LEMMA IncreasingNext ==
    ASSUME NEW n \in Nat, NEW m \in Nat, NEW f \in [1..n -> Int], NEW g \in [1..m -> Int],
           Increasing(f, n), Increasing(g, m), Covered(f, n, g, m), Covered(g, m, f, n),
           NEW k \in Nat, Agree(f, n, g, m, k), k + 1 \in 1..n
    PROVE  k + 1 \in 1..m /\ f[k + 1] = g[k + 1]
<1>1. PICK j \in 1..m : f[k + 1] = g[j]
  BY DEF Covered
<1>2. ~(j <= k)
  <2> SUFFICES ASSUME j <= k PROVE FALSE
    OBVIOUS
  <2>1. j \in 1..k /\ j < k + 1
    OBVIOUS
  <2>2. j \in 1..n /\ f[j] = g[j]
    BY <2>1 DEF Agree
  <2>3. f[j] < f[k + 1]
    BY <2>1, <2>2 DEF Increasing
  <2> QED
    BY <1>1, <2>2, <2>3
<1>3. k + 1 \in 1..m /\ k + 1 <= j
  BY <1>2
<1>4. PICK i \in 1..n : g[k + 1] = f[i]
  BY <1>3 DEF Covered
<1>5. ~(i <= k)
  <2> SUFFICES ASSUME i <= k PROVE FALSE
    OBVIOUS
  <2>1. i \in 1..k /\ i < k + 1
    OBVIOUS
  <2>2. i \in 1..m /\ f[i] = g[i]
    BY <2>1 DEF Agree
  <2>3. g[i] < g[k + 1]
    BY <1>3, <2>1, <2>2 DEF Increasing
  <2> QED
    BY <1>4, <2>2, <2>3
<1>6. f[k + 1] <= f[i]
  <2>1. k + 1 < i \/ k + 1 = i
    BY <1>5
  <2> QED
    BY <2>1 DEF Increasing
<1>7. g[k + 1] <= g[j]
  <2>1. k + 1 < j \/ k + 1 = j
    BY <1>3
  <2> QED
    BY <1>3, <2>1 DEF Increasing
<1>8. f[k + 1] \in Int /\ g[k + 1] \in Int
  BY <1>3
<1> QED
  BY <1>1, <1>3, <1>4, <1>6, <1>7, <1>8

\* Increasing sequences with the same values are the same.
THEOREM IncreasingUnique ==
    ASSUME NEW n \in Nat, NEW m \in Nat, NEW f \in [1..n -> Int], NEW g \in [1..m -> Int],
           Increasing(f, n), Increasing(g, m), Covered(f, n, g, m), Covered(g, m, f, n)
    PROVE  n = m /\ \A i \in 1..n : f[i] = g[i]
<1> DEFINE T == {k \in Nat : k <= n \/ k <= m => Agree(f, n, g, m, k)}
<1>1. 0 \in T
  BY DEF Agree
<1>2. ASSUME NEW k \in Nat, k \in T
      PROVE  k + 1 \in T
  <2> SUFFICES ASSUME k + 1 <= n \/ k + 1 <= m
               PROVE  Agree(f, n, g, m, k + 1)
    OBVIOUS
  <2>1. Agree(f, n, g, m, k) /\ Agree(g, m, f, n, k)
    <3>1. Agree(f, n, g, m, k)
      BY <1>2
    <3> QED
      BY <3>1 DEF Agree
  <2>2. k + 1 \in 1..n /\ k + 1 \in 1..m /\ f[k + 1] = g[k + 1]
    <3>1. CASE k + 1 \in 1..n
      BY <2>1, <3>1, IncreasingNext
    <3>2. CASE k + 1 \in 1..m
      BY <2>1, <3>2, IncreasingNext
    <3> QED
      BY <3>1, <3>2
  <2>3. \A i \in 1..(k + 1) : i \in 1..k \/ i = k + 1
    OBVIOUS
  <2> QED
    BY <2>1, <2>2, <2>3 DEF Agree
<1> HIDE DEF T
<1>3. Nat \subseteq T
  BY <1>1, <1>2, SetInduction
<1>4. Agree(f, n, g, m, n) /\ Agree(f, n, g, m, m)
  BY <1>3 DEF T
<1>5. n = m
  BY <1>4 DEF Agree
<1> QED
  BY <1>4, <1>5 DEF Agree

-----------------------------------------------------------------------------
(***************************************************************************)
(* One that is not empty.                                                  *)
(***************************************************************************)

\* All but s[i] are empty.
Only(s, i) == \A j \in DOMAIN s : j # i => s[j] = <<>>

\* Joined sequences give nothing if and only if all are empty; if only one is
\* not, they give that one.
THEOREM FlattenOnly ==
    ASSUME NEW A, NEW s \in Seq(Seq(A))
    PROVE  /\ FlattenSeq(s) = <<>> <=> \A j \in DOMAIN s : s[j] = <<>>
           /\ \A i \in DOMAIN s : Only(s, i) => FlattenSeq(s) = s[i]
<1> DEFINE T == {u \in Seq(Seq(A)) :
                    /\ FlattenSeq(u) = <<>> <=> \A j \in DOMAIN u : u[j] = <<>>
                    /\ \A k \in DOMAIN u : Only(u, k) => FlattenSeq(u) = u[k]}
<1>1. <<>> \in T
  BY FlattenEmpty
<1>2. ASSUME NEW u \in Seq(Seq(A)), u \in T, NEW x \in Seq(A)
      PROVE  Append(u, x) \in T
  <2> DEFINE v == Append(u, x)
             n == Len(u) + 1
  <2>1. /\ v \in Seq(Seq(A)) /\ n \in DOMAIN v /\ v[n] = x /\ DOMAIN v = 1..n /\ n \in Nat
        /\ \A j \in DOMAIN u : j \in DOMAIN v /\ v[j] = u[j] /\ j # n
        /\ \A j \in DOMAIN v : j = n \/ j \in DOMAIN u
    OBVIOUS
  <2>2. FlattenSeq(v) = FlattenSeq(u) \o x
    BY FlattenAppend
  <2>3. FlattenSeq(u) \in Seq(A)
    BY FlattenType
  <2> HIDE DEF v, n
  <2>4. ASSUME \A j \in DOMAIN v : v[j] = <<>>
        PROVE  FlattenSeq(v) = <<>>
    <3>1. FlattenSeq(u) = <<>> /\ x = <<>>
      BY <1>2, <2>1, <2>4
    <3>2. <<>> \o <<>> = <<>>
      OBVIOUS
    <3> QED
      BY <2>2, <3>1, <3>2
  <2>5. ASSUME FlattenSeq(v) = <<>>
        PROVE  \A j \in DOMAIN v : v[j] = <<>>
    <3>1. FlattenSeq(u) = <<>> /\ x = <<>>
      <4> DEFINE a == FlattenSeq(u)
      <4>1. a \in Seq(A) /\ a \o x = <<>>
        BY <2>2, <2>3, <2>5
      <4> HIDE DEF a
      <4>2. Len(a \o x) = Len(a) + Len(x) /\ Len(a) \in Nat /\ Len(x) \in Nat
        BY <4>1
      <4>3. Len(a) = 0 /\ Len(x) = 0
        BY <4>1, <4>2
      <4> QED
        BY <4>1, <4>3 DEF a
    <3> QED
      BY <1>2, <2>1, <3>1
  <2>6. ASSUME NEW k \in DOMAIN v, Only(v, k)
        PROVE  FlattenSeq(v) = v[k]
    <3>1. CASE k = n
      <4>1. \A j \in DOMAIN u : u[j] = <<>>
        BY <2>1, <2>6, <3>1 DEF Only
      <4>2. FlattenSeq(u) = <<>> /\ <<>> \o x = x
        BY <1>2, <4>1
      <4> QED
        BY <2>1, <2>2, <3>1, <4>2
    <3>2. CASE k \in DOMAIN u
      <4>1. Only(u, k) /\ x = <<>>
        BY <2>1, <2>6, <3>2 DEF Only
      <4>2. FlattenSeq(u) = u[k] /\ FlattenSeq(u) \o <<>> = FlattenSeq(u)
        BY <1>2, <2>3, <3>2, <4>1
      <4> QED
        BY <2>1, <2>2, <3>2, <4>1, <4>2
    <3> QED
      BY <2>1, <3>1, <3>2
  <2> QED
    BY <2>1, <2>4, <2>5, <2>6 DEF v
<1> HIDE DEF T
<1>3. Seq(Seq(A)) \subseteq T
  BY <1>1, <1>2, SequenceInduction, Zenon
<1> QED
  BY <1>3 DEF T

\* The numbers of a set that are below m, in their order.
LEMMA Enumerated ==
    ASSUME NEW S \in SUBSET Nat
    PROVE  \A m \in Nat : \E k \in Nat : \E f \in [1..k -> Nat] :
             /\ Increasing(f, k)
             /\ \A i \in 1..k : f[i] \in S /\ f[i] < m
             /\ \A x \in S : x < m => \E i \in 1..k : f[i] = x
<1> DEFINE Counts(f, k, m) ==
             /\ Increasing(f, k)
             /\ \A i \in 1..k : f[i] \in S /\ f[i] < m
             /\ \A x \in S : x < m => \E i \in 1..k : f[i] = x
           T == {m \in Nat : \E k \in Nat : \E f \in [1..k -> Nat] : Counts(f, k, m)}
<1>1. 0 \in T
  <2>1. Counts([i \in 1..0 |-> 0], 0, 0)
    BY DEF Increasing
  <2>2. [i \in 1..0 |-> 0] \in [1..0 -> Nat]
    OBVIOUS
  <2> QED
    BY <2>1, <2>2
<1>2. ASSUME NEW m \in Nat, m \in T
      PROVE  m + 1 \in T
  <2>0. PICK k \in Nat : \E f \in [1..k -> Nat] : Counts(f, k, m)
    BY <1>2
  <2>1. PICK f \in [1..k -> Nat] : Counts(f, k, m)
    BY <2>0
  <2>2. CASE m \notin S
    <3>1. Counts(f, k, m + 1)
      BY <2>1, <2>2
    <3> QED
      BY <3>1
  <2>3. CASE m \in S
    <3> DEFINE g == [i \in 1..(k + 1) |-> IF i = k + 1 THEN m ELSE f[i]]
    <3>1. /\ g \in [1..(k + 1) -> Nat] /\ g[k + 1] = m /\ k + 1 \in 1..(k + 1)
          /\ \A i \in 1..k : i \in 1..(k + 1) /\ g[i] = f[i]
          /\ \A i \in 1..(k + 1) : i \in 1..k \/ i = k + 1
      OBVIOUS
    <3> HIDE DEF g
    <3>2. Increasing(g, k + 1)
      <4> SUFFICES ASSUME NEW i \in 1..(k + 1), NEW j \in 1..(k + 1), i < j
                   PROVE  g[i] < g[j]
        BY DEF Increasing
      <4>1. i \in 1..k /\ f[i] < m
        BY <2>1
      <4>2. j \in 1..k \/ j = k + 1
        BY <3>1
      <4> QED
        BY <2>1, <3>1, <4>1, <4>2 DEF Increasing
    <3>3. ASSUME NEW i \in 1..(k + 1) PROVE g[i] \in S /\ g[i] < m + 1
      <4>1. CASE i \in 1..k
        <5>1. g[i] = f[i] /\ f[i] \in S /\ f[i] < m /\ f[i] \in Nat
          BY <2>1, <3>1, <4>1
        <5> QED
          BY <5>1
      <4>2. CASE i = k + 1
        BY <2>3, <3>1, <4>2
      <4> QED
        BY <3>1, <4>1, <4>2
    <3>4. ASSUME NEW x \in S, x < m + 1 PROVE \E i \in 1..(k + 1) : g[i] = x
      <4>1. CASE x = m
        BY <3>1, <4>1
      <4>2. CASE x # m
        <5>1. x < m
          BY <3>4, <4>2
        <5>2. PICK i \in 1..k : f[i] = x
          BY <2>1, <5>1
        <5> QED
          BY <3>1, <5>2
      <4> QED
        BY <4>1, <4>2
    <3>5. Counts(g, k + 1, m + 1)
      BY <3>2, <3>3, <3>4
    <3> HIDE DEF Counts
    <3> QED
      BY <3>1, <3>5
  <2> QED
    BY <2>2, <2>3
<1>3. Nat \subseteq T
  <2> HIDE DEF T
  <2> QED
    BY <1>1, <1>2, SetInduction, Zenon
<1> QED
  BY <1>3
=============================================================================
