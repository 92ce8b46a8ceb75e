------------------------- MODULE RateLimiterProofs -------------------------
(***************************************************************************)
(* Proofs about RateLimiter, for every set of clients, every rate and      *)
(* every length of window.                                                 *)
(***************************************************************************)
EXTENDS RateLimiter, InductionLemmas

-----------------------------------------------------------------------------
(***************************************************************************)
(* SumUpTo takes the last value of a recursive function.                   *)
(***************************************************************************)

\* g[i] is the sum of f[0], ..., f[i], for each i up to n.
SumsUpTo(g, f, n) == g = [i \in 0..n |-> IF i = 0 THEN f[0] ELSE g[i - 1] + f[i]]

\* The sums up to n + 1 from those up to n.
LEMMA SumsExtend ==
    ASSUME NEW f, NEW g, NEW m \in Nat, NEW n \in Nat, n = m + 1, SumsUpTo(g, f, m)
    PROVE  SumsUpTo([i \in 0..n |-> IF i = n THEN g[m] + f[n] ELSE g[i]], f, n)
<1> DEFINE h == [i \in 0..n |-> IF i = n THEN g[m] + f[n] ELSE g[i]]
           k == [i \in 0..n |-> IF i = 0 THEN f[0] ELSE h[i - 1] + f[i]]
<1>1. ASSUME NEW i \in 0..n PROVE h[i] = k[i]
  <2>1. CASE i = n
    <3>1. i # 0 /\ i - 1 = m /\ m \in 0..n /\ m # n
      BY <2>1
    <3>2. h[m] = g[m] /\ h[i] = g[m] + f[n]
      BY <2>1, <3>1
    <3>3. k[i] = h[i - 1] + f[i]
      BY <3>1
    <3> QED
      BY <2>1, <3>1, <3>2, <3>3
  <2>2. CASE i # n
    <3>1. i \in 0..m /\ h[i] = g[i]
      BY <2>2
    <3>2. g[i] = IF i = 0 THEN f[0] ELSE g[i - 1] + f[i]
      BY <3>1, Zenon DEF SumsUpTo
    <3>3. CASE i = 0
      BY <3>1, <3>2, <3>3
    <3>4. CASE i # 0
      <4>1. i - 1 \in 0..n /\ i - 1 # n
        BY <3>1, <3>4
      <4>2. h[i - 1] = g[i - 1]
        BY <4>1
      <4>3. k[i] = h[i - 1] + f[i]
        BY <3>4
      <4> QED
        BY <3>1, <3>2, <3>4, <4>2, <4>3
    <3> QED
      BY <3>3, <3>4
  <2> QED
    BY <2>1, <2>2
<1>2. h = k
  <2>1. /\ DOMAIN h = 0..n /\ DOMAIN k = 0..n
        /\ h = [i \in DOMAIN h |-> h[i]] /\ k = [i \in DOMAIN k |-> k[i]]
    OBVIOUS
  <2> HIDE DEF h, k
  <2> QED
    BY <1>1, <2>1
<1> QED
  BY <1>2 DEF SumsUpTo

\* There are such sums.
LEMMA SumsExist ==
    ASSUME NEW f, NEW n \in Nat
    PROVE  \E g : SumsUpTo(g, f, n)
<1> DEFINE T == {m \in Nat : \E g : SumsUpTo(g, f, m)}
<1>1. 0 \in T
  <2> DEFINE g == [i \in 0..0 |-> f[0]]
  <2>1. \A i \in 0..0 : i = 0
    OBVIOUS
  <2>2. g = [i \in 0..0 |-> IF i = 0 THEN f[0] ELSE g[i - 1] + f[i]]
    BY <2>1
  <2> QED
    BY <2>2 DEF SumsUpTo
<1>2. ASSUME NEW m \in Nat, m \in T PROVE m + 1 \in T
  <2>1. PICK g : SumsUpTo(g, f, m)
    BY <1>2
  <2>2. PICK k \in Nat : k = m + 1
    OBVIOUS
  <2>3. \E h : SumsUpTo(h, f, k)
    BY <2>1, <2>2, SumsExtend
  <2> QED
    BY <2>2, <2>3
<1>3. Nat \subseteq T
  <2> HIDE DEF T
  <2> QED
    BY <1>1, <1>2, SetInduction
<1> QED
  BY <1>3

\* They depend on what is added only.
LEMMA SumsUnique ==
    ASSUME NEW f, NEW e, NEW g, NEW h, NEW m \in Nat, NEW n \in Nat, m <= n,
           SumsUpTo(g, f, m), SumsUpTo(h, e, n), \A i \in 0..m : f[i] = e[i]
    PROVE  \A i \in 0..m : g[i] = h[i]
<1> DEFINE T == {j \in Nat : j \in 0..m => g[j] = h[j]}
<1>0. /\ \A i \in 0..m : g[i] = IF i = 0 THEN f[0] ELSE g[i - 1] + f[i]
      /\ \A i \in 0..n : h[i] = IF i = 0 THEN e[0] ELSE h[i - 1] + e[i]
  BY Zenon DEF SumsUpTo
<1>1. 0 \in T
  BY <1>0
<1>2. ASSUME NEW j \in Nat, j \in T PROVE j + 1 \in T
  <2> SUFFICES ASSUME j + 1 \in 0..m PROVE g[j + 1] = h[j + 1]
    OBVIOUS
  <2>1. j \in 0..m /\ j + 1 \in 0..n /\ (j + 1) - 1 = j /\ j + 1 # 0
    OBVIOUS
  <2>2. g[j + 1] = g[j] + f[j + 1] /\ h[j + 1] = h[j] + e[j + 1]
    BY <1>0, <2>1
  <2> QED
    BY <1>2, <2>1, <2>2
<1>3. Nat \subseteq T
  <2> HIDE DEF T
  <2> QED
    BY <1>1, <1>2, SetInduction
<1> QED
  BY <1>3

\* SumUpTo is the last value of the recursive function that defines it.
LEMMA SumIsLast ==
    ASSUME NEW f, NEW n \in Nat
    PROVE  \E g : SumsUpTo(g, f, n) /\ SumUpTo(f, n) = g[n]
<1> DEFINE c == CHOOSE g : g = [i \in 0..n |-> IF i = 0 THEN f[0] ELSE g[i - 1] + f[i]]
<1>1. SumsUpTo(c, f, n)
  BY SumsExist DEF SumsUpTo
<1>2. SumUpTo(f, n) = c[n]
  BY Zenon DEF SumUpTo
<1> QED
  BY <1>1, <1>2

\* The sum of the first, and of one more.
LEMMA SumFirst ==
    ASSUME NEW f
    PROVE  SumUpTo(f, 0) = f[0]
<1>1. PICK g : SumsUpTo(g, f, 0) /\ SumUpTo(f, 0) = g[0]
  BY SumIsLast
<1> QED
  BY <1>1 DEF SumsUpTo

\* A sum up to the next index has one more term.
LEMMA SumNext ==
    ASSUME NEW f, NEW m \in Nat, NEW n \in Nat, n = m + 1
    PROVE  SumUpTo(f, n) = SumUpTo(f, m) + f[n]
<1>1. PICK g : SumsUpTo(g, f, m) /\ SumUpTo(f, m) = g[m]
  BY SumIsLast
<1>2. PICK h : SumsUpTo(h, f, n) /\ SumUpTo(f, n) = h[n]
  BY SumIsLast
<1>3. \A i \in 0..m : g[i] = h[i]
  BY <1>1, <1>2, SumsUnique
<1>4. h[n] = h[m] + f[n]
  <2>1. n \in 0..n /\ n # 0 /\ n - 1 = m
    OBVIOUS
  <2>2. h[n] = IF n = 0 THEN f[0] ELSE h[n - 1] + f[n]
    BY <1>2, <2>1, Zenon DEF SumsUpTo
  <2> QED
    BY <2>1, <2>2
<1> QED
  BY <1>1, <1>2, <1>3, <1>4

-----------------------------------------------------------------------------
(***************************************************************************)
(* What sums of histories do.                                              *)
(***************************************************************************)

\* Sums of the same numbers are the same.
LEMMA SumSame ==
    ASSUME NEW f, NEW e, NEW n \in Nat, \A i \in 0..n : f[i] = e[i]
    PROVE  SumUpTo(f, n) = SumUpTo(e, n)
<1>1. PICK g : SumsUpTo(g, f, n) /\ SumUpTo(f, n) = g[n]
  BY SumIsLast
<1>2. PICK h : SumsUpTo(h, e, n) /\ SumUpTo(e, n) = h[n]
  BY SumIsLast
<1>3. \A i \in 0..n : g[i] = h[i]
  BY <1>1, <1>2, SumsUnique
<1> QED
  BY <1>1, <1>2, <1>3

\* Sums of numbers are numbers.
LEMMA SumType ==
    ASSUME NEW f, NEW n \in Nat, \A i \in 0..n : f[i] \in Nat
    PROVE  \A m \in 0..n : SumUpTo(f, m) \in Nat
<1> DEFINE T == {j \in Nat : j \in 0..n => SumUpTo(f, j) \in Nat}
<1>1. 0 \in T
  BY SumFirst
<1>2. ASSUME NEW j \in Nat, j \in T PROVE j + 1 \in T
  <2> SUFFICES ASSUME j + 1 \in 0..n PROVE SumUpTo(f, j + 1) \in Nat
    OBVIOUS
  <2>1. SumUpTo(f, j) \in Nat /\ f[j + 1] \in Nat
    BY <1>2
  <2>2. SumUpTo(f, j + 1) = SumUpTo(f, j) + f[j + 1]
    BY SumNext
  <2> QED
    BY <2>1, <2>2
<1>3. Nat \subseteq T
  <2> HIDE DEF T
  <2> QED
    BY <1>1, <1>2, SetInduction
<1> QED
  BY <1>3

\* Adding numbers does not make a sum smaller, and only zeros leave it the same.
LEMMA SumGrows ==
    ASSUME NEW f, NEW n \in Nat, \A i \in 0..n : f[i] \in Nat, NEW m \in 0..n
    PROVE  SumUpTo(f, m) <= SumUpTo(f, n)
<1> DEFINE T == {j \in Nat : j \in m..n => SumUpTo(f, m) <= SumUpTo(f, j)}
<1>1. 0 \in T
  <2>1. 0 \in m..n => m = 0
    OBVIOUS
  <2>2. SumUpTo(f, m) \in Nat
    BY SumType
  <2> QED
    BY <2>1, <2>2
<1>2. ASSUME NEW j \in Nat, j \in T PROVE j + 1 \in T
  <2> SUFFICES ASSUME j + 1 \in m..n PROVE SumUpTo(f, m) <= SumUpTo(f, j + 1)
    OBVIOUS
  <2>1. SumUpTo(f, j) \in Nat /\ SumUpTo(f, m) \in Nat /\ f[j + 1] \in Nat
    BY SumType
  <2>2. SumUpTo(f, j + 1) = SumUpTo(f, j) + f[j + 1]
    BY SumNext
  <2>3. CASE j + 1 = m
    BY <2>1, <2>3
  <2>4. CASE j + 1 # m
    <3>1. j \in m..n
      BY <2>4
    <3> QED
      BY <1>2, <2>1, <2>2, <3>1
  <2> QED
    BY <2>3, <2>4
<1>3. Nat \subseteq T
  <2> HIDE DEF T
  <2> QED
    BY <1>1, <1>2, SetInduction
<1> QED
  BY <1>3

\* Nothing sums up to nothing.
LEMMA SumOfZeros ==
    ASSUME NEW f, NEW n \in Nat, \A i \in 0..n : f[i] = 0
    PROVE  SumUpTo(f, n) = 0
<1> DEFINE T == {j \in Nat : j \in 0..n => SumUpTo(f, j) = 0}
<1>1. 0 \in T
  BY SumFirst
<1>2. ASSUME NEW j \in Nat, j \in T PROVE j + 1 \in T
  <2> SUFFICES ASSUME j + 1 \in 0..n PROVE SumUpTo(f, j + 1) = 0
    OBVIOUS
  <2>1. SumUpTo(f, j) = 0 /\ f[j + 1] = 0
    BY <1>2
  <2>2. SumUpTo(f, j + 1) = SumUpTo(f, j) + f[j + 1]
    BY SumNext
  <2> QED
    BY <2>1, <2>2
<1>3. Nat \subseteq T
  <2> HIDE DEF T
  <2> QED
    BY <1>1, <1>2, SetInduction
<1> QED
  BY <1>3

\* Time passes: nothing is added, and what was counted is counted one later.
LEMMA SumShifted ==
    ASSUME NEW f, NEW e, NEW n \in Nat, \A i \in 0..n : f[i] \in Nat,
           e[0] = 0, \A i \in 1..(n + 1) : e[i] = f[i - 1]
    PROVE  \A m \in 0..n : SumUpTo(e, m + 1) = SumUpTo(f, m)
<1> DEFINE T == {j \in Nat : j \in 0..n => SumUpTo(e, j + 1) = SumUpTo(f, j)}
<1>1. 0 \in T
  <2>1. SumUpTo(e, 1) = SumUpTo(e, 0) + e[1]
    BY SumNext
  <2>2. SumUpTo(e, 0) = 0 /\ SumUpTo(f, 0) = f[0] /\ e[1] = f[0] /\ f[0] \in Nat
    BY SumFirst
  <2> QED
    BY <2>1, <2>2
<1>2. ASSUME NEW j \in Nat, j \in T PROVE j + 1 \in T
  <2> SUFFICES ASSUME j + 1 \in 0..n PROVE SumUpTo(e, (j + 1) + 1) = SumUpTo(f, j + 1)
    OBVIOUS
  <2>1. SumUpTo(e, (j + 1) + 1) = SumUpTo(e, j + 1) + e[(j + 1) + 1]
    BY SumNext
  <2>2. SumUpTo(f, j + 1) = SumUpTo(f, j) + f[j + 1]
    BY SumNext
  <2>3. SumUpTo(e, j + 1) = SumUpTo(f, j)
    BY <1>2
  <2>4. e[(j + 1) + 1] = f[j + 1]
    OBVIOUS
  <2> QED
    BY <2>1, <2>2, <2>3, <2>4
<1>3. Nat \subseteq T
  <2> HIDE DEF T
  <2> QED
    BY <1>1, <1>2, SetInduction
<1> QED
  BY <1>3

\* One more request now is one more in every sum.
LEMMA SumOneMore ==
    ASSUME NEW f, NEW e, NEW n \in Nat, \A i \in 0..n : f[i] \in Nat,
           e[0] = f[0] + 1, \A i \in 1..n : e[i] = f[i]
    PROVE  \A m \in 0..n : SumUpTo(e, m) = SumUpTo(f, m) + 1
<1> DEFINE T == {j \in Nat : j \in 0..n => SumUpTo(e, j) = SumUpTo(f, j) + 1}
<1>1. 0 \in T
  BY SumFirst
<1>2. ASSUME NEW j \in Nat, j \in T PROVE j + 1 \in T
  <2> SUFFICES ASSUME j + 1 \in 0..n PROVE SumUpTo(e, j + 1) = SumUpTo(f, j + 1) + 1
    OBVIOUS
  <2>1. /\ SumUpTo(e, j + 1) = SumUpTo(e, j) + e[j + 1]
        /\ SumUpTo(f, j + 1) = SumUpTo(f, j) + f[j + 1]
    BY SumNext
  <2>2. /\ SumUpTo(e, j) = SumUpTo(f, j) + 1
        /\ e[j + 1] = f[j + 1]
    BY <1>2
  <2>3. SumUpTo(f, j) \in Nat /\ f[j + 1] \in Nat
    BY SumType
  <2> QED
    BY <2>1, <2>2, <2>3
<1>3. Nat \subseteq T
  <2> HIDE DEF T
  <2> QED
    BY <1>1, <1>2, SetInduction
<1> QED
  BY <1>3

-----------------------------------------------------------------------------
(***************************************************************************)
(* The inductive invariant: how a client's history explains its bucket.    *)
(***************************************************************************)
BucketType == [tokens : 0..(Rate - 1), age : 0..(2 * Window)]
History == [0..(Window - 1) -> Nat]

\* No request was let through in the last window.
Fresh(f) == \A a \in 0..(Window - 1) : f[a] = 0

\* A bucket in its window began with a request and has counted all since; less
\* than a rate of those before can be less than a window old.
Current(f, b) ==
    /\ b.tokens + SumUpTo(f, b.age) = Rate
    /\ SumUpTo(f, Window - 1) <= SumUpTo(f, b.age) + (Rate - 1)
    /\ f[b.age] >= 1

\* A bucket past its window has let nothing through since.
Past(f, b) ==
    /\ SumUpTo(f, Window - 1) <= Rate - 1
    /\ \A a \in 0..(Window - 1) : a <= b.age - Window => f[a] = 0

Explains(f, b) == IF b.age < Window THEN Current(f, b) ELSE Past(f, b)

Explained ==
    \A k \in Keys :
        /\ k \in DOMAIN requests => Explains(recent[k], requests[k])
        /\ k \notin DOMAIN requests => Fresh(recent[k])

IInv == TypeOK /\ Explained

-----------------------------------------------------------------------------
(***************************************************************************)
(* A request that is let through.                                          *)
(***************************************************************************)
Recorded(f) == [f EXCEPT ![0] = @ + 1]

\* Accepting a request adds one to every sum from the present minute back.
LEMMA RecordedSums ==
    ASSUME NEW f \in History
    PROVE  /\ Recorded(f) \in History
           /\ \A m \in 0..(Window - 1) : SumUpTo(Recorded(f), m) = SumUpTo(f, m) + 1
           /\ \A m \in 0..(Window - 1) : SumUpTo(f, m) \in Nat
           /\ \A a \in 0..(Window - 1) : Recorded(f)[a] >= f[a]
           /\ Recorded(f)[0] = f[0] + 1
<1>1. PICK n \in Nat : n = Window - 1
  BY WindowAssumption
<1>2. /\ f \in [0..n -> Nat]
      /\ 0 \in 0..n
  BY <1>1 DEF History
<1>3. /\ Recorded(f) \in [0..n -> Nat]
      /\ Recorded(f)[0] = f[0] + 1
      /\ \A i \in 1..n : Recorded(f)[i] = f[i]
      /\ \A i \in 0..n : Recorded(f)[i] >= f[i]
  BY <1>2 DEF Recorded
<1>4. \A i \in 0..n : f[i] \in Nat
  BY <1>2
<1>5. \A m \in 0..n : SumUpTo(Recorded(f), m) = SumUpTo(f, m) + 1
  BY <1>3, <1>4, SumOneMore
<1>6. \A m \in 0..n : SumUpTo(f, m) \in Nat
  BY <1>4, SumType
<1> QED
  BY <1>1, <1>3, <1>5, <1>6 DEF History

\* It begins a window: the client's first, or the first after its last window.
LEMMA NewWindow ==
    ASSUME NEW f \in History, f[0] = 0, SumUpTo(f, Window - 1) <= Rate - 1
    PROVE  Explains(Recorded(f), NewBucket)
<1>1. /\ SumUpTo(Recorded(f), 0) = 1
      /\ Recorded(f)[0] = 1
  BY RecordedSums, SumFirst
<1>2. /\ SumUpTo(Recorded(f), Window - 1) = SumUpTo(f, Window - 1) + 1
      /\ SumUpTo(f, Window - 1) \in Nat
  BY RecordedSums, WindowAssumption
<1>3. NewBucket.tokens = Rate - 1 /\ NewBucket.age = 0 /\ 0 < Window
  BY WindowAssumption DEF NewBucket
<1> QED
  BY <1>1, <1>2, <1>3, RateAssumption DEF Explains, Current

\* An unused history sums up to nothing.
LEMMA FreshSum ==
    ASSUME NEW f \in History, Fresh(f)
    PROVE  f[0] = 0 /\ SumUpTo(f, Window - 1) = 0
<1>1. Window - 1 \in Nat /\ 0 \in 0..(Window - 1)
  BY WindowAssumption
<1> QED
  BY <1>1, SumOfZeros DEF Fresh

\* It takes a token.
LEMMA TokenTaken ==
    ASSUME NEW f \in History, NEW b \in BucketType, NEW c \in BucketType,
           b.age < Window, Explains(f, b), c.tokens = b.tokens - 1, c.age = b.age
    PROVE  Explains(Recorded(f), c)
<1>1. Current(f, b)
  BY DEF Explains
<1>2. b.age \in 0..(Window - 1) /\ Window - 1 \in 0..(Window - 1) /\ b.tokens \in Int
  BY WindowAssumption DEF BucketType
<1>3. /\ SumUpTo(Recorded(f), b.age) = SumUpTo(f, b.age) + 1
      /\ SumUpTo(Recorded(f), Window - 1) = SumUpTo(f, Window - 1) + 1
      /\ SumUpTo(f, b.age) \in Nat /\ SumUpTo(f, Window - 1) \in Nat
      /\ Recorded(f)[b.age] >= f[b.age]
      /\ Recorded(f)[b.age] \in Nat /\ f[b.age] \in Nat
  BY <1>2, RecordedSums DEF History
<1> QED
  BY <1>1, <1>2, <1>3, RateAssumption DEF Explains, Current

-----------------------------------------------------------------------------
(***************************************************************************)
(* A tick of the clock.                                                    *)
(***************************************************************************)
Aged(f) == [a \in 0..(Window - 1) |-> IF a = 0 THEN 0 ELSE f[a - 1]]

\* A minute on, each sum is what the sum of one minute less was: the oldest
\* minute leaves the window.
LEMMA AgedSums ==
    ASSUME NEW f \in History
    PROVE  /\ Aged(f) \in History
           /\ Aged(f)[0] = 0
           /\ \A a \in 1..(Window - 1) : Aged(f)[a] = f[a - 1]
           /\ SumUpTo(Aged(f), 0) = 0
           /\ \A m \in 1..(Window - 1) : SumUpTo(Aged(f), m) = SumUpTo(f, m - 1)
           /\ \A m \in 0..(Window - 1) : SumUpTo(f, m) \in Nat /\ f[m] \in Nat
<1>1. PICK n \in Nat : n = Window - 1
  BY WindowAssumption
<1>2. \A i \in 0..n : f[i] \in Nat
  BY <1>1 DEF History
<1>3. \A m \in 0..n : SumUpTo(f, m) \in Nat
  BY <1>2, SumType
<1>4. /\ Aged(f) \in [0..n -> Nat]
      /\ Aged(f)[0] = 0
      /\ \A a \in 1..n : Aged(f)[a] = f[a - 1]
  <2>1. \A a \in 0..n : a # 0 => a - 1 \in 0..n
    OBVIOUS
  <2>2. Aged(f) = [a \in 0..n |-> IF a = 0 THEN 0 ELSE f[a - 1]]
    BY <1>1 DEF Aged
  <2> QED
    BY <1>2, <2>1, <2>2
<1>5. SumUpTo(Aged(f), 0) = 0
  BY <1>4, SumFirst
<1>6. \A m \in 1..n : SumUpTo(Aged(f), m) = SumUpTo(f, m - 1)
  <2> SUFFICES ASSUME NEW m \in 1..n PROVE SumUpTo(Aged(f), m) = SumUpTo(f, m - 1)
    OBVIOUS
  <2>1. PICK k \in Nat : n = k + 1
    <3>1. n - 1 \in Nat /\ n = (n - 1) + 1
      OBVIOUS
    <3> QED
      BY <3>1
  <2>2. /\ \A i \in 0..k : f[i] \in Nat
        /\ \A i \in 1..(k + 1) : Aged(f)[i] = f[i - 1]
    BY <1>2, <1>4, <2>1
  <2>3. \A j \in 0..k : SumUpTo(Aged(f), j + 1) = SumUpTo(f, j)
    BY <1>4, <2>2, SumShifted
  <2>4. m - 1 \in 0..k /\ (m - 1) + 1 = m
    BY <2>1
  <2> QED
    BY <2>3, <2>4
<1> QED
  BY <1>1, <1>2, <1>3, <1>4, <1>5, <1>6 DEF History

\* An unused history stays unused when time goes on.
LEMMA FreshAges ==
    ASSUME NEW f \in History, Fresh(f)
    PROVE  Fresh(Aged(f))
<1>1. \A a \in 0..(Window - 1) : a # 0 => a \in 1..(Window - 1) /\ a - 1 \in 0..(Window - 1)
  BY WindowAssumption
<1> QED
  BY <1>1, AgedSums DEF Fresh

\* A bucket that ages keeps its tokens; when its window is over, the request
\* that began it is a window old, and less than a rate of requests are not.
LEMMA BucketAges ==
    ASSUME NEW f \in History, NEW b \in BucketType, Explains(f, b)
    PROVE  Explains(Aged(f), Older(b))
<1>1. PICK W \in Nat \ {0} : W = Window
  BY WindowAssumption
<1>2. b.age \in 0..(2 * W) /\ b.tokens \in Nat
  BY <1>1, RateAssumption DEF BucketType
<1>3. /\ Older(b).tokens = b.tokens
      /\ Older(b).age = IF b.age < 2 * W THEN b.age + 1 ELSE b.age
  BY <1>1 DEF Older, BucketType
<1>4. /\ \A m \in 0..(W - 1) : SumUpTo(f, m) \in Nat /\ f[m] \in Nat
      /\ \A m \in 1..(W - 1) : SumUpTo(Aged(f), m) = SumUpTo(f, m - 1)
      /\ \A m \in 1..(W - 1) : Aged(f)[m] = f[m - 1]
      /\ Aged(f)[0] = 0 /\ SumUpTo(Aged(f), 0) = 0
  BY <1>1, AgedSums
<1>5. W = 1 \/ (W - 1 \in 1..(W - 1) /\ W - 2 \in 0..(W - 1))
  OBVIOUS
<1>6. W # 1 => /\ SumUpTo(Aged(f), W - 1) = SumUpTo(f, W - 2)
               /\ SumUpTo(f, W - 1) = SumUpTo(f, W - 2) + f[W - 1]
  <2> SUFFICES ASSUME W # 1
               PROVE  /\ SumUpTo(Aged(f), W - 1) = SumUpTo(f, W - 2)
                      /\ SumUpTo(f, W - 1) = SumUpTo(f, W - 2) + f[W - 1]
    OBVIOUS
  <2>1. (W - 1) - 1 = W - 2 /\ W - 1 = (W - 2) + 1 /\ W - 2 \in Nat /\ W - 1 \in Nat
    BY <1>5
  <2>2. SumUpTo(Aged(f), W - 1) = SumUpTo(f, W - 2)
    BY <1>4, <1>5, <2>1
  <2>3. SumUpTo(f, W - 1) = SumUpTo(f, W - 2) + f[W - 1]
    BY <2>1, SumNext
  <2> QED
    BY <2>2, <2>3
<1>7. SumUpTo(Aged(f), W - 1) \in Nat /\ SumUpTo(Aged(f), W - 1) <= SumUpTo(f, W - 1)
  <2>1. CASE W = 1
    <3>1. W - 1 = 0 /\ 0 \in 0..(W - 1)
      BY <2>1
    <3> QED
      BY <1>4, <3>1
  <2>2. CASE W # 1
    <3>1. SumUpTo(f, W - 2) \in Nat /\ f[W - 1] \in Nat
      BY <1>4, <1>5, <2>2
    <3> QED
      BY <1>6, <2>2, <3>1
  <2> QED
    BY <2>1, <2>2
<1>8. CASE b.age + 1 < W
  <2>1. Current(f, b)
    BY <1>1, <1>2, <1>8 DEF Explains
  <2>2. Older(b).age = b.age + 1 /\ b.age + 1 \in 1..(W - 1) /\ (b.age + 1) - 1 = b.age
        /\ b.age \in 0..(W - 1)
    BY <1>2, <1>3, <1>8
  <2>3. SumUpTo(Aged(f), Older(b).age) = SumUpTo(f, b.age) /\ Aged(f)[Older(b).age] = f[b.age]
    BY <1>4, <2>2
  <2>4. SumUpTo(f, b.age) \in Nat /\ SumUpTo(f, W - 1) \in Nat
    BY <1>4, <2>2
  <2>5. Current(Aged(f), Older(b))
    BY <1>1, <1>3, <1>7, <2>1, <2>3, <2>4, RateAssumption DEF Current
  <2> QED
    BY <1>1, <1>8, <2>2, <2>5 DEF Explains
<1>9. CASE b.age + 1 = W
  <2>1. Current(f, b)
    BY <1>1, <1>2, <1>9 DEF Explains
  <2>2. b.age = W - 1 /\ Older(b).age = W
    BY <1>2, <1>3, <1>9
  <2>3. SumUpTo(Aged(f), W - 1) <= Rate - 1
    <3>1. CASE W = 1
      <4>1. W - 1 = 0
        BY <3>1
      <4> QED
        BY <1>4, <4>1, RateAssumption
    <3>2. CASE W # 1
      <4>1. SumUpTo(f, W - 1) <= Rate /\ f[W - 1] >= 1
        BY <1>2, <1>4, <1>5, <2>1, <2>2, <3>2, RateAssumption DEF Current
      <4>2. SumUpTo(f, W - 2) \in Nat /\ f[W - 1] \in Nat
        BY <1>4, <1>5, <3>2
      <4> QED
        BY <1>6, <3>2, <4>1, <4>2, RateAssumption
    <3> QED
      BY <3>1, <3>2
  <2>4. \A a \in 0..(W - 1) : a <= Older(b).age - W => Aged(f)[a] = 0
    BY <1>4, <2>2
  <2> QED
    BY <1>1, <2>2, <2>3, <2>4 DEF Explains, Past
<1>10. CASE b.age >= W
  <2>1. Past(f, b)
    BY <1>1, <1>2, <1>10 DEF Explains
  <2>2. Older(b).age \in Nat /\ Older(b).age >= W /\ Older(b).age <= b.age + 1
    BY <1>2, <1>3, <1>10
  <2>3. SumUpTo(Aged(f), W - 1) <= Rate - 1
    <3>1. SumUpTo(f, W - 1) \in Nat
      BY <1>4
    <3> QED
      BY <1>1, <1>7, <2>1, <3>1, RateAssumption DEF Past
  <2>4. ASSUME NEW a \in 0..(W - 1), a <= Older(b).age - W
        PROVE  Aged(f)[a] = 0
    <3>1. CASE a = 0
      BY <1>4, <3>1
    <3>2. CASE a # 0
      <4>1. a \in 1..(W - 1) /\ a - 1 \in 0..(W - 1) /\ a - 1 <= b.age - W
        BY <1>2, <2>2, <2>4, <3>2
      <4>2. f[a - 1] = 0
        BY <1>1, <2>1, <4>1 DEF Past
      <4> QED
        BY <1>4, <4>1, <4>2
    <3> QED
      BY <3>1, <3>2
  <2>5. ~(Older(b).age < W)
    BY <2>2
  <2> QED
    BY <1>1, <2>3, <2>4, <2>5 DEF Explains, Past
<1> QED
  BY <1>2, <1>8, <1>9, <1>10

-----------------------------------------------------------------------------
(***************************************************************************)
(* Invariance.                                                             *)
(***************************************************************************)

\* A bucket set for k, and a request of k recorded: the others are as before.
LEMMA AcceptedBucket ==
    ASSUME IInv, NEW k \in Keys, NEW b \in BucketType, SetBucket(k, b), Record(k),
           UNCHANGED cleanupVars, Explains(Recorded(recent[k]), b)
    PROVE  IInv'
<1>1. /\ DOMAIN requests \subseteq Keys
      /\ \A j \in DOMAIN requests : requests[j] \in BucketType
      /\ recent \in [Keys -> History]
  BY DEF IInv, TypeOK, BucketType, History
<1>2. /\ DOMAIN requests' = DOMAIN requests \cup {k}
      /\ requests'[k] = b
      /\ \A j \in DOMAIN requests : j # k => requests'[j] = requests[j]
  BY DEF SetBucket
<1>3. /\ recent' \in [Keys -> History]
      /\ recent'[k] = Recorded(recent[k])
      /\ \A j \in Keys : j # k => recent'[j] = recent[j]
  <2>1. recent' = [recent EXCEPT ![k] = Recorded(recent[k])]
    BY <1>1 DEF Record, Recorded
  <2>2. Recorded(recent[k]) \in History
    BY <1>1, RecordedSums
  <2> QED
    BY <1>1, <2>1, <2>2
<1>4. TypeOK'
  <2>1. \A j \in DOMAIN requests' : requests'[j] \in BucketType
    BY <1>1, <1>2
  <2>2. UNCHANGED <<done, cleaner, sinceTick, tickWaiting>>
    BY DEF cleanupVars
  <2> QED
    BY <1>1, <1>2, <1>3, <2>1, <2>2 DEF IInv, TypeOK, BucketType, History
<1>5. Explained'
  BY <1>2, <1>3 DEF IInv, Explained
<1> QED
  BY <1>4, <1>5 DEF IInv

\* The invariant holds after a request was let through or refused: a new key
\* gets a full bucket, a known one is refilled for the whole minutes that passed.
LEMMA AcceptIInv ==
    ASSUME IInv, NEW k \in Keys, Accept(k)
    PROVE  IInv'
<1>1. /\ \A j \in DOMAIN requests : requests[j] \in BucketType
      /\ recent[k] \in History
  BY DEF IInv, TypeOK, BucketType, History
<1>2. Record(k) /\ UNCHANGED cleanupVars
  BY DEF Accept
<1>3. NewBucket \in BucketType
  BY RateAssumption, WindowAssumption DEF NewBucket, BucketType
<1>4. CASE k \notin DOMAIN requests /\ SetBucket(k, NewBucket)
  <2>1. Fresh(recent[k])
    BY <1>4 DEF IInv, Explained
  <2>2. recent[k][0] = 0 /\ SumUpTo(recent[k], Window - 1) <= Rate - 1
    BY <1>1, <2>1, FreshSum, RateAssumption
  <2>3. Explains(Recorded(recent[k]), NewBucket)
    BY <1>1, <2>2, NewWindow
  <2> QED
    BY <1>2, <1>3, <1>4, <2>3, AcceptedBucket
<1>5. CASE k \in DOMAIN requests /\ Elapsed(requests[k]) /\ SetBucket(k, NewBucket)
  <2>1. requests[k].age \in Nat /\ requests[k].age >= Window
    BY <1>1, <1>5, WindowAssumption DEF Elapsed, BucketType
  <2>2. Past(recent[k], requests[k])
    BY <1>5, <2>1, WindowAssumption DEF IInv, Explained, Explains
  <2>3. recent[k][0] = 0 /\ SumUpTo(recent[k], Window - 1) <= Rate - 1
    BY <2>1, <2>2, WindowAssumption DEF Past
  <2>4. Explains(Recorded(recent[k]), NewBucket)
    BY <1>1, <2>3, NewWindow
  <2> QED
    BY <1>2, <1>3, <1>5, <2>4, AcceptedBucket
<1>6. CASE /\ k \in DOMAIN requests
           /\ ~Elapsed(requests[k])
           /\ HasToken(requests[k])
           /\ SetBucket(k, [requests[k] EXCEPT !.tokens = @ - 1])
  <2> DEFINE c == [requests[k] EXCEPT !.tokens = @ - 1]
  <2>1. requests[k].tokens \in 0..(Rate - 1) /\ requests[k].age \in 0..(2 * Window)
        /\ requests[k].tokens > 0
    BY <1>1, <1>6 DEF HasToken, BucketType
  <2>2. requests[k].age < Window
    BY <1>6, <2>1, WindowAssumption DEF Elapsed
  <2>3. c \in BucketType /\ c.tokens = requests[k].tokens - 1 /\ c.age = requests[k].age
    BY <1>1, <1>6, <2>1, RateAssumption DEF BucketType
  <2>4. Explains(recent[k], requests[k])
    BY <1>6 DEF IInv, Explained
  <2> HIDE DEF c
  <2>5. Explains(Recorded(recent[k]), c)
    BY <1>1, <1>6, <2>2, <2>3, <2>4, TokenTaken
  <2>6. SetBucket(k, c)
    BY <1>6 DEF c
  <2> QED
    BY <1>2, <2>3, <2>5, <2>6, AcceptedBucket
<1> QED
  BY <1>4, <1>5, <1>6 DEF Accept

\* Evicted buckets have nothing in their history.
LEMMA CleanupIInv ==
    ASSUME IInv, Cleanup
    PROVE  IInv'
<1>1. /\ DOMAIN requests' = {k \in DOMAIN requests : ~Stale(requests[k])}
      /\ \A k \in DOMAIN requests' : requests'[k] = requests[k]
  BY DEF Cleanup, Restrict
<1>2. recent' = recent /\ UNCHANGED <<done, cleaner, sinceTick>> /\ tickWaiting' = FALSE
  BY DEF Cleanup
<1>3. TypeOK'
  BY <1>1, <1>2 DEF IInv, TypeOK
<1>4. ASSUME NEW k \in Keys, k \in DOMAIN requests, Stale(requests[k])
      PROVE  Fresh(recent[k])
  <2>1. requests[k].age \in Nat /\ requests[k].age >= 2 * Window
    BY <1>4, WindowAssumption DEF Stale, IInv, TypeOK
  <2>2. Past(recent[k], requests[k])
    BY <1>4, <2>1, WindowAssumption DEF IInv, Explained, Explains
  <2>3. \A a \in 0..(Window - 1) : a <= requests[k].age - Window
    BY <2>1, WindowAssumption
  <2> QED
    BY <2>2, <2>3 DEF Past, Fresh
<1>5. Explained'
  BY <1>1, <1>2, <1>4 DEF IInv, Explained
<1> QED
  BY <1>3, <1>5 DEF IInv

\* The clock stays within its range.
LEMMA ClockWraps == \A t, w \in Nat : w > 0 => (t + 1) % w \in 0..(w - 1)
  OBVIOUS

\* The invariant holds after a minute has passed: no bucket changes, and the
\* history that explains its tokens is shifted by one.
LEMMA TickIInv ==
    ASSUME IInv, Tick
    PROVE  IInv'
<1>1. /\ DOMAIN requests \subseteq Keys
      /\ \A k \in DOMAIN requests : requests[k] \in BucketType
      /\ recent \in [Keys -> History]
  BY DEF IInv, TypeOK, BucketType, History
<1>2. /\ DOMAIN requests' = DOMAIN requests
      /\ \A k \in DOMAIN requests : requests'[k] = Older(requests[k])
  BY DEF Tick
<1>3. recent' = [k \in Keys |-> Aged(recent[k])]
  BY DEF Tick, Aged
<1>4. ASSUME NEW b \in BucketType PROVE Older(b) \in BucketType
  <2>1. b.age \in 0..(2 * Window) /\ b.tokens \in 0..(Rate - 1)
    BY DEF BucketType
  <2>2. (IF b.age < 2 * Window THEN b.age + 1 ELSE b.age) \in 0..(2 * Window)
    BY <2>1, WindowAssumption
  <2> QED
    BY <2>1, <2>2 DEF Older, BucketType
<1>5. \A k \in Keys : recent'[k] = Aged(recent[k]) /\ Aged(recent[k]) \in History
  BY <1>1, <1>3, AgedSums
<1>6. TypeOK'
  <2>1. sinceTick' \in 0..(2 * Window - 1)
    <3>1. sinceTick \in Nat /\ 2 * Window \in Nat /\ 2 * Window > 0
      BY WindowAssumption DEF IInv, TypeOK
    <3> QED
      BY <3>1, ClockWraps DEF Tick
  <2>2. tickWaiting' \in BOOLEAN /\ UNCHANGED <<done, cleaner>>
    BY DEF Tick, IInv, TypeOK
  <2>3. \A k \in DOMAIN requests' : requests'[k] \in BucketType
    BY <1>1, <1>2, <1>4
  <2>4. recent' \in [Keys -> History]
    BY <1>3, <1>5
  <2> QED
    BY <1>1, <1>2, <2>1, <2>2, <2>3, <2>4 DEF IInv, TypeOK, BucketType, History
<1>7. Explained'
  <2>1. ASSUME NEW k \in Keys, k \in DOMAIN requests
        PROVE  Explains(recent'[k], requests'[k])
    BY <1>1, <1>2, <1>5, <2>1, BucketAges DEF IInv, Explained
  <2>2. ASSUME NEW k \in Keys, k \notin DOMAIN requests
        PROVE  Fresh(recent'[k])
    BY <1>1, <1>5, <2>2, FreshAges DEF IInv, Explained
  <2> QED
    BY <1>2, <2>1, <2>2 DEF Explained
<1> QED
  BY <1>6, <1>7 DEF IInv

\* The inductive invariant is an invariant of the limiter.
THEOREM Invariance == Spec => []IInv
<1>1. Init => IInv
  <2> SUFFICES ASSUME Init PROVE IInv
    OBVIOUS
  <2>1. recent \in [Keys -> History] /\ \A k \in Keys : Fresh(recent[k])
    BY WindowAssumption DEF Init, History, Fresh
  <2>2. DOMAIN requests = {}
    BY DEF Init
  <2>3. TypeOK
    <3>1. sinceTick \in 0..(2 * Window - 1)
      BY WindowAssumption DEF Init
    <3>2. /\ DOMAIN requests \subseteq Keys
          /\ \A k \in DOMAIN requests :
              requests[k] \in [tokens : 0..(Rate - 1), age : 0..(2 * Window)]
      BY <2>2
    <3>3. done \in BOOLEAN /\ cleaner \in {"running", "exited"} /\ tickWaiting \in BOOLEAN
      BY DEF Init
    <3> QED
      BY <2>1, <3>1, <3>2, <3>3 DEF TypeOK, History
  <2> QED
    BY <2>1, <2>2, <2>3 DEF IInv, Explained
<1>2. IInv /\ [Next]_vars => IInv'
  <2> SUFFICES ASSUME IInv, [Next]_vars PROVE IInv'
    OBVIOUS
  <2>1. CASE \E k \in Keys : Accept(k)
    BY <2>1, AcceptIInv
  <2>2. CASE Cleanup
    BY <2>2, CleanupIInv
  <2>3. CASE CleanupExit
    BY <2>3 DEF CleanupExit, IInv, TypeOK, Explained
  <2>4. CASE Stop
    BY <2>4 DEF Stop, IInv, TypeOK, Explained
  <2>5. CASE Tick
    BY <2>5, TickIInv
  <2>6. CASE UNCHANGED vars
    BY <2>6 DEF vars, IInv, TypeOK, Explained
  <2> QED
    BY <2>1, <2>2, <2>3, <2>4, <2>5, <2>6 DEF Next, Deny
<1> QED
  BY <1>1, <1>2, PTL DEF Spec

-----------------------------------------------------------------------------
(***************************************************************************)
(* The theorems.                                                           *)
(***************************************************************************)

\* Types: tokens never fall below zero and never reach the rate again.
THEOREM TypeCorrect == Spec => []TypeOK
<1>1. IInv => TypeOK
  BY DEF IInv
<1> QED
  BY <1>1, Invariance, PTL

\* What the invariant says of one key's history: its sums are numbers that grow
\* with the window, and a key without a bucket was never let through.
LEMMA KeyFacts ==
    ASSUME IInv, NEW k \in Keys
    PROVE  /\ \A m \in 0..(Window - 1) : AllowedWithin(k, m) \in Nat
           /\ \A m \in 0..(Window - 1) : AllowedWithin(k, m) <= AllowedWithin(k, Window - 1)
           /\ k \notin DOMAIN requests => AllowedWithin(k, Window - 1) = 0
<1>1. PICK n \in Nat : n = Window - 1
  BY WindowAssumption
<1>2. recent[k] \in History /\ \A i \in 0..n : recent[k][i] \in Nat
  BY <1>1 DEF IInv, TypeOK, History
<1>3. \A m \in 0..n : SumUpTo(recent[k], m) \in Nat
  BY <1>2, SumType
<1>4. \A m \in 0..n : SumUpTo(recent[k], m) <= SumUpTo(recent[k], n)
  BY <1>2, SumGrows
<1>5. k \notin DOMAIN requests => AllowedWithin(k, Window - 1) = 0
  BY <1>2, FreshSum DEF IInv, Explained, AllowedWithin
<1> QED
  BY <1>1, <1>3, <1>4, <1>5 DEF AllowedWithin

\* Every request let through in a bucket's window took one token, and nothing
\* else did: no accepted request goes uncharged or is charged twice.
THEOREM TokensAlwaysAccountForRequests == Spec => []TokensAccountForRequests
<1>1. IInv => TokensAccountForRequests
  <2> SUFFICES ASSUME IInv, NEW k \in DOMAIN requests, ~Elapsed(requests[k])
               PROVE  requests[k].tokens + AllowedWithin(k, requests[k].age) = Rate
    BY DEF TokensAccountForRequests
  <2>1. k \in Keys /\ requests[k].age \in Nat
    BY WindowAssumption DEF IInv, TypeOK
  <2>2. requests[k].age < Window
    BY <2>1, WindowAssumption DEF Elapsed
  <2> QED
    BY <2>1, <2>2 DEF IInv, Explained, Explains, Current, AllowedWithin
<1> QED
  BY <1>1, Invariance, PTL

\* No client gets 2*Rate requests through within any one window.
THEOREM BurstAlwaysBounded == Spec => []BurstBound
<1>1. IInv => BurstBound
  <2> SUFFICES ASSUME IInv, NEW k \in Keys
               PROVE  AllowedWithin(k, Window - 1) <= 2 * Rate - 1
    BY DEF BurstBound
  <2>1. CASE k \notin DOMAIN requests
    BY <2>1, KeyFacts, RateAssumption
  <2>2. CASE k \in DOMAIN requests
    <3>1. requests[k].age \in Nat /\ requests[k].tokens \in Nat
      BY <2>2, WindowAssumption, RateAssumption DEF IInv, TypeOK
    <3>2. Window - 1 \in 0..(Window - 1)
      BY WindowAssumption
    <3>3. AllowedWithin(k, Window - 1) \in Nat
      BY <3>2, KeyFacts
    <3>4. CASE requests[k].age < Window
      <4>1. requests[k].age \in 0..(Window - 1)
        BY <3>1, <3>4, WindowAssumption
      <4>2. AllowedWithin(k, requests[k].age) \in Nat
        BY <4>1, KeyFacts
      <4>3. /\ requests[k].tokens + AllowedWithin(k, requests[k].age) = Rate
            /\ AllowedWithin(k, Window - 1)
                 <= AllowedWithin(k, requests[k].age) + (Rate - 1)
        BY <2>2, <3>4 DEF IInv, Explained, Explains, Current, AllowedWithin
      <4> QED
        BY <3>1, <3>3, <4>2, <4>3, RateAssumption
    <3>5. CASE ~(requests[k].age < Window)
      <4>1. AllowedWithin(k, Window - 1) <= Rate - 1
        BY <2>2, <3>5 DEF IInv, Explained, Explains, Past, AllowedWithin
      <4> QED
        BY <3>3, <4>1, RateAssumption
    <3> QED
      BY <3>4, <3>5
  <2> QED
    BY <2>1, <2>2
<1> QED
  BY <1>1, Invariance, PTL

\* A client that is turned away has had its full rate within the last window.
THEOREM DenialsAlwaysJustified == Spec => []DenialsJustified
<1>1. IInv => DenialsJustified
  <2> SUFFICES ASSUME IInv, NEW k \in Keys, Denies(k)
               PROVE  AllowedWithin(k, Window - 1) >= Rate
    BY DEF DenialsJustified
  <2>1. /\ k \in DOMAIN requests
        /\ requests[k].age \in Nat /\ requests[k].tokens \in Nat
        /\ requests[k].age < Window
        /\ requests[k].tokens = 0
    <3>1. k \in DOMAIN requests /\ ~Elapsed(requests[k]) /\ ~HasToken(requests[k])
      BY DEF Denies
    <3>2. requests[k].age \in Nat /\ requests[k].tokens \in Nat
      BY <3>1, WindowAssumption, RateAssumption DEF IInv, TypeOK
    <3> QED
      BY <3>1, <3>2, WindowAssumption DEF Elapsed, HasToken
  <2>2. requests[k].age \in 0..(Window - 1) /\ Window - 1 \in 0..(Window - 1)
    BY <2>1, WindowAssumption
  <2>3. AllowedWithin(k, requests[k].age) = Rate
    <3>1. requests[k].tokens + AllowedWithin(k, requests[k].age) = Rate
      BY <2>1 DEF IInv, Explained, Explains, Current, AllowedWithin
    <3>2. AllowedWithin(k, requests[k].age) \in Nat
      BY <2>2, KeyFacts
    <3> QED
      BY <2>1, <3>1, <3>2
  <2>4. AllowedWithin(k, requests[k].age) <= AllowedWithin(k, Window - 1)
    BY <2>2, KeyFacts
  <2>5. AllowedWithin(k, Window - 1) \in Nat
    BY <2>2, KeyFacts
  <2> QED
    BY <2>3, <2>4, <2>5, RateAssumption
<1> QED
  BY <1>1, Invariance, PTL
=============================================================================
